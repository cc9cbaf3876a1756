---------------------------- MODULE EntityStore -----------------------------
(***************************************************************************)
(* The entities of one tenant and their history: create_entity,            *)
(* get_entity, update_entity and delete_entity of TenantRepository inside  *)
(* the transactions of with_tenant_tx, over PostgreSQL under READ          *)
(* COMMITTED, with the primary key of entity_records and the foreign key   *)
(* from entity_histories to it.                                            *)
(*                                                                         *)
(* A client reads an entity in one transaction and updates it in a later   *)
(* one, sending the version it has read; a transaction may do several      *)
(* operations, fail at any of them, or commit without its client hearing   *)
(* of it.                                                                  *)
(***************************************************************************)
EXTENDS Integers, Sequences, SequencesExt

CONSTANTS
    Clients,        \* callers of with_tenant_tx, one transaction each
    EntityIds,
    Contents,
    FirstVersions,  \* the versions create_entity is called with (1 by default)
    MaxVersion,     \* i32::MAX
    MaxChanges,     \* bound: history rows
    NoRow           \* a row that does not exist

ASSUME VersionAssumption == MaxVersion \in Nat /\ FirstVersions \subseteq 1..MaxVersion
ASSUME ChangesAssumption == MaxChanges \in Nat
ASSUME NoRowAssumption == NoRow \notin [version : Nat, content : Contents]

VARIABLES
    entities,       \* committed rows of entity_records
    histories,      \* committed rows of entity_histories, in order
    locked,         \* the rows a transaction has locked or inserted
    draft,          \* the contents it has given to them
    rows,           \* the history rows it has inserted
    step,           \* the operation it is in the middle of, or NoRow
    known,          \* what each client has last read of each entity
    refused         \* clients whose last deletion the database refused

txnRows == <<locked, draft, rows, step>>
entityVars == <<entities, histories, txnRows, known, refused>>

EntityRow(version, content) == [version |-> version, content |-> content]
View(c, e) == IF e \in locked[c] THEN draft[c][e] ELSE entities[e]
Lockable(c, e) == \A d \in Clients \ {c} : e \notin locked[d]
Ready(c) == step[c] = NoRow

\* Transaction c gives row e these contents and inserts a history row.
Writes(c, e, row) ==
    /\ locked' = [locked EXCEPT ![c] = @ \cup {e}]
    /\ draft' = [draft EXCEPT ![c][e] = row]
AddsHistory(c, h) ==
    /\ Len(histories) + Len(rows[c]) < MaxChanges
    /\ rows' = [rows EXCEPT ![c] = Append(@, h)]
    /\ step' = [step EXCEPT ![c] = NoRow]

\* The rows about e among the first n history rows of s.
About(s, n, e) == {i \in 1..n : s[i].entity = e}

\* What the client had read of e before its transaction changed it.
Before(c, e) ==
    LET mine == About(rows[c], Len(rows[c]), e)
    IN  IF mine = {} THEN known[c][e] ELSE rows[c][Min(mine)].base

Release(c) ==
    /\ locked' = [locked EXCEPT ![c] = {}]
    /\ draft' = [draft EXCEPT ![c] = [e \in EntityIds |-> NoRow]]
    /\ rows' = [rows EXCEPT ![c] = <<>>]
    /\ step' = [step EXCEPT ![c] = NoRow]
ForgetResults(c) == known' = [known EXCEPT ![c] = [e \in EntityIds |-> Before(c, e)]]

-----------------------------------------------------------------------------
(***************************************************************************)
(* The operations.  An error ends the transaction (RollbackEntities) unless *)
(* the closure handles it.                                                 *)
(***************************************************************************)
\* The INSERT waits for a transaction that holds the key, and fails on a row.
CreateEntity(c, e, version, content) ==
    /\ Ready(c)
    /\ Lockable(c, e) /\ View(c, e) = NoRow
    /\ LET row == EntityRow(version, content)
       IN  /\ Writes(c, e, row)
           /\ AddsHistory(c, [entity |-> e, change |-> "CREATE", version |-> version,
                              diff |-> content, base |-> NoRow])
           /\ known' = [known EXCEPT ![c][e] = row]
    /\ UNCHANGED <<entities, histories, refused>>

GetEntity(c, e) ==
    /\ Ready(c)
    /\ known' = [known EXCEPT ![c][e] = View(c, e)]
    /\ UNCHANGED <<entities, histories, txnRows, refused>>

\* Mutant: the row is read and not locked.
LockExclusive_Plain(c, e) == UNCHANGED <<locked, draft>>

\* SELECT ... FOR UPDATE, which waits and then returns the newest version.
LockExclusive(c, e) ==
    /\ Lockable(c, e)
    /\ IF View(c, e) = NoRow THEN UNCHANGED <<locked, draft>> ELSE Writes(c, e, View(c, e))

Enter(c, call, e, content) ==
    /\ Ready(c)
    /\ LockExclusive(c, e)
    /\ step' = [step EXCEPT ![c] = [call |-> call, entity |-> e, existing |-> View(c, e),
                                    content |-> content]]
    /\ UNCHANGED <<entities, histories, rows, known, refused>>

\* The row is there with the version the client sends, which can be incremented.
Accepts(c, e) ==
    /\ View(c, e) # NoRow
    /\ known[c][e] # NoRow /\ known[c][e].version = View(c, e).version
    /\ View(c, e).version < MaxVersion

UpdateEntity(c, e, content) == Accepts(c, e) /\ Enter(c, "update", e, content)

\* Entity not found, version conflict or version overflow, with the lock held.
RefuseUpdate(c, e) ==
    /\ Ready(c)
    /\ ~Accepts(c, e)
    /\ LockExclusive(c, e)
    /\ UNCHANGED <<entities, histories, rows, step, known, refused>>

\* The UPDATE, the patch from what was read to what is stored, the history row.
WriteUpdate(c) ==
    /\ ~Ready(c) /\ step[c].call = "update"
    /\ LET s == step[c]
           row == EntityRow(s.existing.version + 1, s.content)
       IN  /\ Lockable(c, s.entity)
           /\ Writes(c, s.entity, row)
           /\ AddsHistory(c, [entity |-> s.entity, change |-> "UPDATE", version |-> row.version,
                              diff |-> [from |-> s.existing.content, to |-> row.content],
                              base |-> known[c][s.entity]])
           /\ known' = [known EXCEPT ![c][s.entity] = row]
    /\ UNCHANGED <<entities, histories, refused>>

DeleteEntity(c, e) == View(c, e) # NoRow /\ Enter(c, "delete", e, NoRow)

\* The history rows that refer to e, with the one delete_entity has inserted.
DeleteHistory(c, e) ==
    [entity |-> e, change |-> "DELETE", version |-> step[c].existing.version,
     diff |-> step[c].existing, base |-> known[c][e]]
Referenced(c, e) ==
    \E h \in ToSet(histories \o rows[c]) \cup {DeleteHistory(c, e)} : h.entity = e

\* The DELETE.  ON DELETE NO ACTION: a row that is referred to stays, and the
\* transaction is lost.
DeleteRow(c) ==
    /\ ~Ready(c) /\ step[c].call = "delete"
    /\ IF Referenced(c, step[c].entity)
         THEN /\ Release(c) /\ ForgetResults(c)
              /\ refused' = refused \cup {c}
         ELSE /\ Writes(c, step[c].entity, NoRow)
              /\ AddsHistory(c, DeleteHistory(c, step[c].entity))
              /\ refused' = refused \ {c}
              /\ UNCHANGED known
    /\ UNCHANGED <<entities, histories>>

-----------------------------------------------------------------------------
(***************************************************************************)
(* with_tenant_tx.                                                         *)
(***************************************************************************)
Committed(c) ==
    /\ entities' = [e \in EntityIds |-> View(c, e)]
    /\ histories' = histories \o rows[c]
    /\ Release(c)

CommitEntities(c) ==
    /\ Ready(c) /\ locked[c] # {}
    /\ Committed(c)
    /\ UNCHANGED <<known, refused>>

\* CommitUnknown, where the commit took effect: the client may try again with
\* the version it had.
CommitUnheard(c) ==
    /\ Ready(c) /\ rows[c] # <<>>
    /\ Committed(c)
    /\ ForgetResults(c)
    /\ UNCHANGED refused

\* An error of the closure or the database, or a lost connection.
RollbackEntities(c) ==
    /\ locked[c] # {}
    /\ Release(c) /\ ForgetResults(c)
    /\ UNCHANGED <<entities, histories, refused>>

EntityInit ==
    /\ entities = [e \in EntityIds |-> NoRow]
    /\ histories = <<>>
    /\ locked = [c \in Clients |-> {}]
    /\ draft = [c \in Clients |-> [e \in EntityIds |-> NoRow]]
    /\ rows = [c \in Clients |-> <<>>]
    /\ step = [c \in Clients |-> NoRow]
    /\ known = [c \in Clients |-> [e \in EntityIds |-> NoRow]]
    /\ refused = {}

EntityNext ==
    \E c \in Clients :
        \/ \E e \in EntityIds :
              \/ \E v \in FirstVersions, x \in Contents : CreateEntity(c, e, v, x)
              \/ \E x \in Contents : UpdateEntity(c, e, x)
              \/ GetEntity(c, e) \/ RefuseUpdate(c, e) \/ DeleteEntity(c, e)
        \/ WriteUpdate(c) \/ DeleteRow(c)
        \/ CommitEntities(c) \/ CommitUnheard(c) \/ RollbackEntities(c)

EntitySpec == EntityInit /\ [][EntityNext]_entityVars

-----------------------------------------------------------------------------
(***************************************************************************)
(* Properties.                                                             *)
(***************************************************************************)
\* The row a history row leaves, and whether it applies to a row: a patch fits
\* what it was made from.
Result(h) ==
    CASE h.change = "CREATE" -> EntityRow(h.version, h.diff)
      [] h.change = "UPDATE" -> EntityRow(h.version, h.diff.to)
      [] h.change = "DELETE" -> NoRow
Applies(h, row) ==
    CASE h.change = "CREATE" -> row = NoRow
      [] h.change = "UPDATE" -> row = EntityRow(h.version - 1, h.diff.from)
      [] h.change = "DELETE" -> row = h.diff

\* What e is after the first n history rows of s, if it was start before them.
RowAfter(s, n, e, start) ==
    LET mine == About(s, n, e)
    IN  IF mine = {} THEN start ELSE Result(s[Max(mine)])

\* Each row of s applies to what the rows before it have made of its entity.
Replays(s, start) ==
    \A n \in 1..Len(s) : Applies(s[n], RowAfter(s, n - 1, s[n].entity, start[s[n].entity]))

\* An update replaced what its client had read.
ReplacesRead(h) == h.change = "UPDATE" => h.base = EntityRow(h.version - 1, h.diff.from)

(***************************************************************************)
(* The history of an entity is its life: replayed from its creation it     *)
(* gives the row of entity_records, each patch applying to what the one    *)
(* before it left and each version one above the last.  And no update is   *)
(* lost: what an update replaced is what its client had read, whatever     *)
(* others committed since, and also when a client repeats an update whose  *)
(* commit it did not hear of.                                              *)
(***************************************************************************)
HistoryReplays ==
    /\ Replays(histories, [e \in EntityIds |-> NoRow])
    /\ \A e \in EntityIds : RowAfter(histories, Len(histories), e, NoRow) = entities[e]
    /\ \A i \in 1..Len(histories) : ReplacesRead(histories[i])

(***************************************************************************)
(* kernel-data/tests/integration_tests.rs: an entity that was created and  *)
(* is deleted by its tenant does not exist any more; the database does not *)
(* refuse the deletion.                                                    *)
(***************************************************************************)
DeletionAccepted == refused = {}
=============================================================================
