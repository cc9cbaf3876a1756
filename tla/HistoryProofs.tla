--------------------------- MODULE HistoryProofs ----------------------------
(***************************************************************************)
(* The history of a tenant's entities and its archive.  For any number of  *)
(* clients, entities, contents and changes the history replays to what is  *)
(* stored and no update is lost.  For any number of archivers, what is     *)
(* marked archived has its object, and no archiver writes an object twice. *)
(***************************************************************************)
EXTENDS Archiver, EntityStore, FiniteSetTheorems, WellFoundedInduction, TLAPS

-----------------------------------------------------------------------------
(***************************************************************************)
(* The archiver.                                                           *)
(***************************************************************************)
(***************************************************************************)
(* The inductive invariant for ArchivedIsStored: the MarkPlan of a cycle   *)
(* names stored rows only, and is committed before it is audited.          *)
(***************************************************************************)
PlanStored ==
    /\ pc \in [Archivers -> {"select", "head", "put", "mark", "audit", "stopped"}]
    /\ archived_ids \in [Archivers -> SUBSET objects]
    /\ \A a \in Archivers : pc[a] = "audit" => archived_ids[a] \subseteq archived

StoredInv == ArchivedIsStored /\ PlanStored

LEMMA StoredInitInv == ArchiverInit => StoredInv
BY DEF ArchiverInit, StoredInv, ArchivedIsStored, PlanStored

LEMMA StoredNextInv == StoredInv /\ [ArchiverNext]_archiverVars => StoredInv'
<1> SUFFICES ASSUME StoredInv, [ArchiverNext]_archiverVars PROVE StoredInv'
  OBVIOUS
<1> USE DEF StoredInv, ArchivedIsStored, PlanStored, s3Vars, cycleVars, Goto
<1>1. CASE ChangeEntity \/ LogAudit
  BY <1>1 DEF ChangeEntity, LogAudit, Create
<1>2. ASSUME NEW a \in Archivers, Fetch(a) PROVE StoredInv'
  BY <1>2 DEF Fetch
<1>3. ASSUME NEW a \in Archivers, HeadObject(a) PROVE StoredInv'
  <2>1. archived_ids' \in [Archivers -> SUBSET objects]
    BY <1>3 DEF HeadObject, Advance
  <2>2. \A b \in Archivers : pc'[b] = "audit" => pc[b] = "audit" /\ archived_ids'[b] = archived_ids[b]
    BY <1>3 DEF HeadObject, Advance
  <2> QED BY <1>3, <2>1, <2>2 DEF HeadObject
<1>4. ASSUME NEW a \in Archivers, HeadFails(a) PROVE StoredInv'
  BY <1>4 DEF HeadFails, Advance
<1>5. ASSUME NEW a \in Archivers, PutObject(a) PROVE StoredInv'
  <2>1. archived_ids' \in [Archivers -> SUBSET objects']
    BY <1>5 DEF PutObject, Store, Advance
  <2>2. \A b \in Archivers : pc'[b] = "audit" => pc[b] = "audit" /\ archived_ids'[b] = archived_ids[b]
    BY <1>5 DEF PutObject, Advance
  <2> QED BY <1>5, <2>1, <2>2 DEF PutObject, Store
<1>6. ASSUME NEW a \in Archivers, PutFails(a) PROVE StoredInv'
  <2>1. objects \subseteq objects' /\ archived_ids' = archived_ids
    BY <1>6 DEF PutFails, Store, Advance
  <2> QED BY <1>6, <2>1 DEF PutFails
<1>7. ASSUME NEW a \in Archivers, EndBatch(a) PROVE StoredInv'
  BY <1>7 DEF EndBatch
<1>8. ASSUME NEW a \in Archivers, NoMarkToken(a) \/ AuditFails(a) PROVE StoredInv'
  BY <1>8 DEF NoMarkToken, AuditFails
<1>9. ASSUME NEW a \in Archivers, Mark(a) PROVE StoredInv'
  BY <1>9 DEF Mark, Marked, HistoriesMarked, LogsMarked
<1>10. ASSUME NEW a \in Archivers, MarkFails(a) PROVE StoredInv'
  BY <1>10 DEF MarkFails, Marked, HistoriesMarked, LogsMarked
<1>11. ASSUME NEW a \in Archivers, LogPrivilegedAudit(a) PROVE StoredInv'
  BY <1>11 DEF LogPrivilegedAudit
<1>12. ASSUME NEW a \in Archivers, Crash(a) PROVE StoredInv'
  <2>1. objects \subseteq objects'
    BY <1>12 DEF Crash, Store
  <2> QED BY <1>12, <2>1 DEF Crash
<1>13. ASSUME NEW a \in Archivers, CtrlC(a) PROVE StoredInv'
  BY <1>13 DEF CtrlC
<1>14. CASE UNCHANGED archiverVars
  BY <1>14 DEF archiverVars
<1> QED BY <1>1, <1>2, <1>3, <1>4, <1>5, <1>6, <1>7, <1>8, <1>9, <1>10, <1>11, <1>12, <1>13,
       <1>14 DEF ArchiverNext, Cycle

(***************************************************************************)
(* A row is marked archived only when its object is in S3, and audited     *)
(* only when it is marked.                                                 *)
(***************************************************************************)
THEOREM NoHistoryLost == ArchiverSpec => []ArchivedIsStored
<1>1. StoredInv => ArchivedIsStored
  BY DEF StoredInv
<1> QED BY StoredInitInv, StoredNextInv, <1>1, PTL DEF ArchiverSpec

-----------------------------------------------------------------------------
(***************************************************************************)
(* The inductive invariant for WrittenOncePerArchiver: an archiver that    *)
(* found no object and has not written it yet is counted as a write to     *)
(* come; while there is no object nothing was written.                     *)
(***************************************************************************)
Writing(r) == {a \in Archivers : pc[a] = "put" /\ Item(a) = r}

WriteBudget(r) ==
    /\ r \notin objects => puts[r] = 0
    /\ puts[r] + Cardinality(Writing(r)) <= Cardinality(Archivers)

WrittenInv ==
    /\ pc \in [Archivers -> {"select", "head", "put", "mark", "audit", "stopped"}]
    /\ DOMAIN todo = Archivers
    /\ puts \in [Records -> Nat]
    /\ \A r \in Records : WriteBudget(r)

\* The archivers about to write a row, and those that are not, are counted.
LEMMA WritingCounted ==
    ASSUME NEW r
    PROVE  /\ IsFiniteSet(Writing(r)) /\ Cardinality(Writing(r)) \in Nat
           /\ Cardinality(Archivers) \in Nat
           /\ Cardinality(Writing(r)) <= Cardinality(Archivers)
BY ArchiversAssumption, FS_Subset, FS_CardinalityType DEF Writing

LEMMA WritingCountedNext ==
    ASSUME NEW r
    PROVE  /\ IsFiniteSet(Writing(r)') /\ Cardinality(Writing(r)') \in Nat
           /\ Cardinality(Writing(r)') <= Cardinality(Archivers)
BY ArchiversAssumption, FS_Subset, FS_CardinalityType DEF Writing

\* A step that writes nothing, after which no more archivers are about to
\* write a row that is stored.
LEMMA NothingWritten ==
    ASSUME WrittenInv, UNCHANGED s3Vars,
           NEW r \in Records, r \in objects => Writing(r)' \subseteq Writing(r)
    PROVE  WriteBudget(r)'
<1>1. UNCHANGED <<objects, puts>>
  BY DEF s3Vars
<1>2. WriteBudget(r) /\ puts[r] \in Nat
  BY DEF WrittenInv
<1>3. CASE r \in objects
  <2>1. Cardinality(Writing(r)') <= Cardinality(Writing(r))
    BY <1>3, WritingCounted, FS_Subset
  <2> QED BY <1>1, <1>2, <1>3, <2>1, WritingCounted, WritingCountedNext DEF WriteBudget
<1>4. CASE r \notin objects
  BY <1>1, <1>2, <1>4, WritingCounted, WritingCountedNext DEF WriteBudget
<1> QED BY <1>3, <1>4

\* An archiver that leaves "put" may have written its item, and nothing else.
LEMMA OneWritten ==
    ASSUME WrittenInv, NEW a \in Archivers, pc[a] = "put", pc'[a] # "put",
           \A b \in Archivers \ {a} : pc'[b] = pc[b] /\ todo'[b] = todo[b],
           Store(Item(a)),
           NEW r \in Records
    PROVE  WriteBudget(r)'
<1>1. objects' = objects \cup {Item(a)} /\ puts' = [puts EXCEPT ![Item(a)] = @ + 1]
  BY DEF Store
<1>2. WriteBudget(r) /\ puts[r] \in Nat
  BY DEF WrittenInv
<1>3. Writing(r)' = Writing(r) \ {a}
  BY DEF Writing, Item
<1>4. CASE r = Item(a)
  <2>1. a \in Writing(r)
    BY <1>4 DEF Writing
  <2>2. Cardinality(Writing(r)') = Cardinality(Writing(r)) - 1
    BY <1>3, <2>1, WritingCounted, FS_RemoveElement
  <2>3. puts'[r] = puts[r] + 1 /\ r \in objects'
    BY <1>1, <1>4 DEF WrittenInv
  <2> QED BY <1>2, <2>2, <2>3, WritingCounted DEF WriteBudget
<1>5. CASE r # Item(a)
  <2>1. Cardinality(Writing(r)') <= Cardinality(Writing(r))
    BY <1>3, WritingCounted, FS_Subset
  <2>2. puts'[r] = puts[r] /\ (r \in objects' <=> r \in objects)
    BY <1>1, <1>5 DEF WrittenInv
  <2> QED BY <1>2, <2>1, <2>2, WritingCounted, WritingCountedNext DEF WriteBudget
<1> QED BY <1>4, <1>5

\* Store counts a write of r, when r is a row.
LEMMA StoreCounts ==
    ASSUME puts \in [Records -> Nat], NEW r, Store(r)
    PROVE  puts' \in [Records -> Nat]
<1>1. CASE r \in Records
  <2>1. puts[r] + 1 \in Nat
    BY <1>1
  <2> QED BY <2>1 DEF Store
<1>2. CASE r \notin Records
  <2>1. puts' = puts
    BY <1>2 DEF Store
  <2> QED BY <2>1
<1> QED BY <1>1, <1>2

LEMMA WrittenInitInv == ArchiverInit => WrittenInv
<1> SUFFICES ASSUME ArchiverInit PROVE WrittenInv
  OBVIOUS
<1>1. ASSUME NEW r \in Records PROVE WriteBudget(r)
  BY WritingCounted DEF ArchiverInit, WriteBudget
<1> QED BY <1>1 DEF ArchiverInit, WrittenInv

LEMMA WrittenNextInv == WrittenInv /\ [ArchiverNext]_archiverVars => WrittenInv'
<1> SUFFICES ASSUME WrittenInv, [ArchiverNext]_archiverVars PROVE WrittenInv'
  OBVIOUS
<1> DEFINE Types == /\ pc \in [Archivers -> {"select", "head", "put", "mark", "audit", "stopped"}]
                    /\ DOMAIN todo = Archivers
                    /\ puts \in [Records -> Nat]
<1>0. Types /\ \A r \in Records : WriteBudget(r)
  BY DEF WrittenInv
<1>1. SUFFICES Types' /\ \A r \in Records : WriteBudget(r)'
  BY DEF WrittenInv
<1> USE DEF s3Vars, cycleVars, Goto
\* Steps of the other kinds: an archiver is about to write only what it was
\* about to write before.
<1>2. ASSUME Types', UNCHANGED s3Vars,
             \A b \in Archivers : pc'[b] = "put" => pc[b] = "put" /\ todo'[b] = todo[b]
      PROVE  \A r \in Records : WriteBudget(r)'
  <2>1. \A r \in Records : Writing(r)' \subseteq Writing(r)
    BY <1>2 DEF Writing, Item
  <2> QED BY <1>2, <2>1, NothingWritten
<1>3. CASE ChangeEntity \/ LogAudit
  <2>1. Types'
    BY <1>0, <1>3 DEF ChangeEntity, LogAudit, Create
  <2> QED BY <1>2, <1>3, <2>1 DEF ChangeEntity, LogAudit, Create
<1>4. ASSUME NEW a \in Archivers, Fetch(a) PROVE Types' /\ \A r \in Records : WriteBudget(r)'
  <2>1. Types'
    BY <1>0, <1>4 DEF Fetch
  <2>2. \A b \in Archivers : pc'[b] = "put" => pc[b] = "put" /\ todo'[b] = todo[b]
    BY <1>0, <1>4 DEF Fetch
  <2> QED BY <1>2, <1>4, <2>1, <2>2 DEF Fetch
<1>5. ASSUME NEW a \in Archivers, HeadObject(a) PROVE Types' /\ \A r \in Records : WriteBudget(r)'
  <2>1. Types'
    BY <1>0, <1>5 DEF HeadObject, Advance
  <2>2. \A r \in objects : Writing(r)' \subseteq Writing(r)
    <3>1. CASE Item(a) \in objects /\ Advance(a, TRUE) /\ UNCHANGED pc
      <4>1. \A b \in Archivers : pc'[b] = "put" => pc[b] = "put" /\ todo'[b] = todo[b]
        BY <1>0, <1>5, <3>1 DEF HeadObject, Advance
      <4> QED BY <4>1 DEF Writing, Item
    <3>2. CASE Item(a) \notin objects /\ Goto(a, "put") /\ UNCHANGED todo
      BY <1>0, <3>2 DEF Writing, Item
    <3> QED BY <1>5, <3>1, <3>2 DEF HeadObject
  <2> QED BY <1>5, <2>1, <2>2, NothingWritten DEF HeadObject
<1>6. ASSUME NEW a \in Archivers, HeadFails(a) PROVE Types' /\ \A r \in Records : WriteBudget(r)'
  <2>1. Types'
    BY <1>0, <1>6 DEF HeadFails, Advance
  <2>2. \A b \in Archivers : pc'[b] = "put" => pc[b] = "put" /\ todo'[b] = todo[b]
    BY <1>0, <1>6 DEF HeadFails, Advance
  <2> QED BY <1>2, <1>6, <2>1, <2>2 DEF HeadFails
<1>7. ASSUME NEW a \in Archivers, PutObject(a) PROVE Types' /\ \A r \in Records : WriteBudget(r)'
  <2>0. puts' \in [Records -> Nat]
    BY <1>0, <1>7, StoreCounts DEF PutObject
  <2>1. Types'
    BY <1>0, <1>7, <2>0 DEF PutObject, Advance
  <2>2. \A b \in Archivers \ {a} : pc'[b] = pc[b] /\ todo'[b] = todo[b]
    BY <1>0, <1>7 DEF PutObject, Advance
  <2> QED BY <1>0, <1>7, <2>1, <2>2, OneWritten DEF PutObject
<1>8. ASSUME NEW a \in Archivers, PutFails(a) PROVE Types' /\ \A r \in Records : WriteBudget(r)'
  <2>1. Types'
    BY <1>0, <1>8 DEF PutFails, Store, Advance
  <2>2. \A b \in Archivers \ {a} : pc'[b] = pc[b] /\ todo'[b] = todo[b]
    BY <1>0, <1>8 DEF PutFails, Advance
  <2>3. pc[a] = "put" /\ pc'[a] = "head"
    BY <1>0, <1>8 DEF PutFails
  <2>4. CASE UNCHANGED s3Vars
    BY <1>2, <2>1, <2>2, <2>3, <2>4
  <2>5. CASE Store(Item(a))
    BY <2>2, <2>3, <2>5, OneWritten, <2>1
  <2> QED BY <1>8, <2>4, <2>5 DEF PutFails
<1>9. ASSUME NEW a \in Archivers,
             EndBatch(a) \/ NoMarkToken(a) \/ Mark(a) \/ MarkFails(a) \/ LogPrivilegedAudit(a) \/ AuditFails(a)
      PROVE  Types' /\ \A r \in Records : WriteBudget(r)'
  <2>1. UNCHANGED <<todo, s3Vars>> /\ \E l \in {"select", "mark", "audit"} : pc' = [pc EXCEPT ![a] = l]
    BY <1>9 DEF EndBatch, NoMarkToken, Mark, MarkFails, LogPrivilegedAudit, AuditFails
  <2>2. Types'
    BY <1>0, <2>1
  <2> QED BY <1>0, <1>2, <2>1, <2>2
<1>10. ASSUME NEW a \in Archivers, Crash(a) PROVE Types' /\ \A r \in Records : WriteBudget(r)'
  <2>1. Types'
    BY <1>0, <1>10 DEF Crash, Store
  <2>2. \A b \in Archivers \ {a} : pc'[b] = pc[b] /\ todo'[b] = todo[b]
    BY <1>0, <1>10 DEF Crash
  <2>3. pc'[a] = "select"
    BY <1>0, <1>10 DEF Crash
  <2>4. CASE UNCHANGED s3Vars
    BY <1>2, <2>1, <2>2, <2>3, <2>4
  <2>5. CASE pc[a] = "put" /\ Store(Item(a))
    BY <2>2, <2>3, <2>5, OneWritten, <2>1
  <2> QED BY <1>10, <2>4, <2>5 DEF Crash
<1>11. ASSUME NEW a \in Archivers, CtrlC(a) PROVE Types' /\ \A r \in Records : WriteBudget(r)'
  <2>1. Types' /\ UNCHANGED <<todo, s3Vars>>
    BY <1>0, <1>11 DEF CtrlC
  <2>2. \A b \in Archivers : pc'[b] = "put" => pc[b] = "put"
    BY <1>0, <1>11 DEF CtrlC
  <2> QED BY <1>2, <2>1, <2>2
<1>12. CASE UNCHANGED archiverVars
  BY <1>0, <1>2, <1>12 DEF archiverVars
<1> QED BY <1>3, <1>4, <1>5, <1>6, <1>7, <1>8, <1>9, <1>10, <1>11, <1>12 DEF ArchiverNext, Cycle

(***************************************************************************)
(* Each archiver writes an object at most once, whatever was reported as   *)
(* failed and wherever a process died.                                     *)
(***************************************************************************)
THEOREM WriteOnce == ArchiverSpec => []WrittenOncePerArchiver
<1>1. WrittenInv => WrittenOncePerArchiver
  BY WritingCounted DEF WrittenInv, WriteBudget, WrittenOncePerArchiver
<1> QED BY WrittenInitInv, WrittenNextInv, <1>1, PTL DEF ArchiverSpec

-----------------------------------------------------------------------------
(***************************************************************************)
(* The entities.  Facts about sequences of history rows.                   *)
(***************************************************************************)
Record == [version : Nat, content : Contents]

\* The history rows that can be written; a deletion is always refused.
Change ==
    [entity : EntityIds, change : {"CREATE"}, version : Nat, diff : Contents, base : {NoRow}]
      \cup [entity : EntityIds, change : {"UPDATE"}, version : Nat,
            diff : [from : Contents, to : Contents], base : Record \cup {NoRow}]

\* A non-empty set of numbers up to k has a largest element: the one whose
\* distance from k is smallest.
LEMMA LargestOf ==
    ASSUME NEW k \in Nat, NEW S \in SUBSET (1..k), S # {}
    PROVE  Max(S) \in S /\ \A e \in S : e <= Max(S)
<1> DEFINE T == {k - e : e \in S}
<1>0. \A e \in S : e \in Nat /\ 1 <= e /\ e <= k
  OBVIOUS
<1>1. T \subseteq Nat /\ T # {}
  <2>1. \A e \in S : k - e \in Nat
    BY <1>0
  <2>2. PICK e \in S : TRUE
    OBVIOUS
  <2>3. k - e \in T
    OBVIOUS
  <2> QED BY <2>1, <2>3
<1>2. PICK t \in T : \A u \in T : ~(<<u, t>> \in OpToRel(<, Nat))
  <2> HIDE DEF T
  <2> QED BY <1>1, WFMin, NatLessThanWellFounded
<1>3. \A u \in T : ~(u < t)
  BY <1>1, <1>2 DEF OpToRel
<1>4. PICK m \in S : t = k - m
  OBVIOUS
<1>5. \A e \in S : m >= e
  <2> TAKE e \in S
  <2>1. k - e \in T
    OBVIOUS
  <2>2. ~(k - e < k - m)
    BY <1>3, <1>4, <2>1
  <2>3. e \in Nat /\ m \in Nat
    BY <1>0
  <2> QED BY <2>2, <2>3
<1> QED BY <1>5 DEF Max

\* The largest element is the one that is not smaller than any.
LEMMA LargestIs ==
    ASSUME NEW S \in SUBSET Nat, NEW m \in S, \A e \in S : e <= m
    PROVE  Max(S) = m
<1>1. \A e \in S : m >= e
  OBVIOUS
<1>2. Max(S) \in S /\ \A e \in S : Max(S) >= e
  BY <1>1 DEF Max
<1>3. Max(S) \in Nat /\ m \in Nat /\ Max(S) >= m /\ Max(S) <= m
  BY <1>2
<1> QED BY <1>3

\* RowAfter looks at the first n rows only.
LEMMA RowAfterSame ==
    ASSUME NEW s \in Seq(Change), NEW t \in Seq(Change), NEW n \in Nat,
           \A i \in 1..n : s[i] = t[i], NEW e, NEW start
    PROVE  RowAfter(s, n, e, start) = RowAfter(t, n, e, start)
<1>1. About(s, n, e) = About(t, n, e)
  BY DEF About
<1>2. ASSUME About(s, n, e) # {} PROVE s[Max(About(s, n, e))] = t[Max(About(s, n, e))]
  BY <1>2, LargestOf DEF About
<1> QED BY <1>1, <1>2 DEF RowAfter

\* The rows of t go on from what the rows of s have left.
LEMMA RowAfterConcat ==
    ASSUME NEW s \in Seq(Change), NEW t \in Seq(Change), NEW n \in 0..Len(t), NEW e, NEW start
    PROVE  RowAfter(s \o t, Len(s) + n, e, start) = RowAfter(t, n, e, RowAfter(s, Len(s), e, start))
<1> DEFINE u == s \o t
<1>1. /\ Len(s) \in Nat /\ Len(t) \in Nat /\ u \in Seq(Change) /\ Len(u) = Len(s) + Len(t)
      /\ \A i \in 1..Len(s) : u[i] = s[i]
      /\ \A i \in 1..Len(t) : u[Len(s) + i] = t[i]
  OBVIOUS
<1> HIDE DEF u
<1>2. CASE About(t, n, e) = {}
  <2>1. About(u, Len(s) + n, e) = About(s, Len(s), e)
    <3>1. ASSUME NEW i \in 1..(Len(s) + n), u[i].entity = e PROVE i \in 1..Len(s)
      <4>1. CASE i > Len(s)
        <5>1. i - Len(s) \in 1..n /\ i = Len(s) + (i - Len(s)) /\ i - Len(s) \in 1..Len(t)
          BY <1>1, <4>1
        <5>2. u[i] = t[i - Len(s)]
          BY <1>1, <5>1
        <5> QED BY <1>2, <3>1, <5>1, <5>2 DEF About
      <4> QED BY <1>1, <4>1
    <3>2. 1..Len(s) \subseteq 1..(Len(s) + n)
      BY <1>1
    <3> QED BY <1>1, <3>1, <3>2 DEF About
  <2>2. RowAfter(u, Len(s) + n, e, start) = RowAfter(s, Len(s), e, start)
    <3>1. ASSUME About(s, Len(s), e) # {}
          PROVE  u[Max(About(s, Len(s), e))] = s[Max(About(s, Len(s), e))]
      BY <1>1, <3>1, LargestOf DEF About
    <3> QED BY <2>1, <3>1 DEF RowAfter
  <2> QED BY <1>2, <2>2 DEF RowAfter, u
<1>3. CASE About(t, n, e) # {}
  <2> DEFINE m == Max(About(t, n, e))
  <2>0. n \in Nat /\ About(t, n, e) \in SUBSET (1..n)
    BY <1>1 DEF About
  <2>1. m \in About(t, n, e) /\ \A i \in About(t, n, e) : i <= m
    BY <1>3, <2>0, LargestOf
  <2>2. m \in 1..n /\ m \in 1..Len(t) /\ t[m].entity = e
    BY <1>1, <2>1 DEF About
  <2> HIDE DEF m
  <2>3. Len(s) + m \in About(u, Len(s) + n, e)
    BY <1>1, <2>2 DEF About
  <2>4. ASSUME NEW i \in About(u, Len(s) + n, e) PROVE i <= Len(s) + m
    <3>1. i \in 1..(Len(s) + n) /\ u[i].entity = e
      BY <2>4 DEF About
    <3>2. CASE i > Len(s)
      <4>1. i - Len(s) \in 1..n /\ i = Len(s) + (i - Len(s)) /\ i - Len(s) \in 1..Len(t)
        BY <1>1, <3>1, <3>2
      <4>2. u[i] = t[i - Len(s)]
        BY <1>1, <4>1
      <4>3. i - Len(s) \in About(t, n, e)
        BY <3>1, <4>1, <4>2 DEF About
      <4> QED BY <1>1, <2>1, <2>2, <4>1, <4>3
    <3> QED BY <1>1, <2>2, <3>1, <3>2
  <2>5. Max(About(u, Len(s) + n, e)) = Len(s) + m
    <3>1. About(u, Len(s) + n, e) \in SUBSET Nat
      BY <1>1 DEF About
    <3> QED BY <2>3, <2>4, <3>1, LargestIs
  <2>6. u[Len(s) + m] = t[m]
    BY <1>1, <2>2
  <2> QED BY <1>3, <2>3, <2>5, <2>6 DEF RowAfter, m, u
<1> QED BY <1>2, <1>3

\* Rows that replay, one after the other, replay together.
LEMMA ReplaysConcat ==
    ASSUME NEW s \in Seq(Change), NEW t \in Seq(Change), NEW start, NEW mid,
           Replays(s, start), Replays(t, mid),
           \A e \in EntityIds : mid[e] = RowAfter(s, Len(s), e, start[e])
    PROVE  Replays(s \o t, start)
<1> DEFINE u == s \o t
<1>1. /\ Len(s) \in Nat /\ Len(t) \in Nat /\ u \in Seq(Change) /\ Len(u) = Len(s) + Len(t)
      /\ \A i \in 1..Len(s) : u[i] = s[i]
      /\ \A i \in 1..Len(t) : u[Len(s) + i] = t[i]
  OBVIOUS
<1> HIDE DEF u
<1>2. ASSUME NEW n \in 1..Len(u)
      PROVE  Applies(u[n], RowAfter(u, n - 1, u[n].entity, start[u[n].entity]))
  <2>1. CASE n <= Len(s)
    <3>1. n \in 1..Len(s) /\ n - 1 \in Nat /\ u[n] = s[n] /\ \A i \in 1..(n - 1) : u[i] = s[i]
      BY <1>1, <2>1
    <3>2. RowAfter(u, n - 1, s[n].entity, start[s[n].entity]) = RowAfter(s, n - 1, s[n].entity, start[s[n].entity])
      BY <1>1, <3>1, RowAfterSame
    <3> QED BY <3>1, <3>2 DEF Replays
  <2>2. CASE n > Len(s)
    <3> DEFINE k == n - Len(s)
               e == t[k].entity
    <3>1. k \in 1..Len(t) /\ n = Len(s) + k /\ n - 1 = Len(s) + (k - 1) /\ k - 1 \in 0..Len(t)
      BY <1>1, <2>2
    <3>2. u[n] = t[k] /\ t[k] \in Change
      BY <1>1, <3>1
    <3>3. e \in EntityIds
      BY <3>2 DEF Change
    <3>4. RowAfter(u, n - 1, e, start[e]) = RowAfter(t, k - 1, e, RowAfter(s, Len(s), e, start[e]))
      BY <3>1, RowAfterConcat DEF u
    <3>5. Applies(t[k], RowAfter(t, k - 1, e, mid[e]))
      BY <3>1 DEF Replays
    <3> QED BY <3>2, <3>3, <3>4, <3>5
  <2> QED BY <1>1, <2>1, <2>2
<1> QED BY <1>2 DEF Replays, u

\* One more row.
LEMMA RowAfterAppend ==
    ASSUME NEW s \in Seq(Change), NEW h \in Change, NEW e, NEW start
    PROVE  RowAfter(Append(s, h), Len(s) + 1, e, start)
             = IF h.entity = e THEN Result(h) ELSE RowAfter(s, Len(s), e, start)
<1> DEFINE t == <<h>>
<1>1. Append(s, h) = s \o t /\ t \in Seq(Change) /\ Len(t) = 1 /\ t[1] = h
      /\ 1 \in 0..Len(t)
  OBVIOUS
<1> HIDE DEF t
<1>2. RowAfter(s \o t, Len(s) + 1, e, start) = RowAfter(t, 1, e, RowAfter(s, Len(s), e, start))
  BY <1>1, RowAfterConcat
<1>3. CASE h.entity = e
  <2>1. About(t, 1, e) = {1}
    BY <1>1, <1>3 DEF About
  <2>2. Max({1}) = 1
    BY LargestIs
  <2> QED BY <1>1, <1>2, <1>3, <2>1, <2>2 DEF RowAfter
<1>4. CASE h.entity # e
  <2>1. About(t, 1, e) = {}
    BY <1>1, <1>4 DEF About
  <2> QED BY <1>1, <1>2, <1>4, <2>1 DEF RowAfter
<1> QED BY <1>3, <1>4

LEMMA ReplaysAppend ==
    ASSUME NEW s \in Seq(Change), NEW h \in Change, NEW start, Replays(s, start),
           Applies(h, RowAfter(s, Len(s), h.entity, start[h.entity]))
    PROVE  Replays(Append(s, h), start)
<1> DEFINE u == Append(s, h)
<1>1. /\ Len(s) \in Nat /\ u \in Seq(Change) /\ Len(u) = Len(s) + 1
      /\ u[Len(s) + 1] = h /\ \A i \in 1..Len(s) : u[i] = s[i]
  OBVIOUS
<1> HIDE DEF u
<1>2. ASSUME NEW n \in 1..Len(u)
      PROVE  Applies(u[n], RowAfter(u, n - 1, u[n].entity, start[u[n].entity]))
  <2>1. n - 1 \in Nat /\ n - 1 <= Len(s) /\ \A i \in 1..(n - 1) : u[i] = s[i]
    BY <1>1
  <2>2. \A e : RowAfter(u, n - 1, e, start[e]) = RowAfter(s, n - 1, e, start[e])
    BY <1>1, <2>1, RowAfterSame
  <2>3. n \in 1..Len(s) => u[n] = s[n] /\ Applies(s[n], RowAfter(s, n - 1, s[n].entity, start[s[n].entity]))
    BY <1>1 DEF Replays
  <2>4. n \notin 1..Len(s) => u[n] = h /\ n - 1 = Len(s)
    BY <1>1
  <2> QED BY <2>2, <2>3, <2>4
<1> QED BY <1>2 DEF Replays, u

\* The smallest of a set of numbers, of which there is one.
LEMMA SmallestOf ==
    ASSUME NEW S \in SUBSET Nat, S # {}
    PROVE  Min(S) \in S /\ \A e \in S : Min(S) <= e
<1>1. PICK m \in S : \A e \in S : ~(<<e, m>> \in OpToRel(<, Nat))
  BY WFMin, NatLessThanWellFounded
<1>2. \A e \in S : e \in Nat /\ m \in Nat /\ ~(e < m)
  BY <1>1 DEF OpToRel
<1>3. \A e \in S : m <= e
  BY <1>2
<1> QED BY <1>3 DEF Min

LEMMA SmallestIs ==
    ASSUME NEW S \in SUBSET Nat, NEW m \in S, \A e \in S : m <= e
    PROVE  Min(S) = m
<1>1. Min(S) \in S /\ Min(S) <= m
  BY SmallestOf
<1>2. Min(S) \in Nat /\ m \in Nat /\ m <= Min(S)
  BY <1>1
<1> QED BY <1>1, <1>2

-----------------------------------------------------------------------------
(***************************************************************************)
(* The inductive invariant.  Rows never go back: what is known, committed  *)
(* or drafted of an entity is the past of what comes after it, and a       *)
(* version stands for one content.                                         *)
(***************************************************************************)
IsPast(old, row) ==
    old # NoRow =>
        /\ row # NoRow /\ old.version <= row.version
        /\ old.version = row.version => old = row

EntityTypes ==
    /\ entities \in [EntityIds -> Record \cup {NoRow}]
    /\ histories \in Seq(Change)
    /\ locked \in [Clients -> SUBSET EntityIds]
    /\ draft \in [Clients -> [EntityIds -> Record \cup {NoRow}]]
    /\ rows \in [Clients -> Seq(Change)]
    /\ DOMAIN step = Clients
    /\ known \in [Clients -> [EntityIds -> Record \cup {NoRow}]]

\* The history rows of a transaction are about rows it has locked, and lead
\* from what is committed to its draft.
RowsLead(c) ==
    /\ \A i \in 1..Len(rows[c]) : rows[c][i].entity \in locked[c] /\ ReplacesRead(rows[c][i])
    /\ Replays(rows[c], entities)
    /\ \A e \in locked[c] :
          /\ RowAfter(rows[c], Len(rows[c]), e, entities[e]) = draft[c][e]
          /\ IsPast(entities[e], draft[c][e])

\* What a client knows, and what it knew before its transaction, is past.
KnowsPast(c) ==
    \A e \in EntityIds : IsPast(known[c][e], View(c, e)) /\ IsPast(Before(c, e), entities[e])

\* Between its two statements an update holds the row it has read, which is
\* the one its client knows.
UpdateHolds(c) ==
    step[c] # NoRow /\ step[c].call = "update" =>
        /\ step[c].entity \in locked[c] /\ step[c].content \in Contents
        /\ step[c].existing \in Record
        /\ step[c].existing = draft[c][step[c].entity]
        /\ step[c].existing = known[c][step[c].entity]

TxnInv(c) == RowsLead(c) /\ KnowsPast(c) /\ UpdateHolds(c)

LocksApart == \A c, d \in Clients : c # d => locked[c] \cap locked[d] = {}

EntityInv ==
    /\ EntityTypes
    /\ LocksApart
    /\ \A c \in Clients : TxnInv(c)
    /\ HistoryReplays

LEMMA PastTransitive ==
    ASSUME NEW a \in Record \cup {NoRow}, NEW b \in Record \cup {NoRow}, NEW d \in Record \cup {NoRow},
           IsPast(a, b), IsPast(b, d)
    PROVE  IsPast(a, d)
BY DEF IsPast, Record

\* A row that the transaction has not locked it has not changed.
LEMMA ViewLeads ==
    ASSUME EntityTypes, NEW c \in Clients, RowsLead(c), NEW e \in EntityIds
    PROVE  /\ View(c, e) \in Record \cup {NoRow}
           /\ RowAfter(rows[c], Len(rows[c]), e, entities[e]) = View(c, e)
           /\ IsPast(entities[e], View(c, e))
<1>1. View(c, e) \in Record \cup {NoRow}
  BY DEF View, EntityTypes
<1>2. CASE e \in locked[c]
  BY <1>1, <1>2 DEF View, RowsLead
<1>3. CASE e \notin locked[c]
  <2>1. About(rows[c], Len(rows[c]), e) = {}
    BY <1>3 DEF About, RowsLead
  <2>2. IsPast(entities[e], entities[e])
    BY DEF IsPast, EntityTypes, Record
  <2> QED BY <1>1, <1>3, <2>1, <2>2 DEF View, RowAfter
<1> QED BY <1>2, <1>3

\* What a client knew before its transaction is a row, or none.
LEMMA BeforeType ==
    ASSUME EntityTypes, NEW c \in Clients, NEW e \in EntityIds
    PROVE  Before(c, e) \in Record \cup {NoRow}
<1> DEFINE mine == About(rows[c], Len(rows[c]), e)
<1>1. ASSUME mine # {} PROVE rows[c][Min(mine)] \in Change
  <2>1. rows[c] \in Seq(Change) /\ mine \in SUBSET (1..Len(rows[c])) /\ mine \in SUBSET Nat
    BY DEF EntityTypes, About
  <2>2. Min(mine) \in mine
    BY <1>1, <2>1, SmallestOf
  <2> QED BY <2>1, <2>2
<1> QED BY <1>1 DEF Before, Change, EntityTypes

\* A client whose transaction is not concerned: its locks keep the rows it has
\* changed as they are, the others may move on.
LEMMA OtherClient ==
    ASSUME EntityTypes, EntityTypes', NEW c \in Clients, TxnInv(c),
           locked'[c] = locked[c], draft'[c] = draft[c], rows'[c] = rows[c],
           step'[c] = step[c], known'[c] = known[c],
           \A e \in EntityIds : IsPast(entities[e], entities'[e]),
           \A e \in locked[c] : entities'[e] = entities[e]
    PROVE  TxnInv(c)'
<1> USE DEF TxnInv
<1>1. RowsLead(c)'
  <2>1. Replays(rows[c], entities')
    <3>1. \A n \in 1..Len(rows[c]) : entities'[rows[c][n].entity] = entities[rows[c][n].entity]
      BY DEF RowsLead
    <3> QED BY <3>1 DEF RowsLead, Replays
  <2> QED BY <2>1 DEF RowsLead
<1>2. ASSUME NEW e \in EntityIds
      PROVE  IsPast(known[c][e], View(c, e)') /\ IsPast(Before(c, e), entities'[e])
  <2>1. known[c][e] \in Record \cup {NoRow} /\ entities[e] \in Record \cup {NoRow}
        /\ entities'[e] \in Record \cup {NoRow}
    BY DEF EntityTypes
  <2>2. Before(c, e) \in Record \cup {NoRow}
    BY BeforeType
  <2>3. IsPast(Before(c, e), entities'[e])
    BY <2>1, <2>2, PastTransitive DEF KnowsPast
  <2>4. View(c, e)' = IF e \in locked[c] THEN View(c, e) ELSE entities'[e]
    BY DEF View
  <2>5. e \notin locked[c] => View(c, e) = entities[e]
    BY DEF View
  <2> QED BY <2>1, <2>3, <2>4, <2>5, PastTransitive DEF KnowsPast
<1>3. KnowsPast(c)'
  <2>1. \A e \in EntityIds : Before(c, e)' = Before(c, e)
    BY DEF Before
  <2> QED BY <1>2, <2>1 DEF KnowsPast
<1>4. UpdateHolds(c)'
  BY DEF UpdateHolds
<1> QED BY <1>1, <1>3, <1>4

\* A client without a transaction.
LEMMA ReleasedClient ==
    ASSUME EntityTypes', NEW c \in Clients, locked'[c] = {}, rows'[c] = <<>>, step'[c] = NoRow,
           \A e \in EntityIds : IsPast(known'[c][e], entities'[e])
    PROVE  TxnInv(c)'
<1>1. Len(rows'[c]) = 0 /\ \A e : About(rows'[c], 0, e) = {}
  BY DEF About
<1>2. RowsLead(c)'
  BY <1>1 DEF RowsLead, Replays
<1>3. KnowsPast(c)'
  BY <1>1 DEF KnowsPast, View, Before
<1>4. UpdateHolds(c)'
  BY DEF UpdateHolds
<1> QED BY <1>2, <1>3, <1>4 DEF TxnInv

\* What ForgetResults leaves is past.
LEMMA ForgottenIsPast ==
    ASSUME EntityTypes, NEW c \in Clients, TxnInv(c), ForgetResults(c),
           entities' \in [EntityIds -> Record \cup {NoRow}],
           \A e \in EntityIds : IsPast(entities[e], entities'[e])
    PROVE  /\ known' \in [Clients -> [EntityIds -> Record \cup {NoRow}]]
           /\ \A e \in EntityIds : IsPast(known'[c][e], entities'[e])
<1>1. ASSUME NEW e \in EntityIds
      PROVE  Before(c, e) \in Record \cup {NoRow} /\ IsPast(Before(c, e), entities'[e])
  <2>2. Before(c, e) \in Record \cup {NoRow}
    BY BeforeType
  <2>3. entities[e] \in Record \cup {NoRow} /\ entities'[e] \in Record \cup {NoRow}
    BY DEF EntityTypes
  <2> QED BY <2>2, <2>3, PastTransitive DEF TxnInv, KnowsPast
<1> QED BY <1>1 DEF ForgetResults, EntityTypes

\* A transaction that locks a row and changes nothing of it.
LEMMA LockingClient ==
    ASSUME EntityTypes, EntityTypes', NEW c \in Clients, TxnInv(c), NEW e \in EntityIds,
           LockExclusive(c, e), UNCHANGED <<entities, rows, known>>
    PROVE  /\ RowsLead(c)' /\ KnowsPast(c)'
           /\ View(c, e) # NoRow => e \in locked'[c] /\ draft'[c][e] = View(c, e)
<1>1. CASE View(c, e) = NoRow
  BY <1>1 DEF LockExclusive, TxnInv, RowsLead, KnowsPast, View, Before
<1>2. CASE View(c, e) # NoRow
  <2>1. /\ locked' = [locked EXCEPT ![c] = @ \cup {e}]
        /\ draft' = [draft EXCEPT ![c][e] = View(c, e)]
    BY <1>2 DEF LockExclusive, Writes
  <2>2. /\ locked'[c] = locked[c] \cup {e} /\ draft'[c][e] = View(c, e)
        /\ \A f \in EntityIds \ {e} : draft'[c][f] = draft[c][f]
    BY <2>1 DEF EntityTypes
  <2>3. \A f \in EntityIds : View(c, f)' = View(c, f)
    BY <2>2 DEF View
  <2>4. RowsLead(c)'
    <3>1. ASSUME NEW f \in locked'[c]
          PROVE  /\ RowAfter(rows[c], Len(rows[c]), f, entities[f]) = draft'[c][f]
                 /\ IsPast(entities[f], draft'[c][f])
      <4>1. f \in EntityIds /\ draft'[c][f] = View(c, f)
        BY <2>2 DEF EntityTypes, View
      <4> QED BY <4>1, ViewLeads DEF TxnInv
    <3>2. \A i \in 1..Len(rows[c]) : rows[c][i].entity \in locked'[c] /\ ReplacesRead(rows[c][i])
      BY <2>2 DEF TxnInv, RowsLead
    <3> QED BY <3>1, <3>2 DEF TxnInv, RowsLead
  <2>5. KnowsPast(c)'
    <3>1. \A f \in EntityIds : Before(c, f)' = Before(c, f)
      BY DEF Before
    <3> QED BY <2>3, <3>1 DEF TxnInv, KnowsPast
  <2> QED BY <2>2, <2>4, <2>5
<1> QED BY <1>1, <1>2

\* A transaction that changes row e and inserts the history row h.
LEMMA WritingClient ==
    ASSUME EntityTypes, EntityTypes', NEW c \in Clients, TxnInv(c), NEW e \in EntityIds,
           NEW row \in Record, NEW h \in Change,
           h.entity = e, Result(h) = row, Applies(h, View(c, e)), ReplacesRead(h),
           IsPast(View(c, e), row), h.base = NoRow \/ h.base = known[c][e],
           Writes(c, e, row), AddsHistory(c, h), known' = [known EXCEPT ![c][e] = row], UNCHANGED entities
    PROVE  TxnInv(c)'
<1> DEFINE old == rows[c]
           new == Append(rows[c], h)
<1>1. /\ locked'[c] = locked[c] \cup {e} /\ draft'[c][e] = row /\ known'[c][e] = row
      /\ \A f \in EntityIds \ {e} : draft'[c][f] = draft[c][f] /\ known'[c][f] = known[c][f]
      /\ rows'[c] = new /\ step'[c] = NoRow
  BY DEF EntityTypes, Writes, AddsHistory
<1>2. /\ old \in Seq(Change) /\ new \in Seq(Change) /\ Len(old) \in Nat /\ Len(new) = Len(old) + 1
      /\ new[Len(old) + 1] = h /\ \A i \in 1..Len(old) : new[i] = old[i]
  BY DEF EntityTypes
<1>3. \A f \in EntityIds : RowAfter(new, Len(new), f, entities[f]) =
                             IF f = e THEN row ELSE RowAfter(old, Len(old), f, entities[f])
  <2> TAKE f \in EntityIds
  <2>1. RowAfter(Append(old, h), Len(old) + 1, f, entities[f])
          = IF h.entity = f THEN Result(h) ELSE RowAfter(old, Len(old), f, entities[f])
    <3> HIDE DEF old
    <3> QED BY <1>2, RowAfterAppend
  <2> QED BY <1>2, <2>1
<1>4. \A f \in EntityIds : View(c, f)' = IF f = e THEN row ELSE View(c, f)
  BY <1>1 DEF View
<1>5. Replays(new, entities)
  <2>1. RowAfter(old, Len(old), e, entities[e]) = View(c, e)
    BY ViewLeads DEF TxnInv
  <2> HIDE DEF new
  <2> QED BY <1>2, <2>1, ReplaysAppend DEF TxnInv, RowsLead, new
<1> HIDE DEF new
<1>6. RowsLead(c)'
  <2>1. ASSUME NEW i \in 1..Len(new) PROVE new[i].entity \in locked'[c] /\ ReplacesRead(new[i])
    <3>1. i \in 1..Len(old) \/ i = Len(old) + 1
      BY <1>2
    <3> QED BY <1>1, <1>2, <3>1 DEF TxnInv, RowsLead
  <2>2. ASSUME NEW f \in locked'[c]
        PROVE  /\ RowAfter(new, Len(new), f, entities[f]) = draft'[c][f]
               /\ IsPast(entities[f], draft'[c][f])
    <3>1. CASE f = e
      <4>1. IsPast(entities[e], View(c, e)) /\ View(c, e) \in Record \cup {NoRow}
            /\ entities[e] \in Record \cup {NoRow}
        BY ViewLeads DEF TxnInv, EntityTypes
      <4> QED BY <1>1, <1>3, <3>1, <4>1, PastTransitive
    <3>2. CASE f # e
      <4>1. f \in locked[c] /\ f \in EntityIds
        BY <1>1, <3>2 DEF EntityTypes
      <4> QED BY <1>1, <1>3, <3>2, <4>1 DEF TxnInv, RowsLead
    <3> QED BY <3>1, <3>2
  <2> QED BY <1>1, <1>5, <2>1, <2>2 DEF RowsLead
<1>7. KnowsPast(c)'
  <2>1. ASSUME NEW f \in EntityIds PROVE IsPast(known'[c][f], View(c, f)')
    <3>1. IsPast(row, row)
      BY DEF IsPast, Record
    <3> QED BY <1>1, <1>4, <3>1 DEF TxnInv, KnowsPast
  <2>2. ASSUME NEW f \in EntityIds PROVE IsPast(Before(c, f)', entities[f])
    <3> DEFINE mine == About(old, Len(old), f)
               now == About(new, Len(new), f)
    <3>1. mine \in SUBSET (1..Len(old)) /\ mine \in SUBSET Nat /\ now \in SUBSET Nat
      BY <1>2 DEF About
    <3>2. now = IF f = e THEN mine \cup {Len(old) + 1} ELSE mine
      BY <1>2 DEF About
    <3>3. CASE mine # {}
      <4>1. Min(mine) \in mine /\ \A i \in mine : Min(mine) <= i
        BY <3>1, <3>3, SmallestOf
      <4>2. Min(mine) \in now /\ \A i \in now : Min(mine) <= i
        BY <1>2, <3>1, <3>2, <4>1
      <4>3. Min(now) = Min(mine)
        BY <3>1, <4>2, SmallestIs
      <4>4. now # {} /\ new[Min(mine)] = old[Min(mine)]
        BY <1>2, <3>1, <4>1, <4>2
      <4>5. Before(c, f)' = Before(c, f)
        BY <1>1, <3>3, <4>3, <4>4 DEF Before
      <4> QED BY <4>5 DEF TxnInv, KnowsPast
    <3>4. CASE mine = {} /\ f # e
      <4>1. now = {} /\ Before(c, f)' = known[c][f] /\ Before(c, f) = known[c][f]
        BY <1>1, <3>2, <3>4 DEF Before
      <4> QED BY <4>1 DEF TxnInv, KnowsPast
    <3>5. CASE mine = {} /\ f = e
      <4>1. now = {Len(old) + 1}
        BY <3>2, <3>5
      <4>2. Min(now) = Len(old) + 1
        <5>1. Len(old) + 1 \in now /\ \A i \in now : Len(old) + 1 <= i
          BY <1>2, <4>1
        <5> HIDE DEF now, old
        <5> QED BY <3>1, <5>1, SmallestIs
      <4>3. Before(c, f)' = h.base /\ Before(c, f) = known[c][f]
        BY <1>1, <1>2, <3>5, <4>1, <4>2 DEF Before
      <4> QED BY <3>5, <4>3 DEF TxnInv, KnowsPast, IsPast
    <3> QED BY <3>3, <3>4, <3>5
  <2> QED BY <2>1, <2>2 DEF KnowsPast
<1>8. UpdateHolds(c)'
  BY <1>1 DEF UpdateHolds
<1> QED BY <1>6, <1>7, <1>8 DEF TxnInv

-----------------------------------------------------------------------------
\* The steps of one client, and what they leave of the others.
LEMMA OthersKept ==
    ASSUME EntityInv, EntityTypes', NEW c \in Clients, UNCHANGED entities,
           \A d \in Clients \ {c} :
              /\ locked'[d] = locked[d] /\ draft'[d] = draft[d] /\ rows'[d] = rows[d]
              /\ step'[d] = step[d] /\ known'[d] = known[d]
    PROVE  \A d \in Clients \ {c} : TxnInv(d)'
<1>1. \A e \in EntityIds : IsPast(entities[e], entities'[e])
  BY DEF EntityInv, EntityTypes, IsPast, Record
<1> QED BY <1>1, OtherClient DEF EntityInv

\* A row that is locked was not locked by another.
LEMMA LockedApart ==
    ASSUME EntityInv, NEW c \in Clients, NEW e \in EntityIds, Lockable(c, e),
           locked' = [locked EXCEPT ![c] = @ \cup {e}]
    PROVE  LocksApart'
BY DEF EntityInv, EntityTypes, LocksApart, Lockable

LEMMA LockTypes ==
    ASSUME EntityInv, NEW c \in Clients, NEW e \in EntityIds, LockExclusive(c, e)
    PROVE  /\ locked' \in [Clients -> SUBSET EntityIds]
           /\ draft' \in [Clients -> [EntityIds -> Record \cup {NoRow}]]
           /\ LocksApart'
           /\ \A d \in Clients \ {c} : locked'[d] = locked[d] /\ draft'[d] = draft[d]
<1>1. View(c, e) \in Record \cup {NoRow}
  BY DEF View, EntityInv, EntityTypes
<1>2. CASE UNCHANGED <<locked, draft>>
  BY <1>2 DEF EntityInv, EntityTypes, LocksApart
<1>3. CASE Writes(c, e, View(c, e))
  <2>1. LocksApart'
    BY <1>3, LockedApart DEF LockExclusive, Writes
  <2> QED BY <1>1, <1>3, <2>1 DEF Writes, EntityInv, EntityTypes
<1> QED BY <1>2, <1>3 DEF LockExclusive

LEMMA HistoryKept ==
    ASSUME HistoryReplays, UNCHANGED <<entities, histories>>
    PROVE  HistoryReplays'
BY DEF HistoryReplays

\* A statement that writes one row and its history row.
LEMMA WriteStep ==
    ASSUME EntityInv, NEW c \in Clients, NEW e \in EntityIds, Lockable(c, e),
           NEW row \in Record, NEW h \in Change,
           h.entity = e, Result(h) = row, Applies(h, View(c, e)), ReplacesRead(h),
           IsPast(View(c, e), row), h.base = NoRow \/ h.base = known[c][e],
           Writes(c, e, row), AddsHistory(c, h), known' = [known EXCEPT ![c][e] = row],
           UNCHANGED <<entities, histories>>
    PROVE  EntityInv'
<1>1. EntityTypes'
  <2>1. rows[c] \in Seq(Change) /\ Append(rows[c], h) \in Seq(Change)
    BY DEF EntityInv, EntityTypes
  <2> QED BY <2>1 DEF EntityInv, EntityTypes, Writes, AddsHistory
<1>2. LocksApart'
  BY LockedApart DEF Writes
<1>3. TxnInv(c)'
  BY <1>1, WritingClient DEF EntityInv
<1>4. \A d \in Clients \ {c} : TxnInv(d)'
  <2>1. \A d \in Clients \ {c} :
              /\ locked'[d] = locked[d] /\ draft'[d] = draft[d] /\ rows'[d] = rows[d]
              /\ step'[d] = step[d] /\ known'[d] = known[d]
    BY DEF EntityInv, EntityTypes, Writes, AddsHistory
  <2> QED BY <1>1, <2>1, OthersKept
<1>5. HistoryReplays'
  BY HistoryKept DEF EntityInv
<1> QED BY <1>1, <1>2, <1>3, <1>4, <1>5 DEF EntityInv

LEMMA CreateInv ==
    ASSUME EntityInv, NEW c \in Clients, NEW e \in EntityIds, NEW v \in FirstVersions, NEW x \in Contents,
           CreateEntity(c, e, v, x)
    PROVE  EntityInv'
<1> DEFINE row == EntityRow(v, x)
           h == [entity |-> e, change |-> "CREATE", version |-> v, diff |-> x, base |-> NoRow]
<1>1. v \in Nat /\ row \in Record /\ h \in Change
  BY VersionAssumption DEF EntityRow, Record, Change
<1>2. h.entity = e /\ Result(h) = row /\ Applies(h, View(c, e)) /\ ReplacesRead(h) /\ h.base = NoRow
      /\ IsPast(View(c, e), row)
  BY DEF CreateEntity, Result, Applies, ReplacesRead, IsPast
<1>3. /\ Lockable(c, e) /\ Writes(c, e, row) /\ AddsHistory(c, h) /\ known' = [known EXCEPT ![c][e] = row]
      /\ UNCHANGED <<entities, histories>>
  BY DEF CreateEntity
<1> HIDE DEF row, h
<1> QED BY <1>1, <1>2, <1>3, WriteStep

LEMMA WriteUpdateInv ==
    ASSUME EntityInv, NEW c \in Clients, WriteUpdate(c)
    PROVE  EntityInv'
<1> DEFINE e == step[c].entity
           old == step[c].existing
           x == step[c].content
           row == EntityRow(old.version + 1, x)
           h == [entity |-> e, change |-> "UPDATE", version |-> row.version,
                 diff |-> [from |-> old.content, to |-> row.content], base |-> known[c][e]]
<1>1. e \in locked[c] /\ x \in Contents /\ old \in Record /\ old = draft[c][e] /\ old = known[c][e]
  BY DEF WriteUpdate, Ready, EntityInv, TxnInv, UpdateHolds
<1>2. e \in EntityIds /\ View(c, e) = old
  BY <1>1 DEF EntityInv, EntityTypes, View
<1>3. /\ Lockable(c, e) /\ Writes(c, e, row) /\ AddsHistory(c, h) /\ known' = [known EXCEPT ![c][e] = row]
      /\ UNCHANGED <<entities, histories>>
  BY DEF WriteUpdate
<1>4. old = EntityRow(old.version, old.content) /\ old.version \in Nat /\ old.content \in Contents
  BY <1>1 DEF EntityRow, Record
<1> HIDE DEF old, e, x
<1>5. row \in Record /\ row.version = old.version + 1 /\ row.content = x /\ row.version - 1 = old.version
  BY <1>1, <1>4 DEF EntityRow, Record
<1>6. h \in Change
  BY <1>1, <1>2, <1>4, <1>5 DEF Change
<1>7. h.entity = e /\ h.base = known[c][e] /\ h.version = row.version /\ h.diff.from = old.content
      /\ h.diff.to = row.content /\ h.change = "UPDATE"
  OBVIOUS
<1>8. Result(h) = row
  BY <1>5, <1>7 DEF Result, EntityRow
<1>9. Applies(h, View(c, e)) /\ ReplacesRead(h)
  BY <1>1, <1>2, <1>4, <1>5, <1>7 DEF Applies, ReplacesRead
<1>10. IsPast(View(c, e), row)
  BY <1>2, <1>4, <1>5, NoRowAssumption DEF IsPast, Record
<1> HIDE DEF row, h
<1> QED BY <1>2, <1>3, <1>5, <1>6, <1>7, <1>8, <1>9, <1>10, WriteStep

LEMMA GetInv ==
    ASSUME EntityInv, NEW c \in Clients, NEW e \in EntityIds, GetEntity(c, e)
    PROVE  EntityInv'
<1>0. UNCHANGED <<entities, histories, locked, draft, rows, step>>
      /\ known' = [known EXCEPT ![c][e] = View(c, e)]
  BY DEF GetEntity, txnRows
<1>1. View(c, e) \in Record \cup {NoRow}
  BY DEF View, EntityInv, EntityTypes
<1>2. EntityTypes'
  BY <1>0, <1>1 DEF EntityInv, EntityTypes
<1>3. \A f \in EntityIds : known'[c][f] = IF f = e THEN View(c, e) ELSE known[c][f]
  BY <1>0 DEF EntityInv, EntityTypes
<1>4. RowsLead(c)' /\ UpdateHolds(c)'
  BY <1>0 DEF EntityInv, TxnInv, RowsLead, UpdateHolds, GetEntity, Ready
<1>5. ASSUME NEW f \in EntityIds
      PROVE  IsPast(known'[c][f], View(c, f)') /\ IsPast(Before(c, f)', entities[f])
  <2>1. View(c, f)' = View(c, f)
    BY <1>0 DEF View
  <2>2. IsPast(known'[c][f], View(c, f))
    <3>1. IsPast(View(c, e), View(c, e))
      BY <1>1 DEF IsPast, Record
    <3> QED BY <1>3, <3>1 DEF EntityInv, TxnInv, KnowsPast
  <2>3. CASE About(rows[c], Len(rows[c]), f) = {}
    <3>1. Before(c, f)' = known'[c][f]
      BY <1>0, <2>3 DEF Before
    <3>2. View(c, f) = entities[f]
      <4>1. RowAfter(rows[c], Len(rows[c]), f, entities[f]) = View(c, f)
        BY ViewLeads DEF EntityInv, TxnInv
      <4> QED BY <2>3, <4>1 DEF RowAfter
    <3> QED BY <2>1, <2>2, <3>1, <3>2
  <2>4. CASE About(rows[c], Len(rows[c]), f) # {}
    <3>1. Before(c, f)' = Before(c, f)
      BY <1>0, <2>4 DEF Before
    <3> QED BY <2>1, <2>2, <3>1 DEF EntityInv, TxnInv, KnowsPast
  <2> QED BY <2>3, <2>4
<1>6. KnowsPast(c)'
  BY <1>0, <1>5 DEF KnowsPast
<1>7. \A d \in Clients \ {c} : TxnInv(d)'
  <2>1. \A d \in Clients \ {c} : known'[d] = known[d]
    BY <1>0 DEF EntityInv, EntityTypes
  <2> QED BY <1>0, <1>2, <2>1, OthersKept
<1>8. LocksApart' /\ HistoryReplays'
  BY <1>0, HistoryKept DEF EntityInv, LocksApart
<1> QED BY <1>2, <1>4, <1>6, <1>7, <1>8 DEF EntityInv, TxnInv

\* SELECT ... FOR UPDATE, by an update or a deletion that goes on and by an
\* update that is refused.
LEMMA LockInv ==
    ASSUME EntityInv, NEW c \in Clients, NEW e \in EntityIds, LockExclusive(c, e),
           UNCHANGED <<entities, histories, rows, known>>,
           DOMAIN step' = Clients, \A d \in Clients \ {c} : step'[d] = step[d],
           UpdateHolds(c)'
    PROVE  EntityInv'
<1>1. EntityTypes'
  BY LockTypes DEF EntityInv, EntityTypes
<1>2. RowsLead(c)' /\ KnowsPast(c)'
  BY <1>1, LockingClient DEF EntityInv
<1>3. \A d \in Clients \ {c} : TxnInv(d)'
  BY <1>1, LockTypes, OthersKept
<1>4. LocksApart' /\ HistoryReplays'
  BY LockTypes, HistoryKept DEF EntityInv
<1> QED BY <1>1, <1>2, <1>3, <1>4 DEF EntityInv, TxnInv

LEMMA UpdateInv ==
    ASSUME EntityInv, NEW c \in Clients, NEW e \in EntityIds, NEW x \in Contents, UpdateEntity(c, e, x)
    PROVE  EntityInv'
<1> DEFINE s == [call |-> "update", entity |-> e, existing |-> View(c, e), content |-> x]
<1>1. /\ LockExclusive(c, e) /\ step' = [step EXCEPT ![c] = s]
      /\ UNCHANGED <<entities, histories, rows, known>>
  BY DEF UpdateEntity, Enter
<1>2. DOMAIN step' = Clients /\ step'[c] = s /\ \A d \in Clients \ {c} : step'[d] = step[d]
  BY <1>1 DEF EntityInv, EntityTypes
<1>3. View(c, e) \in Record /\ View(c, e) # NoRow
  BY DEF UpdateEntity, Accepts, View, EntityInv, EntityTypes
<1>4. known[c][e] = View(c, e)
  BY DEF EntityInv, TxnInv, KnowsPast, IsPast, UpdateEntity, Accepts
<1>5. EntityTypes'
  BY <1>1, <1>2, LockTypes DEF EntityInv, EntityTypes
<1>6. e \in locked'[c] /\ draft'[c][e] = View(c, e)
  BY <1>1, <1>3, <1>5, LockingClient DEF EntityInv
<1>7. UpdateHolds(c)'
  BY <1>1, <1>2, <1>3, <1>4, <1>6 DEF UpdateHolds
<1> QED BY <1>1, <1>2, <1>7, LockInv

LEMMA DeleteInv ==
    ASSUME EntityInv, NEW c \in Clients, NEW e \in EntityIds, DeleteEntity(c, e)
    PROVE  EntityInv'
<1> DEFINE s == [call |-> "delete", entity |-> e, existing |-> View(c, e), content |-> NoRow]
<1>1. /\ LockExclusive(c, e) /\ step' = [step EXCEPT ![c] = s]
      /\ UNCHANGED <<entities, histories, rows, known>>
  BY DEF DeleteEntity, Enter
<1>2. DOMAIN step' = Clients /\ step'[c] = s /\ \A d \in Clients \ {c} : step'[d] = step[d]
  BY <1>1 DEF EntityInv, EntityTypes
<1>3. UpdateHolds(c)'
  BY <1>2 DEF UpdateHolds
<1> QED BY <1>1, <1>2, <1>3, LockInv

LEMMA RefuseInv ==
    ASSUME EntityInv, NEW c \in Clients, NEW e \in EntityIds, RefuseUpdate(c, e)
    PROVE  EntityInv'
<1>1. LockExclusive(c, e) /\ UNCHANGED <<entities, histories, rows, step, known>> /\ step[c] = NoRow
  BY DEF RefuseUpdate, Ready
<1>2. UpdateHolds(c)'
  BY <1>1 DEF UpdateHolds
<1>3. DOMAIN step' = Clients /\ \A d \in Clients \ {c} : step'[d] = step[d]
  BY <1>1 DEF EntityInv, EntityTypes
<1> QED BY <1>1, <1>2, <1>3, LockInv

\* The end of a transaction, with its rows committed or not.
LEMMA ReleaseInv ==
    ASSUME EntityInv, NEW c \in Clients, Release(c),
           entities' \in [EntityIds -> Record \cup {NoRow}], histories' \in Seq(Change),
           known' \in [Clients -> [EntityIds -> Record \cup {NoRow}]],
           \A e \in EntityIds : IsPast(entities[e], entities'[e]) /\ IsPast(known'[c][e], entities'[e]),
           \A d \in Clients \ {c} : /\ known'[d] = known[d]
                                    /\ \A e \in locked[d] : entities'[e] = entities[e]
    PROVE  EntityTypes' /\ LocksApart' /\ \A d \in Clients : TxnInv(d)'
<1>1. /\ locked'[c] = {} /\ rows'[c] = <<>> /\ step'[c] = NoRow
      /\ \A d \in Clients \ {c} : /\ locked'[d] = locked[d] /\ draft'[d] = draft[d]
                                  /\ rows'[d] = rows[d] /\ step'[d] = step[d]
  BY DEF Release, EntityInv, EntityTypes
<1>2. EntityTypes'
  <2>1. <<>> \in Seq(Change)
    OBVIOUS
  <2> QED BY <2>1 DEF Release, EntityInv, EntityTypes
<1>3. LocksApart'
  BY <1>1 DEF EntityInv, LocksApart
<1>4. TxnInv(c)'
  BY <1>1, <1>2, ReleasedClient
<1>5. ASSUME NEW d \in Clients \ {c} PROVE TxnInv(d)'
  BY <1>1, <1>2, OtherClient DEF EntityInv
<1> QED BY <1>2, <1>3, <1>4, <1>5

LEMMA RollbackInv ==
    ASSUME EntityInv, NEW c \in Clients, Release(c), ForgetResults(c), UNCHANGED <<entities, histories>>
    PROVE  EntityInv'
<1>1. entities' \in [EntityIds -> Record \cup {NoRow}] /\ histories' \in Seq(Change)
      /\ \A e \in EntityIds : IsPast(entities[e], entities'[e])
  BY DEF EntityInv, EntityTypes, IsPast, Record
<1>2. /\ known' \in [Clients -> [EntityIds -> Record \cup {NoRow}]]
      /\ \A e \in EntityIds : IsPast(known'[c][e], entities'[e])
  BY <1>1, ForgottenIsPast DEF EntityInv
<1>3. \A d \in Clients \ {c} : known'[d] = known[d]
  BY DEF ForgetResults, EntityInv, EntityTypes
<1>4. EntityTypes' /\ LocksApart' /\ \A d \in Clients : TxnInv(d)'
  BY <1>1, <1>2, <1>3, ReleaseInv
<1> QED BY <1>4, HistoryKept DEF EntityInv

\* A commit: the history goes on with the rows of the transaction.
LEMMA CommitInv ==
    ASSUME EntityInv, NEW c \in Clients, Committed(c), ForgetResults(c) \/ UNCHANGED known
    PROVE  EntityInv'
<1>1. entities' = [e \in EntityIds |-> View(c, e)] /\ histories' = histories \o rows[c] /\ Release(c)
  BY DEF Committed
<1>2. ASSUME NEW e \in EntityIds
      PROVE  /\ entities'[e] = View(c, e) /\ entities'[e] \in Record \cup {NoRow}
             /\ RowAfter(rows[c], Len(rows[c]), e, entities[e]) = entities'[e]
             /\ IsPast(entities[e], entities'[e])
  BY <1>1, ViewLeads DEF EntityInv, TxnInv
<1>3. entities' \in [EntityIds -> Record \cup {NoRow}]
  BY <1>1, <1>2
<1>4. histories \in Seq(Change) /\ rows[c] \in Seq(Change) /\ histories' \in Seq(Change)
  BY <1>1 DEF EntityInv, EntityTypes
<1>5. /\ known' \in [Clients -> [EntityIds -> Record \cup {NoRow}]]
      /\ \A e \in EntityIds : IsPast(known'[c][e], entities'[e])
  <2>1. CASE UNCHANGED known
    BY <1>2, <2>1 DEF EntityInv, EntityTypes, TxnInv, KnowsPast
  <2>2. CASE ForgetResults(c)
    BY <1>2, <1>3, <2>2, ForgottenIsPast DEF EntityInv
  <2> QED BY <2>1, <2>2
<1>6. ASSUME NEW d \in Clients \ {c}
      PROVE  known'[d] = known[d] /\ \A e \in locked[d] : entities'[e] = entities[e]
  <2>1. known'[d] = known[d]
    BY DEF ForgetResults, EntityInv, EntityTypes
  <2>2. ASSUME NEW e \in locked[d] PROVE entities'[e] = entities[e]
    <3>1. e \in EntityIds /\ e \notin locked[c]
      BY DEF EntityInv, EntityTypes, LocksApart
    <3> QED BY <1>1, <3>1 DEF View
  <2> QED BY <2>1, <2>2
<1>7. EntityTypes' /\ LocksApart' /\ \A d \in Clients : TxnInv(d)'
  BY <1>1, <1>2, <1>3, <1>4, <1>5, <1>6, ReleaseInv
<1>8. HistoryReplays'
  <2> DEFINE none == [e \in EntityIds |-> NoRow]
             new == histories \o rows[c]
  <2>1. \A e \in EntityIds : entities[e] = RowAfter(histories, Len(histories), e, none[e])
    BY DEF EntityInv, HistoryReplays
  <2>2. Replays(new, none)
    <3>1. Replays(histories, none) /\ Replays(rows[c], entities)
      BY DEF EntityInv, HistoryReplays, TxnInv, RowsLead
    <3> HIDE DEF none
    <3> QED BY <1>4, <2>1, <3>1, ReplaysConcat
  <2>3. ASSUME NEW e \in EntityIds PROVE RowAfter(new, Len(new), e, NoRow) = entities'[e]
    <3>1. Len(new) = Len(histories) + Len(rows[c]) /\ Len(rows[c]) \in 0..Len(rows[c])
      BY <1>4
    <3>2. RowAfter(new, Len(histories) + Len(rows[c]), e, NoRow)
            = RowAfter(rows[c], Len(rows[c]), e, RowAfter(histories, Len(histories), e, NoRow))
      <4> DEFINE t == rows[c]
      <4>1. t \in Seq(Change) /\ Len(t) \in 0..Len(t)
        BY <1>4, <3>1
      <4> HIDE DEF t
      <4>2. RowAfter(histories \o t, Len(histories) + Len(t), e, NoRow)
              = RowAfter(t, Len(t), e, RowAfter(histories, Len(histories), e, NoRow))
        BY <1>4, <4>1, RowAfterConcat
      <4> QED BY <4>2 DEF t
    <3> QED BY <1>2, <2>1, <3>1, <3>2
  <2>4. ASSUME NEW i \in 1..Len(new) PROVE ReplacesRead(new[i])
    <3>1. CASE i <= Len(histories)
      <4>1. i \in 1..Len(histories) /\ new[i] = histories[i]
        BY <1>4, <3>1
      <4> QED BY <4>1 DEF EntityInv, HistoryReplays
    <3>2. CASE i > Len(histories)
      <4>1. i - Len(histories) \in 1..Len(rows[c]) /\ new[i] = rows[c][i - Len(histories)]
        BY <1>4, <3>2
      <4> QED BY <4>1 DEF EntityInv, TxnInv, RowsLead
    <3> QED BY <1>4, <3>1, <3>2
  <2> QED BY <1>1, <2>2, <2>3, <2>4 DEF HistoryReplays
<1> QED BY <1>7, <1>8 DEF EntityInv

\* The deletion is refused: the history row it has inserted refers to the row.
LEMMA DeleteRefused ==
    ASSUME NEW c \in Clients, DeleteRow(c)
    PROVE  Release(c) /\ ForgetResults(c) /\ UNCHANGED <<entities, histories>>
<1>1. DeleteHistory(c, step[c].entity).entity = step[c].entity
  BY DEF DeleteHistory
<1>2. Referenced(c, step[c].entity)
  BY <1>1 DEF Referenced
<1> QED BY <1>2 DEF DeleteRow

LEMMA EntityInitInv == EntityInit => EntityInv
<1> SUFFICES ASSUME EntityInit PROVE EntityInv
  OBVIOUS
<1>1. <<>> \in Seq(Change) /\ Len(<<>>) = 0 /\ \A e : About(<<>>, 0, e) = {}
  BY DEF About
<1>2. EntityTypes /\ LocksApart
  BY <1>1 DEF EntityInit, EntityTypes, LocksApart
<1>3. ASSUME NEW c \in Clients PROVE TxnInv(c)
  <2>1. locked[c] = {} /\ rows[c] = <<>> /\ step[c] = NoRow /\ \A e \in EntityIds : known[c][e] = NoRow
    BY <1>3 DEF EntityInit
  <2> QED BY <1>1, <2>1 DEF TxnInv, RowsLead, Replays, KnowsPast, UpdateHolds, Before, IsPast
<1>4. HistoryReplays
  BY <1>1 DEF EntityInit, HistoryReplays, Replays, RowAfter
<1> QED BY <1>2, <1>3, <1>4 DEF EntityInv

LEMMA EntityNextInv == EntityInv /\ [EntityNext]_entityVars => EntityInv'
<1> SUFFICES ASSUME EntityInv, [EntityNext]_entityVars PROVE EntityInv'
  OBVIOUS
<1>1. CASE UNCHANGED entityVars
  <2>1. UNCHANGED <<entities, histories, locked, draft, rows, step, known>>
    BY <1>1 DEF entityVars, txnRows
  <2>2. EntityTypes' /\ LocksApart' /\ HistoryReplays'
    BY <2>1, HistoryKept DEF EntityInv, EntityTypes, LocksApart
  <2>3. \A e \in EntityIds : IsPast(entities[e], entities'[e])
    BY <2>1 DEF EntityInv, EntityTypes, IsPast, Record
  <2> QED BY <2>1, <2>2, <2>3, OtherClient DEF EntityInv
<1>2. ASSUME NEW c \in Clients, NEW e \in EntityIds,
             \/ \E v \in FirstVersions, x \in Contents : CreateEntity(c, e, v, x)
             \/ \E x \in Contents : UpdateEntity(c, e, x)
             \/ GetEntity(c, e) \/ RefuseUpdate(c, e) \/ DeleteEntity(c, e)
      PROVE  EntityInv'
  BY <1>2, CreateInv, UpdateInv, GetInv, RefuseInv, DeleteInv
<1>3. ASSUME NEW c \in Clients, WriteUpdate(c) \/ DeleteRow(c) PROVE EntityInv'
  BY <1>3, WriteUpdateInv, DeleteRefused, RollbackInv
<1>4. ASSUME NEW c \in Clients, CommitEntities(c) \/ CommitUnheard(c) PROVE EntityInv'
  BY <1>4, CommitInv DEF CommitEntities, CommitUnheard
<1>5. ASSUME NEW c \in Clients, RollbackEntities(c) PROVE EntityInv'
  BY <1>5, RollbackInv DEF RollbackEntities
<1> QED BY <1>1, <1>2, <1>3, <1>4, <1>5 DEF EntityNext

(***************************************************************************)
(* HistoryReplays, for any number of clients, entities and changes: a      *)
(* commit only appends what continues the life of the entities it has      *)
(* locked, and a version that a client sends stands for the very contents  *)
(* it has read, although its transaction may be repeated after a commit    *)
(* nobody heard of.                                                        *)
(***************************************************************************)
THEOREM NoUpdateLost == EntitySpec => []HistoryReplays
<1>1. EntityInv => HistoryReplays
  BY DEF EntityInv
<1> QED BY <1>1, EntityInitInv, EntityNextInv, PTL DEF EntitySpec
=============================================================================
