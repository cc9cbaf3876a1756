----------------------------- MODULE AuthProofs -----------------------------
(***************************************************************************)
(* Keys and tenant tokens, for every number of instances, keys, tokens and *)
(* sessions: there is one active key, a revoked key stays revoked, no key  *)
(* is retired early, transactions never wait for each other in a circle,   *)
(* rotation never invalidates a token in its window, and a token is spent  *)
(* once, by its own tenant; and a node never accepts a PASETO kid it was   *)
(* told is revoked.                                                        *)
(***************************************************************************)
EXTENDS TenantAuth, KidRevocation, FiniteSetTheorems, WellFoundedInduction, TLAPS

-----------------------------------------------------------------------------
(***************************************************************************)
(* The inductive invariant of the key manager.                             *)
(***************************************************************************)
Places == {"idle", "active", "next_due", "next_fresh", "commit", "revoke", "was_active", "replacement", "promote"}

KeyTypes ==
    /\ now \in Nat
    /\ rows \in [Kids -> Row \cup {None}]
    /\ pc \in [Processes -> Places]
    /\ found \in [Processes -> Kids \cup {None}]
    /\ began \in [Processes -> Nat]
    /\ locks \in [Processes -> SUBSET Kids]
    /\ draft \in [Processes -> [Kids -> Row \cup {None}]]

\* What a transaction that began at t may make of a row: a revoked key stays
\* revoked, and an active key is retired only when it is due.
Allowed(old, new, t) ==
    /\ new # None
    /\ HasState(old, "Revoked") => new.state = "Revoked"
    /\ HasState(old, "Retired") => new.state = "Revoked"
    /\ HasState(old, "Active") => new.state \in {"Active", "Retired", "Revoked"}
    /\ new.state = "Retired" =>
          HasState(old, "Active") /\ new.retired_at = t /\ t >= old.activated_at + RotationPeriod

\* A transaction touches an index when it holds a row that is or will be in it.
Touches(p, s) == \E k \in locks[p] : HasState(rows[k], s) \/ HasState(draft[p][k], s)

\* A row a transaction puts into an index is the only one it sees there.
SoleDraft(p) ==
    \A s \in Indexed, j \in locks[p] : HasState(draft[p][j], s) =>
        /\ \A k \in Kids : HasState(rows[k], s) => k \in locks[p]
        /\ \A k \in locks[p] : HasState(draft[p][k], s) => k = j

\* What a transaction holds, by the statement it is at.
HeldActive(p, s) ==
    \E a \in Kids : locks[p] = {a} /\ HasState(rows[a], "Active") /\ HasState(draft[p][a], s)

Stage(p) ==
    /\ pc[p] \in {"idle", "active", "revoke"} => locks[p] = {}
    /\ pc[p] = "revoke" => found[p] # None
    /\ pc[p] = "next_due" => HeldActive(p, "Retired")
    /\ pc[p] = "next_fresh" => HeldActive(p, "Active")
    /\ pc[p] \in {"was_active", "replacement", "promote"} => HeldActive(p, "Revoked")
    /\ pc[p] = "commit" =>
          \/ \E j \in locks[p] : HasState(draft[p][j], "Active")
          \/ p \in Revokers /\ rows # NoRows /\ \A k \in locks[p] : ~HasState(rows[k], "Active")

TxnInv(p) ==
    /\ Open(p) => began[p] <= now /\ now <= began[p] + TxnTime
    /\ \A k \in locks[p] : Allowed(rows[k], draft[p][k], began[p])
    /\ SoleDraft(p)
    /\ Stage(p)

Apart ==
    \A p, q \in Processes : p # q =>
        /\ locks[p] \cap locks[q] = {}
        /\ \A s \in Indexed : ~(Touches(p, s) /\ Touches(q, s))

TableInv ==
    /\ \A s \in Indexed : \A j, k \in Kids : HasState(rows[j], s) /\ HasState(rows[k], s) => j = k
    /\ rows # NoRows => \E k \in Kids : HasState(rows[k], "Active")

\* Every open transaction that has not created its keys finds two fresh kids.
Pending == {p \in Processes : pc[p] \notin {"idle", "commit"}}
EnoughFree == Cardinality(Free) >= 2 * Cardinality(Pending)

KeyInv ==
    /\ KeyTypes
    /\ \A p \in Processes : TxnInv(p)
    /\ Apart
    /\ TableInv
    /\ EnoughFree

-----------------------------------------------------------------------------
(***************************************************************************)
(* Facts about the table, the index entries and the fresh kids.            *)
(***************************************************************************)
LEMMA KidsFinite ==
    /\ Kids \subseteq Nat /\ None \notin Kids
    /\ \A S \in SUBSET Kids : IsFiniteSet(S) /\ Cardinality(S) \in Nat
<1>1. IsFiniteSet(Kids)
  BY FS_Interval, KeyAssumption DEF Kids
<1>2. Kids \subseteq Nat /\ None \notin Kids
  BY NoneAssumption, KeyAssumption DEF Kids
<1>3. ASSUME NEW S \in SUBSET Kids PROVE IsFiniteSet(S) /\ Cardinality(S) \in Nat
  BY <1>1, FS_Subset, FS_CardinalityType
<1> QED
  BY <1>2, <1>3

LEMMA ProcessesFinite ==
    \A S \in SUBSET Processes : IsFiniteSet(S) /\ Cardinality(S) \in Nat
<1>1. IsFiniteSet(Processes)
  BY FS_Union, ProcessAssumption DEF Processes
<1> QED
  BY <1>1, FS_Subset, FS_CardinalityType

\* A free row in an index that q does not hold: q does not touch the index.
LEMMA HeldAlone ==
    ASSUME KeyInv, NEW k \in Kids, NEW q \in Processes, k \notin locks[q],
           NEW s \in Indexed, HasState(rows[k], s)
    PROVE  ~Touches(q, s)
<1>1. locks[q] \subseteq Kids
  BY DEF KeyInv, KeyTypes
<1> QED
  BY <1>1 DEF KeyInv, TxnInv, SoleDraft, TableInv, Touches

\* A non-empty set of kids has a smallest one.
LEMMA SmallestKid ==
    ASSUME NEW S \in SUBSET Nat, S # {}
    PROVE  \E k \in S : \A j \in S : k <= j
<1>1. PICK k \in S : \A j \in S : ~(<<j, k>> \in OpToRel(<, Nat))
  BY WFMin, NatLessThanWellFounded
<1>2. \A j \in S : ~(j < k)
  BY <1>1 DEF OpToRel
<1> QED
  BY <1>2

\* The fresh kids exist and are new to everybody.
LEMMA FreshKids ==
    ASSUME KeyInv, NEW p \in Pending
    PROVE  /\ Fresh \in Free /\ Fresh2 \in Free /\ Fresh # Fresh2
<1>0. Free \in SUBSET Kids /\ Free \in SUBSET Nat /\ IsFiniteSet(Free) /\ Cardinality(Free) \in Nat
  BY KidsFinite DEF Free
<1>1. Cardinality(Free) >= 2
  <2>1. Pending # {} /\ IsFiniteSet(Pending) /\ Cardinality(Pending) \in Nat
    BY ProcessesFinite DEF Pending
  <2>2. Cardinality(Pending) # 0
    BY <2>1, FS_EmptySet
  <2> QED
    BY <1>0, <2>1, <2>2 DEF KeyInv, EnoughFree
<1>2. Free # {}
  BY <1>1, FS_EmptySet
<1>3. Fresh \in Free
  BY <1>0, <1>2, SmallestKid DEF Fresh
<1>4. Free \ {Fresh} # {} /\ Free \ {Fresh} \in SUBSET Nat
  <2>1. IsFiniteSet(Free \ {Fresh}) /\ Cardinality(Free \ {Fresh}) = Cardinality(Free) - 1
    BY <1>0, <1>3, FS_RemoveElement
  <2>2. Cardinality(Free \ {Fresh}) # 0
    BY <1>0, <1>1, <2>1
  <2> QED
    BY <1>0, <2>2, FS_EmptySet
<1>5. Fresh2 \in Free \ {Fresh}
  BY <1>4, SmallestKid DEF Fresh2
<1> QED
  BY <1>3, <1>5

\* Rows that are written were free of other transactions, and rows do not
\* change: what the writes f must be for the transaction to keep its invariant.
GoodWrites(p, f, t) ==
    /\ DOMAIN f \subseteq Kids /\ f = [k \in DOMAIN f |-> f[k]]
    /\ \A k \in DOMAIN f : f[k] \in Row /\ Allowed(rows[k], f[k], t)
    /\ \A k \in DOMAIN f, q \in Others(p) : k \notin locks[q]
    /\ DOMAIN f \cap locks[p] = {}
    /\ locks[p] # {} => t = began[p]
    /\ \A s \in Indexed, j \in DOMAIN f : HasState(f[j], s) =>
          /\ \A q \in Others(p) : ~Touches(q, s)
          /\ \A k \in Kids : HasState(rows[k], s) => k \in locks[p] \cup DOMAIN f
          /\ \A k \in locks[p] : ~HasState(draft[p][k], s)
          /\ \A k \in DOMAIN f : HasState(f[k], s) => k = j

LEMMA WritesKeepApart ==
    ASSUME KeyInv, NEW p \in Processes, NEW f, NEW t, GoodWrites(p, f, t), Write(p, f), UNCHANGED rows
    PROVE  /\ locks' \in [Processes -> SUBSET Kids] /\ locks'[p] = locks[p] \cup DOMAIN f
           /\ \A q \in Others(p) : locks'[q] = locks[q] /\ draft'[q] = draft[q]
           /\ draft' \in [Processes -> [Kids -> Row \cup {None}]]
           /\ \A k \in Kids : draft'[p][k] = IF k \in DOMAIN f THEN f[k] ELSE draft[p][k]
           /\ SoleDraft(p)'
           /\ \A k \in locks'[p] : Allowed(rows'[k], draft'[p][k], t)
           /\ Apart'
<1> USE DEF KeyInv, KeyTypes
<1>1. locks' \in [Processes -> SUBSET Kids] /\ locks'[p] = locks[p] \cup DOMAIN f
  BY DEF Write, GoodWrites
<1>2. \A q \in Others(p) : locks'[q] = locks[q] /\ draft'[q] = draft[q]
  BY DEF Write, Others
<1>3. /\ draft' \in [Processes -> [Kids -> Row \cup {None}]]
      /\ \A k \in Kids : draft'[p][k] = IF k \in DOMAIN f THEN f[k] ELSE draft[p][k]
  BY DEF Write, GoodWrites
<1>4. \A k \in locks'[p] : Allowed(rows'[k], draft'[p][k], t)
  BY <1>1, <1>3 DEF GoodWrites, TxnInv
<1>5. SoleDraft(p)'
  BY <1>1, <1>3 DEF GoodWrites, TxnInv, SoleDraft
<1>6. \A q \in Others(p), s \in Indexed : Touches(q, s)' <=> Touches(q, s)
  BY <1>2 DEF Touches
<1>7. ASSUME NEW q \in Others(p), NEW s \in Indexed, Touches(p, s)' PROVE ~Touches(q, s)
  <2>1. PICK k \in locks'[p] : HasState(rows[k], s) \/ HasState(draft'[p][k], s)
    BY <1>7 DEF Touches
  <2>2. CASE k \in locks[p] /\ k \notin DOMAIN f
    BY <1>1, <1>3, <2>1, <2>2 DEF Touches, Apart, Others
  <2>3. CASE k \in DOMAIN f /\ HasState(rows[k], s)
    BY <2>3, HeldAlone DEF GoodWrites, Others
  <2>4. CASE k \in DOMAIN f /\ HasState(f[k], s)
    BY <2>4 DEF GoodWrites
  <2> QED
    BY <1>1, <1>3, <2>1, <2>2, <2>3, <2>4 DEF GoodWrites
<1>8. Apart'
  <2> SUFFICES ASSUME NEW u \in Processes, NEW v \in Processes, u # v
               PROVE  /\ locks'[u] \cap locks'[v] = {}
                      /\ \A s \in Indexed : ~(Touches(u, s)' /\ Touches(v, s)')
    BY DEF Apart
  <2>1. CASE u # p /\ v # p
    BY <1>2, <1>6, <2>1 DEF Apart, Others
  <2>2. CASE u = p
    BY <1>1, <1>2, <1>6, <1>7, <2>2 DEF Apart, Others, GoodWrites
  <2>3. CASE v = p
    BY <1>1, <1>2, <1>6, <1>7, <2>3 DEF Apart, Others, GoodWrites
  <2> QED
    BY <2>1, <2>2, <2>3
<1> QED
  BY <1>1, <1>2, <1>3, <1>4, <1>5, <1>8

\* Counting the fresh kids: they stay enough when none goes, and when a
\* transaction that goes to its commit takes two.
LEMMA CountKept ==
    ASSUME EnoughFree, Free \subseteq Free', Pending' \subseteq Pending
    PROVE  EnoughFree'
<1>1. /\ Free' \in SUBSET Kids /\ IsFiniteSet(Free') /\ Cardinality(Free') \in Nat
      /\ Free \in SUBSET Kids /\ Cardinality(Free) \in Nat
  <2>1. Free \in SUBSET Kids /\ Free' \in SUBSET Kids
    BY DEF Free
  <2> QED
    BY <2>1, KidsFinite
<1>2. IsFiniteSet(Pending) /\ Cardinality(Pending) \in Nat /\ Cardinality(Pending') \in Nat
  <2>1. Pending \in SUBSET Processes /\ Pending' \in SUBSET Processes
    BY DEF Pending
  <2> QED
    BY <2>1, ProcessesFinite
<1>3. Cardinality(Free) <= Cardinality(Free') /\ Cardinality(Pending') <= Cardinality(Pending)
  BY <1>1, <1>2, FS_Subset
<1> QED
  BY <1>1, <1>2, <1>3 DEF EnoughFree

LEMMA CountTaken ==
    ASSUME EnoughFree, NEW p \in Pending, Pending' \subseteq Pending \ {p},
           NEW x, NEW y, (Free \ {x}) \ {y} \subseteq Free'
    PROVE  EnoughFree'
<1>1. /\ IsFiniteSet(Free') /\ Cardinality(Free') \in Nat
      /\ IsFiniteSet(Free) /\ Cardinality(Free) \in Nat
  <2>1. Free \in SUBSET Kids /\ Free' \in SUBSET Kids
    BY DEF Free
  <2> QED
    BY <2>1, KidsFinite
<1>2. IsFiniteSet(Pending) /\ Cardinality(Pending) \in Nat /\ Cardinality(Pending') \in Nat
  <2>1. Pending \in SUBSET Processes /\ Pending' \in SUBSET Processes
    BY DEF Pending
  <2> QED
    BY <2>1, ProcessesFinite
<1>3. IsFiniteSet(Pending \ {p}) /\ Cardinality(Pending \ {p}) = Cardinality(Pending) - 1
  BY <1>2, FS_RemoveElement
<1>4. Cardinality(Pending') <= Cardinality(Pending) - 1
  BY <1>3, FS_Subset
<1>5. ASSUME NEW S, IsFiniteSet(S), NEW z
      PROVE  IsFiniteSet(S \ {z}) /\ Cardinality(S) \in Nat /\ Cardinality(S \ {z}) \in Nat
               /\ Cardinality(S \ {z}) >= Cardinality(S) - 1
  <2>1. Cardinality(S) \in Nat
    BY <1>5, FS_CardinalityType
  <2>2. CASE z \in S
    <3>1. IsFiniteSet(S \ {z}) /\ Cardinality(S \ {z}) = Cardinality(S) - 1
      BY <1>5, <2>2, FS_RemoveElement
    <3>2. Cardinality(S \ {z}) \in Nat
      BY <3>1, FS_CardinalityType
    <3> QED
      BY <2>1, <3>1, <3>2
  <2>3. CASE z \notin S
    <3>1. S \ {z} = S
      BY <2>3
    <3> QED
      BY <1>5, <2>1, <3>1
  <2> QED
    BY <2>2, <2>3
<1>6. /\ IsFiniteSet((Free \ {x}) \ {y}) /\ Cardinality((Free \ {x}) \ {y}) >= Cardinality(Free) - 2
      /\ Cardinality((Free \ {x}) \ {y}) \in Nat
  <2>1. /\ IsFiniteSet(Free \ {x}) /\ Cardinality(Free \ {x}) \in Nat
        /\ Cardinality(Free \ {x}) >= Cardinality(Free) - 1
    BY <1>1, <1>5
  <2>2. /\ IsFiniteSet((Free \ {x}) \ {y}) /\ Cardinality((Free \ {x}) \ {y}) \in Nat
        /\ Cardinality((Free \ {x}) \ {y}) >= Cardinality(Free \ {x}) - 1
    BY <2>1, <1>5
  <2> QED
    BY <1>1, <2>1, <2>2
<1>7. Cardinality((Free \ {x}) \ {y}) <= Cardinality(Free')
  BY <1>1, FS_Subset
<1> QED
  BY <1>1, <1>2, <1>4, <1>6, <1>7 DEF EnoughFree

\* What the other transactions see of a step that commits nothing.
LEMMA OthersKeep ==
    ASSUME KeyInv, NEW p \in Processes, UNCHANGED <<now, rows>>, NEW q \in Others(p),
           pc'[q] = pc[q], found'[q] = found[q], began'[q] = began[q],
           locks'[q] = locks[q], draft'[q] = draft[q]
    PROVE  TxnInv(q)'
BY DEF KeyInv, TxnInv, Open, SoleDraft, Stage, HeldActive, Others

(***************************************************************************)
(* The three kinds of step that leave the table alone.                     *)
(***************************************************************************)
\* A statement that only reads.
LEMMA ReadStep ==
    ASSUME KeyInv, NEW p \in Processes, UNCHANGED <<now, rows, spent, locks, draft>>,
           NEW l \in Places, pc' = [pc EXCEPT ![p] = l],
           NEW c \in Kids \cup {None}, found' = [found EXCEPT ![p] = c],
           NEW t \in Nat, began' = [began EXCEPT ![p] = t], t <= now, now <= t + TxnTime,
           locks[p] # {} => t = began[p],
           Stage(p)', EnoughFree'
    PROVE  KeyInv'
<1> USE DEF KeyInv, KeyTypes
<1>1. KeyTypes'
  OBVIOUS
<1>2. Apart' /\ TableInv'
  BY DEF Apart, Touches, TableInv, NoRows
<1>3. TxnInv(p)'
  BY DEF TxnInv, Open, SoleDraft
<1>4. \A q \in Processes : TxnInv(q)'
  BY <1>3, OthersKeep DEF Others
<1> QED
  BY <1>1, <1>2, <1>4

\* A statement that locks and writes.
LEMMA WriteStep ==
    ASSUME KeyInv, NEW p \in Processes, UNCHANGED <<now, rows, spent>>,
           NEW l \in Places, pc' = [pc EXCEPT ![p] = l],
           NEW c \in Kids \cup {None}, found' = [found EXCEPT ![p] = c],
           NEW t \in Nat, began' = [began EXCEPT ![p] = t], t <= now, now <= t + TxnTime,
           NEW f, GoodWrites(p, f, t), Write(p, f),
           Stage(p)', EnoughFree'
    PROVE  KeyInv'
<1> USE DEF KeyInv
<1>1. KeyTypes'
  BY WritesKeepApart DEF KeyTypes
<1>2. Apart' /\ TableInv'
  BY WritesKeepApart DEF TableInv, NoRows
<1>3. TxnInv(p)'
  <2>1. began'[p] = t
    BY DEF KeyTypes
  <2> QED
    BY <2>1, WritesKeepApart DEF TxnInv
<1>4. ASSUME NEW q \in Others(p) PROVE TxnInv(q)'
  <2>1. pc'[q] = pc[q] /\ began'[q] = began[q] /\ found'[q] = found[q]
    BY DEF KeyTypes, Others
  <2>2. locks'[q] = locks[q] /\ draft'[q] = draft[q]
    BY WritesKeepApart
  <2> QED
    BY <2>1, <2>2, OthersKeep
<1>5. \A q \in Processes : TxnInv(q)'
  BY <1>3, <1>4 DEF Others
<1> QED
  BY <1>1, <1>2, <1>5

LEMMA RollbackStep ==
    ASSUME KeyInv, NEW p \in Processes, UNCHANGED <<now, rows, spent>>, Rollback(p)
    PROVE  KeyInv'
<1> USE DEF KeyInv
<1>0. /\ locks' \in [Processes -> SUBSET Kids] /\ locks'[p] = {}
      /\ \A q \in Others(p) : locks'[q] = locks[q] /\ draft'[q] = draft[q] 
           /\ pc'[q] = pc[q] /\ began'[q] = began[q] /\ found'[q] = found[q]
      /\ pc'[p] = "idle"
  BY DEF KeyTypes, Rollback, Others
<1>1. KeyTypes'
  <2>1. draft' \in [Processes -> [Kids -> Row \cup {None}]]
    BY DEF KeyTypes, Rollback, NoRows
  <2>2. began' \in [Processes -> Nat] /\ pc' \in [Processes -> Places] /\ found' \in [Processes -> Kids \cup {None}]
    BY DEF KeyTypes, Rollback, Places
  <2> QED
    BY <1>0, <2>1, <2>2 DEF KeyTypes
<1>2. Apart'
  BY <1>0 DEF Apart, Touches, Others
<1>3. TableInv'
  BY DEF TableInv, NoRows
<1>4. TxnInv(p)'
  BY <1>0 DEF TxnInv, Open, SoleDraft, Stage
<1>5. \A q \in Processes : TxnInv(q)'
  BY <1>0, <1>4, OthersKeep DEF Others
<1>6. EnoughFree'
  <2>1. Free \subseteq Free'
    BY <1>0 DEF Free, Others
  <2>2. Pending' \subseteq Pending
    BY <1>0 DEF Pending, Others
  <2> QED
    BY <2>1, <2>2, CountKept
<1> QED
  BY <1>1, <1>2, <1>3, <1>5, <1>6

(***************************************************************************)
(* A commit: p's rows take their place in the table, the rows Pr that p    *)
(* deletes leave it.                                                       *)
(***************************************************************************)
LEMMA CommitStep ==
    ASSUME KeyInv, NEW p \in Processes, pc[p] = "commit", NEW Pr \in SUBSET Kids,
           \A k \in Pr : HasState(View(p)[k], "Retired") /\ \A q \in Others(p) : k \notin locks[q],
           rows' = [k \in Kids |-> IF k \in Pr THEN None ELSE View(p)[k]],
           spent' = spent \cup Pr, UNCHANGED now, Rollback(p)
    PROVE  KeyInv'
<1> USE DEF KeyInv
<1>0. /\ locks' \in [Processes -> SUBSET Kids] /\ locks'[p] = {}
      /\ \A q \in Others(p) : locks'[q] = locks[q] /\ draft'[q] = draft[q] 
           /\ pc'[q] = pc[q] /\ began'[q] = began[q] /\ found'[q] = found[q]
      /\ pc'[p] = "idle"
  BY DEF KeyTypes, Rollback, Others
<1>1. \A k \in Kids : rows'[k] = IF k \in Pr THEN None ELSE IF k \in locks[p] THEN draft[p][k] ELSE rows[k]
  BY DEF View
<1>2. \A q \in Others(p) : locks[q] \subseteq Kids /\ \A k \in locks[q] : rows'[k] = rows[k]
  BY <1>1 DEF KeyTypes, Apart, Others
<1>3. \A k \in Kids, s \in Indexed : HasState(rows'[k], s) <=>
         IF k \in locks[p] THEN HasState(draft[p][k], s) ELSE HasState(rows[k], s)
  BY <1>1 DEF View, HasState, Indexed
<1>4. KeyTypes'
  <2>1. draft' \in [Processes -> [Kids -> Row \cup {None}]]
    BY DEF KeyTypes, Rollback, NoRows
  <2>2. began' \in [Processes -> Nat] /\ pc' \in [Processes -> Places] /\ found' \in [Processes -> Kids \cup {None}]
    BY DEF KeyTypes, Rollback, Places
  <2>3. rows' \in [Kids -> Row \cup {None}]
    BY <1>1 DEF KeyTypes
  <2> QED
    BY <1>0, <2>1, <2>2, <2>3 DEF KeyTypes
<1>5. TableInv'
  <2>0. locks[p] \subseteq Kids
    BY DEF KeyTypes
  <2>1. \A s \in Indexed : \A j, k \in Kids : HasState(rows'[j], s) /\ HasState(rows'[k], s) => j = k
    BY <1>3, <2>0 DEF TableInv, TxnInv, SoleDraft
  <2>2. \E k \in Kids : HasState(rows'[k], "Active")
    BY <1>3, <2>0 DEF TableInv, TxnInv, Stage, Indexed
  <2> QED
    BY <2>1, <2>2 DEF TableInv
<1>6. rows' # NoRows
  <2>1. PICK k \in Kids : HasState(rows'[k], "Active")
    BY <1>3 DEF TableInv, TxnInv, Stage, Indexed, KeyTypes
  <2> QED
    BY <2>1 DEF NoRows, HasState
<1>7. Apart'
  <2>1. \A q \in Others(p), s \in Indexed : Touches(q, s)' <=> Touches(q, s)
    BY <1>0, <1>2 DEF Touches
  <2>2. \A s \in Indexed : ~Touches(p, s)'
    BY <1>0 DEF Touches
  <2> QED
    BY <1>0, <2>1, <2>2 DEF Apart, Others
<1>8. TxnInv(p)'
  BY <1>0 DEF TxnInv, Open, SoleDraft, Stage
<1>9. ASSUME NEW q \in Others(p) PROVE TxnInv(q)'
  <2>1. q \in Processes /\ q # p /\ TxnInv(q)
    BY DEF Others
  <2>2. SoleDraft(q)'
    <3> SUFFICES ASSUME NEW s \in Indexed, NEW j \in locks[q], HasState(draft[q][j], s)
                 PROVE  /\ \A k \in Kids : HasState(rows'[k], s) => k \in locks[q]
                        /\ \A k \in locks[q] : HasState(draft[q][k], s) => k = j
      BY <1>0 DEF SoleDraft
    <3>1. Touches(q, s)
      BY DEF Touches
    <3>2. ~Touches(p, s)
      BY <2>1, <3>1 DEF Apart
    <3>3. \A k \in Kids : HasState(rows'[k], s) => HasState(rows[k], s)
      BY <1>3, <3>2 DEF Touches
    <3> QED
      BY <2>1, <3>3 DEF TxnInv, SoleDraft
  <2>3. Stage(q)'
    <3>1. Stage(q) /\ locks'[q] = locks[q] /\ draft'[q] = draft[q] /\ pc'[q] = pc[q] /\ found'[q] = found[q]
      BY <1>0, <2>1 DEF TxnInv
    <3>2. \A s : HeldActive(q, s) => HeldActive(q, s)'
      BY <1>2, <3>1 DEF HeldActive
    <3> QED
      BY <1>2, <1>6, <3>1, <3>2 DEF Stage
  <2> QED
    BY <1>0, <1>2, <2>1, <2>2, <2>3 DEF TxnInv, Open
<1>10. \A q \in Processes : TxnInv(q)'
  BY <1>8, <1>9 DEF Others
<1>11. EnoughFree'
  <2>1. Free \subseteq Free'
    <3> SUFFICES ASSUME NEW k \in Free PROVE k \in Free'
      OBVIOUS
    <3>1. k \in Kids /\ rows[k] = None /\ k \notin spent /\ \A q \in Processes : k \notin locks[q]
      BY DEF Free
    <3>2. View(p)[k] = None
      BY <3>1 DEF View
    <3>3. k \notin Pr
      BY <3>2 DEF HasState
    <3> QED
      BY <1>0, <1>1, <3>1, <3>3 DEF Free, Others
  <2>2. Pending' \subseteq Pending
    BY <1>0 DEF Pending, Others
  <2> QED
    BY <2>1, <2>2, CountKept
<1> QED
  BY <1>4, <1>5, <1>7, <1>10, <1>11

\* The last writes of a transaction: at most two fresh kids, x and y, among
\* them, rows nobody holds, and one active key in what it has written by then.
LEMMA WriteThenStep ==
    ASSUME KeyInv, NEW p \in Pending, UNCHANGED <<now, rows, spent>>,
           NEW t \in Nat, t <= now, now <= t + TxnTime, locks[p] # {} => t = began[p],
           NEW f, DOMAIN f \subseteq Kids, f = [k \in DOMAIN f |-> f[k]],
           \A k \in DOMAIN f : f[k] \in Row /\ Allowed(rows[k], f[k], t) /\ \A q \in Processes : k \notin locks[q],
           \A s \in Indexed : \A j, k \in DOMAIN f : HasState(f[j], s) /\ HasState(f[k], s) => j = k,
           NEW x, NEW y, \A k \in DOMAIN f : k \in Free => k \in {x, y},
           \/ \E k \in DOMAIN f : HasState(f[k], "Active")
           \/ \E k \in locks[p] : HasState(draft[p][k], "Active"),
           ~MustWait(p, f), WriteThen(p, f, "commit", t)
    PROVE  KeyInv'
<1> USE DEF KeyInv
<1>0. p \in Processes /\ locks[p] \subseteq Kids
  BY DEF Pending, KeyTypes
<1>1. CASE Violates(p, f)
  BY <1>0, <1>1, RollbackStep DEF WriteThen
<1>2. CASE ~Violates(p, f)
  <2>1. /\ Write(p, f) /\ pc' = [pc EXCEPT ![p] = "commit"]
        /\ found' = [found EXCEPT ![p] = None] /\ began' = [began EXCEPT ![p] = t]
    BY <1>2 DEF WriteThen
  <2>2. GoodWrites(p, f, t)
    <3>1. ASSUME NEW s \in Indexed, NEW j \in DOMAIN f, HasState(f[j], s)
          PROVE  /\ \A q \in Others(p) : ~Touches(q, s)
                 /\ \A k \in Kids : HasState(rows[k], s) => k \in locks[p] \cup DOMAIN f
                 /\ \A k \in locks[p] : ~HasState(draft[p][k], s)
                 /\ \A k \in DOMAIN f : HasState(f[k], s) => k = j
      <4>1. s \in Written(f)
        BY <3>1 DEF Written, HasState
      <4>2. \A q \in Others(p) : ~Touches(q, s)
        BY <4>1 DEF MustWait, Touches
      <4>3. \A k \in Kids \ DOMAIN f : ~HasState(IF k \in locks[p] THEN draft[p][k] ELSE rows[k], s)
        BY <1>2, <4>1 DEF Violates, View
      <4> QED
        BY <1>0, <3>1, <4>2, <4>3
    <3> QED
      BY <1>0, <3>1 DEF GoodWrites, Others
  <2>3. None \in Kids \cup {None}
    OBVIOUS
  <2>4. locks'[p] = locks[p] \cup DOMAIN f /\ \A k \in Kids : draft'[p][k] = IF k \in DOMAIN f THEN f[k] ELSE draft[p][k]
    BY <1>0, <2>1, <2>2, WritesKeepApart
  <2>5. Stage(p)'
    <3>1. pc'[p] = "commit"
      BY <1>0, <2>1 DEF KeyTypes
    <3>2. \E j \in locks'[p] : HasState(draft'[p][j], "Active")
      <4>1. \A k \in locks[p] : k \notin DOMAIN f
        BY <1>0
      <4> QED
        BY <1>0, <2>4, <4>1
    <3> QED
      BY <3>1, <3>2 DEF Stage
  <2>6. EnoughFree'
    <3>1. (Free \ {x}) \ {y} \subseteq Free'
      <4>1. \A q \in Others(p) : locks'[q] = locks[q]
        BY <1>0, <2>1, <2>2, WritesKeepApart
      <4> QED
        BY <1>0, <2>4, <4>1 DEF Free, Others
    <3>2. Pending' \subseteq Pending \ {p}
      BY <1>0, <2>1 DEF Pending, KeyTypes
    <3> QED
      BY <3>1, <3>2, CountTaken
  <2> QED
    BY <1>0, <2>1, <2>2, <2>3, <2>5, <2>6, WriteStep DEF Places
<1> QED
  BY <1>1, <1>2

\* The first row a transaction locks, and what it goes on to.
LEMMA LockFirst ==
    ASSUME KeyInv, NEW p \in Pending, locks[p] = {}, UNCHANGED <<now, rows, spent>>,
           NEW k \in Kids, rows[k] # None, CanLock(p, k),
           NEW r \in Row, Allowed(rows[k], r, now), r.state \in Indexed => r = rows[k],
           NEW l, pc' = [pc EXCEPT ![p] = l],
           \/ l = "next_due" /\ HasState(rows[k], "Active") /\ r.state = "Retired"
           \/ l = "next_fresh" /\ HasState(rows[k], "Active") /\ r.state = "Active"
           \/ l = "was_active" /\ HasState(rows[k], "Active") /\ r.state = "Revoked"
           \/ l = "commit" /\ ~HasState(rows[k], "Active") /\ p \in Revokers,
           NEW c \in Kids \cup {None}, found' = [found EXCEPT ![p] = c],
           Write(p, Only(k, r)), ReadClock(p)
    PROVE  KeyInv'
<1> USE DEF KeyInv
<1> DEFINE f == Only(k, r)
<1>0. p \in Processes /\ k # None
  BY KidsFinite DEF Pending
<1>1. DOMAIN f = {k} /\ f[k] = r /\ f = [j \in DOMAIN f |-> f[j]]
  BY DEF Only
<1> HIDE DEF f
<1>2. \A q \in Others(p) : k \notin locks[q]
  BY <1>0 DEF CanLock
<1>3. GoodWrites(p, f, now)
  <2>1. ASSUME NEW s \in Indexed, HasState(r, s)
        PROVE  (\A q \in Others(p) : ~Touches(q, s)) /\ \A j \in Kids : HasState(rows[j], s) => j = k
    BY <1>2, <2>1, HeldAlone DEF HasState, TableInv, Others
  <2> QED
    BY <1>1, <1>2, <2>1 DEF GoodWrites
<1>4. Write(p, f)
  BY DEF f
<1>5. /\ locks'[p] = {k} /\ draft'[p][k] = r
      /\ \A q \in Others(p) : locks'[q] = locks[q]
  BY <1>0, <1>1, <1>3, <1>4, WritesKeepApart
<1>6. pc'[p] = l /\ l \in Places
  BY <1>0 DEF KeyTypes, Places
<1>7. Stage(p)'
  <2>1. r # None
    BY NoneAssumption
  <2>2. rows # NoRows
    BY DEF NoRows
  <2> QED
    BY <1>5, <1>6, <2>1, <2>2 DEF Stage, HeldActive, HasState
<1>8. EnoughFree'
  <2>1. Free \subseteq Free'
    BY <1>5 DEF Free, Others
  <2>2. Pending' \subseteq Pending
    BY <1>0, <1>6 DEF Pending, KeyTypes
  <2> QED
    BY <2>1, <2>2, CountKept
<1>9. began' = [began EXCEPT ![p] = now] /\ now \in Nat /\ now <= now /\ now <= now + TxnTime
  BY KeyAssumption DEF ReadClock, KeyTypes
<1> QED
  BY <1>0, <1>3, <1>4, <1>6, <1>7, <1>8, <1>9, WriteStep

(***************************************************************************)
(* The statements.                                                         *)
(***************************************************************************)
\* What a statement that does not wait may rely on, and what it writes.
LEMMA MayRun ==
    ASSUME NEW p, ~Waits(p)
    PROVE  LET k == found[p]
           IN  /\ pc[p] \in Locking => CanLock(p, k)
               /\ ~MustWait(p, Puts(p))
               /\ pc[p] = "active" /\ ~StillIs(p, k, "Active") => Puts(p) = Both(Fresh, ActiveRow, Fresh2, NextRow)
               /\ pc[p] \in {"next_due", "promote"} => Puts(p) = Promotion(p, k)
               /\ pc[p] = "next_fresh" =>
                     Puts(p) = IF StillIs(p, k, "Next") THEN Only(k, rows[k]) ELSE Only(Fresh, NextRow)
BY DEF Waits, Puts

LEMMA PickTyped ==
    ASSUME NEW p, NEW s
    PROVE  Pick(p, s) \in Kids \cup {None}
BY DEF Pick

\* The guard of Begin leaves two fresh kids for the new transaction.
LEMMA BeginStep ==
    ASSUME KeyInv, NEW p \in Processes, Begin(p), UNCHANGED <<now, rows, spent, locks, draft>>,
           NEW l \in {"active", "revoke"}, pc' = [pc EXCEPT ![p] = l],
           NEW c \in Kids \cup {None}, found' = [found EXCEPT ![p] = c], l = "revoke" => c # None
    PROVE  KeyInv'
<1> DEFINE Opened == {q \in Processes : Open(q)}
<1> USE DEF KeyInv
<1>1. ~Open(p) /\ began' = [began EXCEPT ![p] = now] /\ Cardinality(Free) >= 2 * (1 + Cardinality(Opened))
  BY DEF Begin
<1>2. IsFiniteSet(Opened) /\ Cardinality(Opened) \in Nat
  <2>1. Opened \in SUBSET Processes
    OBVIOUS
  <2> QED
    BY <2>1, ProcessesFinite
<1>3. Pending' \subseteq Opened \cup {p}
  BY DEF Pending, Open, KeyTypes
<1>4. IsFiniteSet(Opened \cup {p}) /\ Cardinality(Opened \cup {p}) = Cardinality(Opened) + 1
  BY <1>1, <1>2, FS_AddElement
<1>5. Cardinality(Pending') <= Cardinality(Opened) + 1 /\ IsFiniteSet(Pending')
  BY <1>3, <1>4, FS_Subset
<1>6. Cardinality(Pending') \in Nat
  BY <1>5, FS_CardinalityType
<1>7. Free' = Free /\ Cardinality(Free) \in Nat
  <2>1. Free \in SUBSET Kids
    BY DEF Free
  <2> QED
    BY <2>1, KidsFinite DEF Free
<1> HIDE DEF Opened
<1>8. EnoughFree'
  <2>1. Cardinality(Free') >= 2 * Cardinality(Pending')
    BY <1>1, <1>2, <1>5, <1>6, <1>7
  <2> QED
    BY <2>1 DEF EnoughFree
<1>9. locks[p] = {}
  BY <1>1 DEF TxnInv, Stage, Open
<1>10. Stage(p)'
  BY <1>9 DEF Stage, KeyTypes
<1>11. now \in Nat /\ now <= now /\ now <= now + TxnTime /\ l \in Places
  BY KeyAssumption DEF KeyTypes, Places
<1> QED
  BY <1>1, <1>8, <1>9, <1>10, <1>11, ReadStep

\* Two fresh keys, the first active.
LEMMA CreateStep ==
    ASSUME KeyInv, NEW p \in Pending, UNCHANGED <<now, rows, spent>>,
           NEW t \in Nat, t <= now, now <= t + TxnTime, locks[p] # {} => t = began[p],
           ~MustWait(p, Both(Fresh, ActiveRow, Fresh2, NextRow)),
           WriteThen(p, Both(Fresh, ActiveRow, Fresh2, NextRow), "commit", t)
    PROVE  KeyInv'
<1> DEFINE f == Both(Fresh, ActiveRow, Fresh2, NextRow)
<1>1. Fresh \in Free /\ Fresh2 \in Free /\ Fresh # Fresh2
  BY FreshKids
<1>2. /\ DOMAIN f = {Fresh, Fresh2} /\ f[Fresh] = ActiveRow /\ f[Fresh2] = NextRow
      /\ f = [k \in DOMAIN f |-> f[k]]
  BY <1>1 DEF Both
<1> HIDE DEF f
<1>3. ActiveRow \in Row /\ NextRow \in Row
  BY DEF ActiveRow, NextRow, Row, KeyInv, KeyTypes
<1>4. \A k \in DOMAIN f : k \in Kids /\ f[k] \in Row /\ Allowed(rows[k], f[k], t) /\ \A q \in Processes : k \notin locks[q]
  BY <1>1, <1>2, <1>3, NoneAssumption DEF Free, Allowed, HasState, ActiveRow, NextRow
<1>5. \A s \in Indexed : \A j, k \in DOMAIN f : HasState(f[j], s) /\ HasState(f[k], s) => j = k
  BY <1>2 DEF HasState, ActiveRow, NextRow
<1>6. \E k \in DOMAIN f : HasState(f[k], "Active")
  BY <1>2, <1>3, NoneAssumption DEF HasState, ActiveRow
<1>7. WriteThen(p, f, "commit", t) /\ ~MustWait(p, f)
  BY DEF f
<1> QED
  BY <1>2, <1>4, <1>5, <1>6, <1>7, WriteThenStep

\* The next key becomes active, or two keys are created.
LEMMA PromoteStep ==
    ASSUME KeyInv, NEW p \in Pending, UNCHANGED <<now, rows, spent>>,
           HeldActive(p, "Retired") \/ HeldActive(p, "Revoked"), pc[p] \in {"next_due", "promote"},
           ~Waits(p), WriteThen(p, Puts(p), "commit", began[p])
    PROVE  KeyInv'
<1> DEFINE k == found[p]
<1>0. /\ p \in Processes /\ began[p] \in Nat /\ began[p] <= now /\ now <= began[p] + TxnTime
      /\ k \in Kids \cup {None}
  BY DEF Pending, KeyInv, KeyTypes, TxnInv, Open
<1>p. CanLock(p, k) /\ ~MustWait(p, Promotion(p, k)) /\ WriteThen(p, Promotion(p, k), "commit", began[p])
  BY MayRun DEF Locking
<1>1. CASE ~StillIs(p, k, "Next")
  BY <1>0, <1>p, <1>1, CreateStep DEF Promotion
<1>2. CASE StillIs(p, k, "Next")
  <2> DEFINE new == [rows[k] EXCEPT !.state = "Active", !.activated_at = began[p]]
             f == Both(k, new, Fresh, NextRow)
  <2>1. k \in Kids /\ k \notin locks[p] /\ HasState(rows[k], "Next")
    BY <1>0, <1>2 DEF StillIs, View, HeldActive, HasState
  <2>2. \A q \in Processes : k \notin locks[q]
    BY <1>p, <1>2, <2>1 DEF StillIs, CanLock, Others
  <2>3. Fresh \in Free /\ Fresh # k
    BY <2>1, FreshKids DEF Free, HasState
  <2>4. new \in Row /\ NextRow \in Row /\ new.state = "Active"
    BY <1>0, <2>1 DEF Row, NextRow, HasState, KeyInv, KeyTypes
  <2> HIDE DEF new
  <2>5. DOMAIN f = {k, Fresh} /\ f[k] = new /\ f[Fresh] = NextRow /\ f = [j \in DOMAIN f |-> f[j]]
    BY <2>3 DEF Both
  <2> HIDE DEF f
  <2>6. \A j \in DOMAIN f : j \in Kids /\ f[j] \in Row /\ Allowed(rows[j], f[j], began[p]) /\ \A q \in Processes : j \notin locks[q]
    BY <2>1, <2>2, <2>3, <2>4, <2>5, NoneAssumption DEF Free, Allowed, HasState, NextRow
  <2>7. \A s \in Indexed : \A i, j \in DOMAIN f : HasState(f[i], s) /\ HasState(f[j], s) => i = j
    BY <2>4, <2>5 DEF HasState, NextRow
  <2>8. \E j \in DOMAIN f : HasState(f[j], "Active")
    BY <2>4, <2>5, NoneAssumption DEF HasState
  <2>9. WriteThen(p, f, "commit", began[p]) /\ ~MustWait(p, f)
    BY <1>p, <1>2 DEF f, new, Promotion
  <2> QED
    BY <1>0, <2>5, <2>6, <2>7, <2>8, <2>9, WriteThenStep
<1> QED
  BY <1>1, <1>2

LEMMA RotateActiveStep ==
    ASSUME KeyInv, NEW p \in Rotators, RotateActive(p)
    PROVE  KeyInv'
<1> DEFINE k == found[p]
<1>0. p \in Processes /\ p \in Pending /\ locks[p] = {} /\ k \in Kids \cup {None} /\ now \in Nat
  BY DEF RotateActive, Processes, Pending, KeyInv, KeyTypes, TxnInv, Stage
<1>r. /\ CanLock(p, k) /\ ~MustWait(p, Puts(p))
      /\ ~StillIs(p, k, "Active") => Puts(p) = Both(Fresh, ActiveRow, Fresh2, NextRow)
  BY MayRun DEF RotateActive, Locking
<1>1. CASE ~StillIs(p, k, "Active")
  <2>1. now <= now /\ now <= now + TxnTime
    BY <1>0, KeyAssumption
  <2> QED
    BY <1>0, <1>1, <1>r, <2>1, CreateStep DEF RotateActive
<1>2. ASSUME StillIs(p, k, "Active")
      PROVE  k \in Kids /\ rows[k] \in Row /\ HasState(rows[k], "Active") /\ rows[k].activated_at \in Nat
               /\ rows[k] # None
  BY <1>0, <1>2 DEF StillIs, View, HasState, KeyInv, KeyTypes, Row
<1>3. CASE StillIs(p, k, "Active") /\ Due(k)
  <2> DEFINE r == [rows[k] EXCEPT !.state = "Retired", !.retired_at = now]
  <2>1. r \in Row /\ r.state = "Retired" /\ r.retired_at = now
    BY <1>0, <1>2, <1>3 DEF Row, HasState
  <2>2. Write(p, Only(k, r)) /\ Select(p, "Next", "next_due") /\ ReadClock(p) /\ UNCHANGED <<now, rows, spent>> /\ CanLock(p, k)
    BY <1>3, <1>r DEF RotateActive
  <2> HIDE DEF r
  <2>3. Allowed(rows[k], r, now)
    BY <1>2, <1>3, <2>1, NoneAssumption DEF Allowed, HasState, Due
  <2> QED
    BY <1>0, <1>2, <1>3, <2>1, <2>2, <2>3, PickTyped, LockFirst DEF Select, Indexed
<1>4. CASE StillIs(p, k, "Active") /\ ~Due(k)
  <2>2. Write(p, Only(k, rows[k])) /\ Select(p, "Next", "next_fresh") /\ ReadClock(p) /\ UNCHANGED <<now, rows, spent>> /\ CanLock(p, k)
    BY <1>4, <1>r DEF RotateActive
  <2>3. Allowed(rows[k], rows[k], now)
    BY <1>2, <1>4 DEF Allowed, HasState
  <2> QED
    BY <1>0, <1>2, <1>4, <2>2, <2>3, PickTyped, LockFirst DEF Select, HasState
<1> QED
  BY <1>1, <1>3, <1>4

LEMMA RotateEnsureNextStep ==
    ASSUME KeyInv, NEW p \in Rotators, RotateEnsureNext(p)
    PROVE  KeyInv'
<1> DEFINE k == found[p]
<1>0. /\ p \in Processes /\ p \in Pending /\ began[p] \in Nat /\ began[p] <= now /\ now <= began[p] + TxnTime
      /\ k \in Kids \cup {None} /\ HeldActive(p, "Active") /\ UNCHANGED <<now, rows, spent>>
  BY DEF RotateEnsureNext, Processes, Pending, KeyInv, KeyTypes, TxnInv, Open, Stage
<1>r. /\ CanLock(p, k) /\ ~MustWait(p, Puts(p)) /\ WriteThen(p, Puts(p), "commit", began[p])
      /\ Puts(p) = IF StillIs(p, k, "Next") THEN Only(k, rows[k]) ELSE Only(Fresh, NextRow)
  BY MayRun DEF RotateEnsureNext, Locking
<1>1. \E j \in locks[p] : HasState(draft[p][j], "Active")
  BY <1>0 DEF HeldActive
<1>2. CASE StillIs(p, k, "Next")
  <2> DEFINE f == Only(k, rows[k])
  <2>1. k \in Kids /\ k \notin locks[p] /\ HasState(rows[k], "Next") /\ rows[k] \in Row
    BY <1>0, <1>2 DEF StillIs, View, HeldActive, HasState, KeyInv, KeyTypes
  <2>2. \A q \in Processes : k \notin locks[q]
    BY <1>2, <1>r, <2>1 DEF StillIs, CanLock, Others
  <2>3. DOMAIN f = {k} /\ f[k] = rows[k] /\ f = [j \in DOMAIN f |-> f[j]]
    BY DEF Only
  <2>4. WriteThen(p, f, "commit", began[p]) /\ ~MustWait(p, f)
    BY <1>2, <1>r
  <2> HIDE DEF f
  <2>5. Allowed(rows[k], rows[k], began[p])
    BY <2>1 DEF Allowed, HasState
  <2> QED
    BY <1>0, <1>1, <2>1, <2>2, <2>3, <2>4, <2>5, WriteThenStep
<1>3. CASE ~StillIs(p, k, "Next")
  <2> DEFINE f == Only(Fresh, NextRow)
  <2>1. Fresh \in Free
    BY <1>0, FreshKids
  <2>2. NextRow \in Row
    BY DEF NextRow, Row
  <2>3. DOMAIN f = {Fresh} /\ f[Fresh] = NextRow /\ f = [j \in DOMAIN f |-> f[j]]
    BY DEF Only
  <2>4. WriteThen(p, f, "commit", began[p]) /\ ~MustWait(p, f)
    BY <1>3, <1>r
  <2> HIDE DEF f
  <2>5. \A j \in DOMAIN f : j \in Kids /\ f[j] \in Row /\ Allowed(rows[j], f[j], began[p]) /\ \A q \in Processes : j \notin locks[q]
    BY <2>1, <2>2, <2>3, NoneAssumption DEF Free, Allowed, HasState, NextRow
  <2> QED
    BY <1>0, <1>1, <2>3, <2>4, <2>5, WriteThenStep
<1> QED
  BY <1>2, <1>3

LEMMA RevokeStep ==
    ASSUME KeyInv, NEW p \in Revokers, Revoke(p)
    PROVE  KeyInv'
<1> DEFINE k == found[p]
<1>0. /\ p \in Processes /\ p \in Pending /\ locks[p] = {} /\ k \in Kids /\ CanLock(p, k)
      /\ now \in Nat /\ found = [found EXCEPT ![p] = k] /\ UNCHANGED <<now, rows, spent>>
  BY MayRun DEF Revoke, Processes, Pending, KeyInv, KeyTypes, TxnInv, Stage, Locking
<1>1. CASE rows[k] = None
  BY <1>0, <1>1, RollbackStep DEF Revoke
<1>2. CASE rows[k] # None
  <2> DEFINE r == [rows[k] EXCEPT !.state = "Revoked"]
             l == IF NeedsReplacement(k) THEN "was_active" ELSE "commit"
  <2>1. r \in Row /\ r.state = "Revoked"
    <3>1. rows[k] \in Row
      BY <1>0, <1>2 DEF KeyInv, KeyTypes
    <3> QED
      BY <3>1 DEF Row
  <2>2. Write(p, Only(k, r)) /\ pc' = [pc EXCEPT ![p] = l] /\ ReadClock(p) /\ UNCHANGED found
    BY <1>2 DEF Revoke
  <2> HIDE DEF r
  <2>3. Allowed(rows[k], r, now)
    BY <2>1, NoneAssumption DEF Allowed
  <2>4. \/ l = "was_active" /\ HasState(rows[k], "Active")
        \/ l = "commit" /\ ~HasState(rows[k], "Active")
    BY <1>2 DEF NeedsReplacement, HasState
  <2> HIDE DEF l
  <2> QED
    BY <1>0, <1>2, <2>1, <2>2, <2>3, <2>4, LockFirst DEF Indexed
<1> QED
  BY <1>1, <1>2

\* The search for a replacement only reads: the revoked key was the active one.
LEMMA ReplacementStep ==
    ASSUME KeyInv, NEW p \in Revokers, RevokeSelectActive(p) \/ RevokeReplacement(p)
    PROVE  KeyInv'
<1>0. /\ p \in Processes /\ p \in Pending /\ began[p] \in Nat /\ began[p] <= now /\ now <= began[p] + TxnTime
      /\ found[p] \in Kids \cup {None} /\ HeldActive(p, "Revoked") /\ UNCHANGED <<now, rows, spent>>
      /\ began = [began EXCEPT ![p] = began[p]]
  BY DEF RevokeSelectActive, RevokeReplacement, Processes, Pending, KeyInv, KeyTypes, TxnInv, Open, Stage
<1>1. ~StillIs(p, found[p], "Active")
  BY <1>0 DEF StillIs, View, HeldActive, HasState, KeyInv, TableInv, Indexed
<1>2. PICK c \in Kids \cup {None}, l \in {"replacement", "promote"} :
        /\ pc' = [pc EXCEPT ![p] = l] /\ found' = [found EXCEPT ![p] = c] /\ UNCHANGED <<began, locks, draft>>
  BY <1>1, PickTyped DEF RevokeSelectActive, RevokeReplacement, Select
<1>3. Stage(p)'
  BY <1>0, <1>2 DEF Stage, HeldActive, KeyInv, KeyTypes
<1>4. EnoughFree'
  <2>1. Free \subseteq Free' /\ Pending' \subseteq Pending
    BY <1>0, <1>2 DEF Free, Pending, KeyInv, KeyTypes
  <2> QED
    BY <2>1, CountKept DEF KeyInv
<1> QED
  BY <1>0, <1>2, <1>3, <1>4, ReadStep DEF Places

LEMMA CommitKeys ==
    ASSUME KeyInv, NEW p \in Processes, RotateCommit(p) \/ RevokeCommit(p)
    PROVE  /\ KeyInv'
           /\ \A k \in Kids : rows'[k] = None \/ rows'[k] = View(p)[k]
           /\ \A k \in Kids : rows'[k] # View(p)[k] =>
                 HasState(View(p)[k], "Retired") /\ View(p)[k].retired_at < began[p] - RetireWindow
<1>1. CASE RotateCommit(p)
  <2>1. \A k \in Prunable(p) : HasState(View(p)[k], "Retired") /\ \A q \in Others(p) : k \notin locks[q]
    BY <1>1, KidsFinite DEF RotateCommit, Waits, Prunable, CanLock
  <2>2. Prunable(p) \in SUBSET Kids
    BY DEF Prunable
  <2>3. KeyInv'
    BY <1>1, <2>1, <2>2, CommitStep DEF RotateCommit
  <2> QED
    BY <1>1, <2>3 DEF RotateCommit, Prunable
<1>2. CASE RevokeCommit(p)
  <2>1. rows' = [k \in Kids |-> IF k \in {} THEN None ELSE View(p)[k]] /\ spent' = spent \cup {}
    BY <1>2 DEF RevokeCommit, View
  <2>2. {} \in SUBSET Kids /\ \A k \in {} : HasState(View(p)[k], "Retired") /\ \A q \in Others(p) : k \notin locks[q]
    OBVIOUS
  <2>3. pc[p] = "commit" /\ UNCHANGED now /\ Rollback(p)
    BY <1>2 DEF RevokeCommit
  <2>4. KeyInv'
    BY <2>1, <2>2, <2>3, CommitStep
  <2> QED
    BY <1>2, <2>4 DEF RevokeCommit
<1> QED
  BY <1>1, <1>2

LEMMA TickStep ==
    ASSUME KeyInv, Tick
    PROVE  KeyInv'
<1> USE DEF KeyInv, Tick, txnVars
<1>1. KeyTypes' /\ Apart' /\ TableInv'
  BY DEF KeyTypes, Apart, Touches, TableInv, NoRows
<1>2. \A p \in Processes : TxnInv(p)'
  BY KeyAssumption DEF KeyTypes, TxnInv, Open, SoleDraft, Stage, HeldActive, NoRows
<1>3. EnoughFree'
  BY CountKept DEF Free, Pending
<1> QED
  BY <1>1, <1>2, <1>3

LEMMA KeyInitInv == KeyInit => KeyInv
<1> SUFFICES ASSUME KeyInit PROVE KeyInv
  OBVIOUS
<1> USE DEF KeyInit
<1>1. KeyTypes
  BY DEF KeyTypes, NoRows, Places
<1>2. \A p \in Processes : TxnInv(p)
  BY DEF TxnInv, Open, SoleDraft, Stage
<1>3. Apart
  BY DEF Apart, Touches
<1>4. TableInv
  BY DEF TableInv, NoRows, HasState
<1>5. EnoughFree
  <2>1. Pending = {} /\ Free \in SUBSET Kids
    BY DEF Pending, Free
  <2>2. Cardinality(Pending) = 0 /\ Cardinality(Free) \in Nat
    BY <2>1, FS_EmptySet, KidsFinite
  <2> QED
    BY <2>2 DEF EnoughFree
<1> QED
  BY <1>1, <1>2, <1>3, <1>4, <1>5 DEF KeyInv

\* Every step keeps the invariant, and only a commit changes the table.
LEMMA KeyStepInv ==
    ASSUME KeyInv, [KeyNext]_keyVars
    PROVE  /\ KeyInv'
           /\ rows' # rows => UNCHANGED now /\ \E p \in Processes : RotateCommit(p) \/ RevokeCommit(p)
<1>1. CASE UNCHANGED keyVars
  <2>1. UNCHANGED <<now, rows, spent, pc, found, began, locks, draft>>
    BY <1>1 DEF keyVars, txnVars
  <2>2. EnoughFree'
    BY <2>1, CountKept DEF KeyInv, Free, Pending
  <2>3. KeyTypes' /\ Apart' /\ TableInv'
    BY <2>1 DEF KeyInv, KeyTypes, Apart, Touches, TableInv, NoRows
  <2>4. \A p \in Processes : TxnInv(p)'
    BY <2>1 DEF KeyInv, TxnInv, Open, SoleDraft, Stage, HeldActive, NoRows
  <2> QED
    BY <2>1, <2>2, <2>3, <2>4 DEF KeyInv
<1>2. ASSUME NEW p \in Rotators, RotateNext(p)
      PROVE  KeyInv' /\ (rows' # rows => UNCHANGED now /\ RotateCommit(p))
  <2>0. p \in Processes
    BY DEF Processes
  <2>1. CASE RotateBegin(p)
    BY <2>0, <2>1, BeginStep, PickTyped DEF RotateBegin, Select
  <2>2. CASE RotateActive(p)
    BY <2>2, RotateActiveStep DEF RotateActive
  <2>3. CASE RotatePromote(p)
    BY <2>0, <2>3, PromoteStep DEF RotatePromote, Pending, KeyInv, TxnInv, Stage
  <2>4. CASE RotateEnsureNext(p)
    BY <2>4, RotateEnsureNextStep DEF RotateEnsureNext
  <2>5. CASE RotateCommit(p)
    BY <2>0, <2>5, CommitKeys DEF RotateCommit
  <2> QED
    BY <1>2, <2>1, <2>2, <2>3, <2>4, <2>5 DEF RotateNext
<1>3. ASSUME NEW p \in Revokers, RevokeNext(p)
      PROVE  KeyInv' /\ (rows' # rows => UNCHANGED now /\ RevokeCommit(p))
  <2>0. p \in Processes
    BY DEF Processes
  <2>1. CASE \E k \in Kids : RevokeBegin(p, k)
    BY <2>0, <2>1, BeginStep, KidsFinite DEF RevokeBegin
  <2>2. CASE Revoke(p)
    BY <2>2, RevokeStep DEF Revoke
  <2>3. CASE RevokeSelectActive(p) \/ RevokeReplacement(p)
    BY <2>3, ReplacementStep DEF RevokeSelectActive, RevokeReplacement
  <2>4. CASE RevokePromote(p)
    BY <2>0, <2>4, PromoteStep DEF RevokePromote, Pending, KeyInv, TxnInv, Stage
  <2>5. CASE RevokeCommit(p)
    BY <2>0, <2>5, CommitKeys DEF RevokeCommit
  <2> QED
    BY <1>3, <2>1, <2>2, <2>3, <2>4, <2>5 DEF RevokeNext
<1>4. ASSUME NEW p \in Processes, Abort(p)
      PROVE  KeyInv' /\ rows' = rows
  BY <1>4, RollbackStep DEF Abort
<1>5. CASE Tick
  BY <1>5, TickStep DEF Tick
<1> QED
  BY <1>1, <1>2, <1>3, <1>4, <1>5 DEF KeyNext, Processes

\* What a commit makes of a row it changes: what p has written, or nothing
\* when the row has left the window.
Commits(p, k) ==
    /\ UNCHANGED now /\ Open(p)
    /\ \/ Allowed(rows[k], rows'[k], began[p])
       \/ /\ rows'[k] = None
          /\ HasState(View(p)[k], "Retired") /\ View(p)[k].retired_at < began[p] - RetireWindow

LEMMA RowChange ==
    ASSUME KeyInv, [KeyNext]_keyVars, NEW k \in Kids, rows'[k] # rows[k]
    PROVE  \E p \in Processes : Commits(p, k)
<1>1. PICK p \in Processes : RotateCommit(p) \/ RevokeCommit(p)
  BY KeyStepInv
<1>2. UNCHANGED now /\ Open(p)
  BY <1>1 DEF RotateCommit, RevokeCommit, Open
<1>3. CASE rows'[k] = View(p)[k]
  BY <1>2, <1>3 DEF Commits, View, KeyInv, TxnInv
<1>4. CASE rows'[k] # View(p)[k]
  BY <1>1, <1>2, <1>4, CommitKeys DEF Commits
<1> QED
  BY <1>3, <1>4

-----------------------------------------------------------------------------
(***************************************************************************)
(* From the first rotation on there is exactly one active key and at most  *)
(* one next key, for any number of rotating and revoking instances.        *)
(***************************************************************************)
THEOREM OneKeySigns == KeySpec => []OneActiveKey
<1>1. KeyInv => OneActiveKey
  <2> SUFFICES ASSUME KeyInv PROVE OneActiveKey
    OBVIOUS
  <2>1. ASSUME rows # NoRows PROVE Cardinality(InState("Active")) = 1
    <3>1. PICK k \in Kids : HasState(rows[k], "Active")
      BY <2>1 DEF KeyInv, TableInv
    <3>2. InState("Active") = {k}
      BY <3>1 DEF InState, KeyInv, TableInv, Indexed
    <3> QED
      BY <3>2, FS_Singleton
  <2>2. Cardinality(InState("Next")) <= 1
    <3>1. CASE InState("Next") = {}
      <4>1. Cardinality(InState("Next")) = 0
        BY <3>1, FS_EmptySet
      <4> QED
        BY <4>1
    <3>2. ASSUME NEW k \in InState("Next") PROVE Cardinality(InState("Next")) <= 1
      <4>1. InState("Next") = {k}
        BY DEF InState, KeyInv, TableInv, Indexed
      <4>2. Cardinality(InState("Next")) = 1
        BY <4>1, FS_Singleton
      <4> QED
        BY <4>2
    <3> QED
      BY <3>1, <3>2
  <2> QED
    BY <2>1, <2>2 DEF OneActiveKey
<1>2. KeyInv /\ [KeyNext]_keyVars => KeyInv'
  BY KeyStepInv
<1> QED
  BY <1>1, <1>2, KeyInitInv, PTL DEF KeySpec

(***************************************************************************)
(* A revoked key is never put back into use, nor deleted, by any of the    *)
(* transactions that were open when it was revoked.                        *)
(***************************************************************************)
THEOREM RevocationLasts == KeySpec => RevokedForGood
<1>1. ASSUME KeyInv, [KeyNext]_keyVars
      PROVE  \A k \in Kids : HasState(rows[k], "Revoked") => HasState(rows'[k], "Revoked")
  <2> SUFFICES ASSUME NEW k \in Kids, HasState(rows[k], "Revoked"), rows'[k] # rows[k]
               PROVE  HasState(rows'[k], "Revoked")
    OBVIOUS
  <2>1. PICK p \in Processes : Commits(p, k)
    BY <1>1, RowChange
  <2>2. HasState(View(p)[k], "Retired") => k \in locks[p] /\ Allowed(rows[k], draft[p][k], began[p])
    BY <1>1 DEF View, HasState, KeyInv, TxnInv
  <2> QED
    BY <2>1, <2>2 DEF Commits, Allowed, View, HasState
<1>2. KeyInv /\ [KeyNext]_keyVars => KeyInv'
  BY KeyStepInv
<1> QED
  BY <1>1, <1>2, KeyInitInv, PTL DEF KeySpec, RevokedForGood

(***************************************************************************)
(* A key is retired only after the rotation period, by the clock of the    *)
(* step that retires it, for any number of instances that rotate at once.  *)
(***************************************************************************)
THEOREM RotationIsDue == KeySpec => NoEarlyRotation
<1>1. ASSUME KeyInv, [KeyNext]_keyVars
      PROVE  \A k \in Kids :
                HasState(rows[k], "Active") /\ HasState(rows'[k], "Retired")
                    => now >= rows[k].activated_at + RotationPeriod
  <2> SUFFICES ASSUME NEW k \in Kids, HasState(rows[k], "Active"), HasState(rows'[k], "Retired")
               PROVE  now >= rows[k].activated_at + RotationPeriod
    OBVIOUS
  <2>1. rows'[k] # rows[k]
    BY DEF HasState
  <2>2. PICK p \in Processes : Commits(p, k)
    BY <1>1, <2>1, RowChange
  <2>3. rows[k].activated_at \in Nat /\ began[p] \in Nat /\ began[p] <= now /\ now \in Nat
    BY <1>1, <2>2 DEF KeyInv, KeyTypes, TxnInv, Commits, Row, HasState
  <2>4. began[p] >= rows[k].activated_at + RotationPeriod
    BY <2>2 DEF Commits, Allowed, HasState
  <2> QED
    BY <2>3, <2>4, PeriodAssumption
<1>2. KeyInv /\ [KeyNext]_keyVars => KeyInv'
  BY KeyStepInv
<1> QED
  BY <1>1, <1>2, KeyInitInv, PTL DEF KeySpec, NoEarlyRotation

\* Whoever waits, waits for a transaction that holds a row.
LEMMA WaitsForHolder ==
    ASSUME KeyInv, NEW p \in Processes, Waits(p)
    PROVE  \E q \in Others(p) : locks[q] # {}
BY DEF Waits, CanLock, MustWait

\* A transaction that holds a row and waits touches the index of the active
\* key: a rotation always does, a revocation does when it replaces the key.
LEMMA WaitingHolder ==
    ASSUME KeyInv, NEW p \in Processes, Waits(p), locks[p] # {}
    PROVE  Open(p) /\ Touches(p, "Active")
<1>1. pc[p] \in Places /\ locks[p] \subseteq Kids /\ Stage(p)
  BY DEF KeyInv, KeyTypes, TxnInv
<1>2. pc[p] \notin {"idle", "active", "revoke"}
  BY <1>1 DEF Stage
<1>3. CASE pc[p] \in {"next_due", "next_fresh", "was_active", "replacement", "promote"}
  <2>1. \E s : HeldActive(p, s)
    BY <1>1, <1>3 DEF Stage
  <2> QED
    BY <1>3, <2>1 DEF HeldActive, Touches, Open
<1>4. CASE pc[p] = "commit"
  <2>1. p \notin Revokers
    <3>1. Puts(p) = <<>>
      BY <1>4 DEF Puts
    <3>2. ~MustWait(p, Puts(p))
      BY <3>1 DEF MustWait, Written
    <3> QED
      BY <1>4, <3>2, ProcessAssumption DEF Waits, Locking
  <2> QED
    BY <1>1, <1>4, <2>1 DEF Stage, Touches, Open
<1> QED
  BY <1>1, <1>2, <1>3, <1>4 DEF Places

\* NoDeadlock, for any number of rotations and revocations: the locks are
\* taken behind the index entry of the active key, so two transactions never
\* wait for each other, and the one that holds the entry goes on.
THEOREM NoWaitingCircle == KeySpec => []NoDeadlock
<1>1. KeyInv => NoDeadlock
  <2> SUFFICES ASSUME KeyInv, NEW p \in Processes, Open(p), \A q \in Processes : Open(q) => Waits(q)
               PROVE  FALSE
    BY DEF NoDeadlock
  <2>1. PICK q \in Processes : locks[q] # {}
    BY WaitsForHolder DEF Others
  <2>2. ASSUME NEW r \in Processes, locks[r] # {} PROVE Waits(r)
    BY <2>2 DEF KeyInv, TxnInv, Stage, Open
  <2>3. PICK r \in Others(q) : locks[r] # {}
    BY <2>1, <2>2, WaitsForHolder
  <2>4. Touches(q, "Active") /\ Touches(r, "Active") /\ r \in Processes /\ r # q
    BY <2>1, <2>2, <2>3, WaitingHolder DEF Others
  <2> QED
    BY <2>4 DEF KeyInv, Apart, Indexed
<1>2. KeyInv /\ [KeyNext]_keyVars => KeyInv'
  BY KeyStepInv
<1> QED
  BY <1>1, <1>2, KeyInitInv, PTL DEF KeySpec

-----------------------------------------------------------------------------
(***************************************************************************)
(* Tenant tokens and sessions.                                             *)
(***************************************************************************)
TokenTypes == token \in [Tokens -> [kid : Kids, read_at : Nat, ts : Nat \cup {None}] \cup {None}]

\* A token is signed soon after its key is read.
SignedSoon(t) ==
    /\ token[t].read_at <= now
    /\ token[t].ts = None => now <= token[t].read_at + TxnTime
    /\ token[t].ts # None => token[t].ts <= token[t].read_at + TxnTime

\* Until the token has left its window, its key was not retired before a
\* transaction that was open when the key was read.
KeyKept(t) ==
    LET k == token[t].kid
    IN  \/ now > token[t].read_at + TxnTime + TokenWindow
        \/ HasState(rows[k], "Active") \/ HasState(rows[k], "Revoked")
        \/ HasState(rows[k], "Retired") /\ rows[k].retired_at + TxnTime >= token[t].read_at

TokenInv == TokenTypes /\ \A t \in Tokens : token[t] # None => SignedSoon(t) /\ KeyKept(t)

LEMMA AuthIsKey ==
    ASSUME [AuthNext]_authVars
    PROVE  [KeyNext]_keyVars
BY DEF AuthNext, KeyStep, KeyNext, authVars, tokenVars,
       ReadSigningKey, SignToken, Authorize, CheckTenant, CommitSession, RollbackSession

(***************************************************************************)
(* Generating, verifying and spending tokens is a stutter of the key       *)
(* manager, so that what is proved of KeySpec holds beside the tokens.     *)
(***************************************************************************)
THEOREM TokensLeaveKeysAlone == AuthSpec => KeySpec
<1>1. AuthInit => KeyInit
  BY DEF AuthInit
<1>2. [AuthNext]_authVars => [KeyNext]_keyVars
  BY AuthIsKey
<1> QED
  BY <1>1, <1>2, PTL DEF AuthSpec, KeySpec

\* The clock only moves when every generator is prompt.
LEMMA ClockIsPrompt ==
    ASSUME KeyInv, [AuthNext]_authVars, now' # now
    PROVE  now' = now + 1 /\ Prompt /\ UNCHANGED <<rows, tokenVars>>
<1>1. ASSUME NEW p \in Processes, Abort(p) \/ RotateNext(p) \/ RevokeNext(p) PROVE now' = now
  BY <1>1 DEF Abort, RotateNext, RevokeNext, RotateBegin, RotateActive, RotatePromote, RotateEnsureNext, RotateCommit,
              RevokeBegin, Revoke, RevokeSelectActive, RevokeReplacement, RevokePromote, RevokeCommit
<1>2. Prompt /\ Tick /\ UNCHANGED tokenVars
  BY <1>1 DEF AuthNext, KeyStep, Processes, authVars, keyVars,
              ReadSigningKey, SignToken, Authorize, CheckTenant, CommitSession, RollbackSession
<1> QED
  BY <1>2 DEF Tick

\* No step of the key manager loses the key of a token in its window.
LEMMA KeyStaysKept ==
    ASSUME KeyInv, TokenInv, [AuthNext]_authVars, UNCHANGED token,
           NEW t \in Tokens, token[t] # None
    PROVE  SignedSoon(t)' /\ KeyKept(t)'
<1> DEFINE k == token[t].kid
<1>0. /\ k \in Kids /\ token[t].read_at \in Nat /\ now \in Nat /\ token[t].ts \in Nat \cup {None}
      /\ SignedSoon(t) /\ KeyKept(t) /\ rows[k] \in Row \cup {None}
  BY DEF TokenInv, TokenTypes, KeyInv, KeyTypes
<1>1. CASE now' # now
  <2>1. now' = now + 1 /\ rows' = rows /\ (token[t].ts = None => now < token[t].read_at + TxnTime)
    BY <1>1, ClockIsPrompt DEF Prompt
  <2>2. SignedSoon(t)'
    BY <1>0, <2>1, KeyAssumption DEF SignedSoon
  <2>3. KeyKept(t)'
    BY <1>0, <2>1, KeyAssumption, WindowAssumption DEF KeyKept
  <2> QED
    BY <2>2, <2>3
<1>2. CASE now' = now /\ rows'[k] = rows[k]
  BY <1>0, <1>2 DEF SignedSoon, KeyKept
<1>3. CASE now' = now /\ rows'[k] # rows[k]
  <2>1. PICK p \in Processes : Commits(p, k)
    BY <1>0, <1>3, AuthIsKey, RowChange
  <2>2. began[p] \in Nat /\ began[p] <= now /\ now <= began[p] + TxnTime
    BY <2>1 DEF Commits, KeyInv, KeyTypes, TxnInv
  <2>3. CASE Allowed(rows[k], rows'[k], began[p])
    <3>1. ASSUME rows'[k].state = "Retired" PROVE KeyKept(t)'
      <4>1. rows'[k].retired_at = began[p] /\ HasState(rows'[k], "Retired")
        BY <2>3, <3>1 DEF Allowed, HasState
      <4>2. began[p] + TxnTime >= token[t].read_at
        BY <1>0, <2>2, KeyAssumption DEF SignedSoon
      <4> QED
        BY <4>1, <4>2 DEF KeyKept
    <3>2. ASSUME rows'[k].state # "Retired" PROVE KeyKept(t)'
      <4>1. CASE now > token[t].read_at + TxnTime + TokenWindow
        BY <1>3, <4>1 DEF KeyKept
      <4>2. CASE HasState(rows[k], "Active") \/ HasState(rows[k], "Revoked") \/ HasState(rows[k], "Retired")
        <5>1. HasState(rows'[k], "Active") \/ HasState(rows'[k], "Revoked")
          BY <2>3, <3>2, <4>2 DEF Allowed, HasState
        <5> QED
          BY <5>1 DEF KeyKept
      <4> QED
        BY <1>0, <4>1, <4>2 DEF KeyKept
    <3>3. SignedSoon(t)'
      BY <1>0, <1>3 DEF SignedSoon
    <3> QED
      BY <3>1, <3>2, <3>3
  <2>4. CASE HasState(View(p)[k], "Retired") /\ View(p)[k].retired_at < began[p] - RetireWindow
    <3>1. k \notin locks[p]
      <4>1. ASSUME k \in locks[p] PROVE FALSE
        <5>1. View(p)[k].retired_at = began[p]
          BY <1>0, <2>4, <4>1 DEF View, HasState, KeyInv, TxnInv, Allowed
        <5> QED
          BY <2>2, <2>4, <5>1, PeriodAssumption
      <4> QED
        BY <4>1
    <3>2. HasState(rows[k], "Retired") /\ rows[k].retired_at < began[p] - RetireWindow
      BY <1>0, <2>4, <3>1 DEF View
    <3>3. rows[k].retired_at \in Nat
      BY <1>0, <3>2 DEF HasState, Row
    <3>4. now > token[t].read_at + TxnTime + TokenWindow
      <4>1. CASE rows[k].retired_at + TxnTime >= token[t].read_at
        BY <1>0, <2>2, <3>2, <3>3, <4>1, KeyAssumption, WindowAssumption, PeriodAssumption
      <4> QED
        BY <1>0, <3>2, <4>1 DEF KeyKept, HasState
    <3> QED
      BY <1>0, <1>3, <3>4 DEF SignedSoon, KeyKept
  <2> QED
    BY <2>1, <2>3, <2>4 DEF Commits
<1> QED
  BY <1>1, <1>2, <1>3

LEMMA TokenStepInv ==
    ASSUME KeyInv, TokenInv, [AuthNext]_authVars
    PROVE  TokenInv'
<1>1. CASE UNCHANGED token
  BY <1>1, KeyStaysKept DEF TokenInv, TokenTypes
<1>2. ASSUME NEW t \in Tokens, ReadSigningKey(t) \/ SignToken(t) PROVE TokenInv'
  <2>0. UNCHANGED <<now, rows>> /\ now \in Nat
    BY <1>2 DEF ReadSigningKey, SignToken, keyVars, KeyInv, KeyTypes
  <2>1. \A u \in Tokens \ {t} : token'[u] = token[u]
    BY <1>2 DEF ReadSigningKey, SignToken, TokenInv, TokenTypes
  <2>2. \A u \in Tokens \ {t} : token'[u] # None => SignedSoon(u)' /\ KeyKept(u)'
    BY <2>0, <2>1 DEF TokenInv, SignedSoon, KeyKept
  <2>3. CASE ReadSigningKey(t)
    <3>1. PICK k \in InState("Active") :
            token' = [token EXCEPT ![t] = [kid |-> k, read_at |-> now, ts |-> None]]
      BY <2>3 DEF ReadSigningKey
    <3>2. k \in Kids /\ HasState(rows[k], "Active")
      BY DEF InState
    <3>3. token'[t] = [kid |-> k, read_at |-> now, ts |-> None] /\ TokenTypes'
      BY <2>0, <3>1, <3>2 DEF TokenInv, TokenTypes
    <3>4. SignedSoon(t)' /\ KeyKept(t)'
      BY <2>0, <3>2, <3>3, KeyAssumption DEF SignedSoon, KeyKept
    <3> QED
      BY <2>2, <3>3, <3>4 DEF TokenInv
  <2>4. CASE SignToken(t)
    <3>1. token[t] # None /\ token[t].ts = None /\ token' = [token EXCEPT ![t].ts = now]
      BY <2>4 DEF SignToken
    <3>2. /\ TokenTypes' /\ token'[t].kid = token[t].kid
          /\ token'[t].read_at = token[t].read_at /\ token'[t].ts = now
      BY <2>0, <3>1 DEF TokenInv, TokenTypes
    <3>3. SignedSoon(t)' /\ KeyKept(t)'
      <4>1. SignedSoon(t) /\ KeyKept(t) /\ now # None
        BY <2>0, <3>1, NoneAssumption DEF TokenInv
      <4> QED
        BY <2>0, <3>1, <3>2, <4>1 DEF SignedSoon, KeyKept
    <3> QED
      BY <2>2, <3>2, <3>3 DEF TokenInv
  <2> QED
    BY <1>2, <2>3, <2>4
<1>3. ASSUME ~UNCHANGED token PROVE \E t \in Tokens : ReadSigningKey(t) \/ SignToken(t)
  BY <1>3 DEF AuthNext, KeyStep, authVars, tokenVars, Authorize, CheckTenant, CommitSession, RollbackSession
<1> QED
  BY <1>1, <1>2, <1>3

(***************************************************************************)
(* However many instances rotate and revoke while however many tokens are  *)
(* generated: until its key is revoked, authorize_tenant accepts the key   *)
(* of every token that is in its window.                                   *)
(***************************************************************************)
THEOREM RotationSparesTokens == AuthSpec => []OutstandingTokenVerifies
<1>1. KeyInv /\ TokenInv => OutstandingTokenVerifies
  <2> SUFFICES ASSUME KeyInv, TokenInv, NEW t \in Tokens, Signed(t), InWindow(t)
               PROVE  KeyAccepted(token[t].kid) \/ HasState(rows[token[t].kid], "Revoked")
    BY DEF OutstandingTokenVerifies
  <2> DEFINE k == token[t].kid
  <2>1. /\ token[t] # None /\ k \in Kids /\ token[t].read_at \in Nat /\ token[t].ts \in Nat /\ now \in Nat
        /\ SignedSoon(t) /\ KeyKept(t) /\ rows[k] \in Row \cup {None}
    BY DEF Signed, TokenInv, TokenTypes, KeyInv, KeyTypes
  <2>2. now <= token[t].read_at + TxnTime + TokenWindow
    BY <2>1, NoneAssumption, KeyAssumption, WindowAssumption DEF InWindow, SignedSoon
  <2>3. CASE HasState(rows[k], "Retired") /\ rows[k].retired_at + TxnTime >= token[t].read_at
    <3>1. rows[k].retired_at \in Nat
      BY <2>1, <2>3 DEF HasState, Row
    <3>2. rows[k].retired_at > now - RetireWindow
      BY <2>1, <2>2, <2>3, <3>1, KeyAssumption, WindowAssumption, PeriodAssumption
    <3> QED
      BY <2>3, <3>2 DEF KeyAccepted, HasState
  <2> QED
    BY <2>1, <2>2, <2>3, KeyAssumption, WindowAssumption DEF KeyKept, KeyAccepted, HasState
<1>2. AuthInit => KeyInv /\ TokenInv
  BY KeyInitInv DEF AuthInit, TokenInv, TokenTypes
<1>3. KeyInv /\ TokenInv /\ [AuthNext]_authVars => KeyInv' /\ TokenInv'
  BY AuthIsKey, KeyStepInv, TokenStepInv
<1> QED
  BY <1>1, <1>2, <1>3, PTL DEF AuthSpec

-----------------------------------------------------------------------------
\* A nonce is held by one open transaction at most and not yet spent; a
\* transaction that runs the closure is of the token's tenant.
SpentInv ==
    /\ session \in [Sessions -> [token : Tokens, scoped : BOOLEAN] \cup {None}]
    /\ commits = [t \in Tokens |-> commits[t]]
    /\ \A s \in Sessions : session[s] # None =>
          /\ session[s].token \notin nonces
          /\ session[s].scoped => TenantAgrees(s, session[s].token)
    /\ \A s, o \in Sessions, t \in Tokens : Holds(s, t) /\ Holds(o, t) => s = o
    /\ SpentOnceByItsTenant

(***************************************************************************)
(* For any number of tokens and of concurrent with_tenant_tx calls: a      *)
(* token's nonce is spent by one committed transaction of its own tenant,  *)
(* and by nothing else.                                                    *)
(***************************************************************************)
THEOREM TokenSpentOnce == AuthSpec => []SpentOnceByItsTenant
<1>1. AuthInit => SpentInv
  BY DEF AuthInit, SpentInv, SpentOnceByItsTenant, Holds
<1>2. SpentInv /\ [AuthNext]_authVars => SpentInv'
  <2> SUFFICES ASSUME SpentInv, [AuthNext]_authVars PROVE SpentInv'
    OBVIOUS
  <2> USE TokenAssumption DEF SpentInv, SpentOnceByItsTenant, Holds, TenantAgrees
  <2>1. CASE UNCHANGED <<nonces, session, commits>>
    BY <2>1
  <2>2. ASSUME NEW s \in Sessions, NEW t \in Tokens, Authorize(s, t) PROVE SpentInv'
    BY <2>2 DEF Authorize, NonceFree
  <2>3. ASSUME NEW s \in Sessions, CheckTenant(s) PROVE SpentInv'
    <3>1. session[s] \in [token : Tokens, scoped : BOOLEAN] /\ session[s] # None
      BY <2>3 DEF CheckTenant
    <3>2. PICK v \in [token : Tokens, scoped : BOOLEAN] \cup {None} :
             /\ session' = [session EXCEPT ![s] = v] /\ UNCHANGED <<nonces, commits>>
             /\ v # None => v.token = session[s].token /\ TenantAgrees(s, v.token)
      <4>1. [session[s] EXCEPT !.scoped = TRUE] \in [token : Tokens, scoped : BOOLEAN]
              /\ [session[s] EXCEPT !.scoped = TRUE].token = session[s].token
        BY <3>1
      <4> QED
        BY <2>3, <4>1 DEF CheckTenant
    <3> QED
      BY <3>1, <3>2
  <2>4. ASSUME NEW s \in Sessions, CommitSession(s) PROVE SpentInv'
    <3> DEFINE t == session[s].token
    <3>1. /\ session[s] # None /\ t \in Tokens /\ t \notin nonces /\ TokenTenant[t] = SessionTenant[s]
          /\ nonces' = nonces \cup {t} /\ session' = [session EXCEPT ![s] = None]
          /\ commits' = [commits EXCEPT ![t] = Append(@, SessionTenant[s])]
      BY <2>4 DEF CommitSession
    <3>2. commits[t] = <<>>
      BY <3>1
    <3>3. Append(commits[t], SessionTenant[s]) = <<TokenTenant[t]>> /\ <<TokenTenant[t]>> # <<>>
      <4>1. \A x : Append(<<>>, x) = <<x>> /\ <<x>> # <<>>
        OBVIOUS
      <4> HIDE DEF t
      <4> QED
        BY <3>1, <3>2, <4>1
    <3>4. commits' = [u \in Tokens |-> IF u = t THEN <<TokenTenant[t]>> ELSE commits[u]]
      BY <3>1, <3>3
    <3>5. SpentOnceByItsTenant' /\ commits' = [u \in Tokens |-> commits'[u]]
      BY <3>1, <3>3, <3>4
    <3>6. \A o \in Sessions \ {s} : session[o] # None => session[o].token # t
      BY <3>1
    <3> QED
      BY <3>1, <3>5, <3>6
  <2>5. ASSUME NEW s \in Sessions, RollbackSession(s) PROVE SpentInv'
    BY <2>5 DEF RollbackSession
  <2>6. UNCHANGED <<nonces, session, commits>> \/ \E s \in Sessions :
           CheckTenant(s) \/ CommitSession(s) \/ RollbackSession(s) \/ \E t \in Tokens : Authorize(s, t)
    BY DEF AuthNext, authVars, tokenVars, ReadSigningKey, SignToken
  <2> QED
    BY <2>1, <2>2, <2>3, <2>4, <2>5, <2>6
<1>3. SpentInv => SpentOnceByItsTenant
  BY DEF SpentInv
<1> QED
  BY <1>1, <1>2, <1>3, PTL DEF AuthSpec

-----------------------------------------------------------------------------
(***************************************************************************)
(* PASETO kids: the inductive invariant of the nodes and of one            *)
(* verification.                                                           *)
(***************************************************************************)
Requests ==
    [node : Nodes, kid : KeyIds, at : {"overlay", "signature", "accepted"}, known : BOOLEAN]

KidTypes ==
    /\ config \in Keysets
    /\ env \in [Nodes -> Keysets]
    /\ overlay \in [Nodes -> SUBSET KeyIds]
    /\ saturated \in [Nodes -> BOOLEAN]
    /\ told \in [Nodes -> SUBSET KeyIds]
    /\ listener \in [Nodes -> {"seed", "connect", "subscribed", "down"}]
    /\ inbox \in [Nodes -> Seq(KeyIds)]
    /\ request \in Requests \cup {NoRequest}

\* BoundedRevokedKids holds no more than MAX_DYNAMIC_REVOKED_KIDS kids, and
\* until the node fails closed every kid it was told of is in one of its lists.
OverlayHolds(n) ==
    /\ Cardinality(overlay[n]) <= MaxEntries
    /\ ~saturated[n] => told[n] \subseteq env[n].revoked \cup overlay[n]

\* A verification of a kid its node was told of stops at the overlay, which
\* cannot be emptied under it.
RequestHeld ==
    request # NoRequest =>
        /\ listener[request.node] # "down"
        /\ request.known => request.at = "overlay" /\ request.kid \in overlay[request.node]

KidInv == KidTypes /\ (\A n \in Nodes : OverlayHolds(n)) /\ RequestHeld

-----------------------------------------------------------------------------
(***************************************************************************)
(* Every set of kids is finite.                                            *)
(***************************************************************************)
LEMMA KidSetsFinite ==
    ASSUME NEW S \in SUBSET KeyIds
    PROVE  IsFiniteSet(S) /\ Cardinality(S) \in Nat
BY KidsAssumption, FS_Subset, FS_CardinalityType

\* What Insert does to a node: it forgets no kid, keeps the capacity, and a kid
\* it was told of and has no room for leaves the node saturated.
LEMMA InsertHolds ==
    ASSUME KidInv, NEW n \in Nodes, NEW K \in SUBSET KeyIds, Insert(n, K),
           UNCHANGED <<config, env, request>>,
           listener' \in [Nodes -> {"seed", "connect", "subscribed", "down"}],
           inbox' \in [Nodes -> Seq(KeyIds)],
           \A m \in Nodes : listener[m] # "down" => listener'[m] # "down"
    PROVE  KidInv'
<1> DEFINE kids == overlay[n] \cup (K \ Malformed)
<1> USE DEF KidInv, KidTypes
<1>1. kids \in SUBSET KeyIds /\ IsFiniteSet(kids) /\ Cardinality(kids) \in Nat
  BY KidSetsFinite
<1>2. told' = [told EXCEPT ![n] = @ \cup (K \ Malformed)]
  BY DEF Insert
<1>3. CASE saturated[n]
  <2>1. UNCHANGED <<overlay, saturated>>
    BY <1>3 DEF Insert
  <2>2. KidTypes'
    BY <1>2, <2>1
  <2>3. \A m \in Nodes : OverlayHolds(m)'
    BY <1>2, <1>3, <2>1 DEF OverlayHolds
  <2>4. RequestHeld'
    BY <2>1 DEF RequestHeld, Requests
  <2> QED BY <2>2, <2>3, <2>4
<1>4. CASE ~saturated[n]
  <2>1. PICK kept \in SUBSET kids :
           /\ overlay[n] \subseteq kept
           /\ Cardinality(kept) <= MaxEntries
           /\ kept = kids \/ Cardinality(kept) = MaxEntries
           /\ overlay' = [overlay EXCEPT ![n] = kept]
    BY <1>4 DEF Insert
  <2>2. saturated' = [saturated EXCEPT ![n] = Cardinality(kids) > MaxEntries]
    BY <1>4 DEF Insert, Overflows
  <2>3. Cardinality(kids) <= MaxEntries => kept = kids
    <3>1. Cardinality(kept) <= Cardinality(kids) /\ (Cardinality(kids) = Cardinality(kept) => kids = kept)
      BY <1>1, FS_Subset
    <3>2. Cardinality(kept) \in Nat
      BY <1>1, KidSetsFinite
    <3> QED BY <1>1, <2>1, <3>1, <3>2, BoundsAssumption
  <2>4. KidTypes'
    BY <1>1, <1>2, <2>1, <2>2
  <2>5. \A m \in Nodes : OverlayHolds(m)'
    <3>1. OverlayHolds(n)'
      <4>1. Cardinality(overlay'[n]) <= MaxEntries
        BY <2>1
      <4>2. ~saturated'[n] => Cardinality(kids) <= MaxEntries
        <5> HIDE DEF kids
        <5>1. saturated'[n] = (Cardinality(kids) > MaxEntries)
          BY <2>2
        <5>2. Cardinality(kids) > MaxEntries \/ Cardinality(kids) <= MaxEntries
          BY <1>1, BoundsAssumption
        <5> QED BY <5>1, <5>2, Zenon
      <4>3. ~saturated'[n] => told'[n] \subseteq env[n].revoked \cup overlay'[n]
        BY <1>2, <1>4, <2>1, <2>3, <4>2 DEF OverlayHolds
      <4> QED BY <4>1, <4>3 DEF OverlayHolds
    <3>2. \A m \in Nodes \ {n} : OverlayHolds(m)'
      BY <1>2, <2>1, <2>2 DEF OverlayHolds
    <3> QED BY <3>1, <3>2
  <2>6. RequestHeld'
    BY <2>1 DEF RequestHeld, Requests
  <2> QED BY <2>4, <2>5, <2>6
<1> QED BY <1>3, <1>4

\* A step that leaves the processes alone and changes the messages or the
\* configuration only.
LEMMA NodesKept ==
    ASSUME KidInv, UNCHANGED <<env, nodeVars, request>>, config' \in Keysets,
           listener' \in [Nodes -> {"seed", "connect", "subscribed", "down"}],
           inbox' \in [Nodes -> Seq(KeyIds)],
           \A m \in Nodes : listener[m] # "down" => listener'[m] # "down"
    PROVE  KidInv'
<1> USE DEF KidInv, KidTypes, nodeVars
<1>1. KidTypes'
  OBVIOUS
<1>2. \A n \in Nodes : OverlayHolds(n)'
  BY DEF OverlayHolds
<1>3. RequestHeld'
  BY DEF RequestHeld, Requests
<1> QED BY <1>1, <1>2, <1>3

\* A step of a verification.
LEMMA ProcessesKept ==
    ASSUME KidInv, UNCHANGED <<config, env, nodeVars, listener, inbox>>,
           request' \in Requests \cup {NoRequest}, RequestHeld'
    PROVE  KidInv'
BY DEF KidInv, KidTypes, nodeVars, OverlayHolds

LEMMA KidInitInv == KidInit => KidInv
<1> SUFFICES ASSUME KidInit PROVE KidInv
  OBVIOUS
<1>1. KidTypes
  BY DEF KidInit, KidTypes
<1>2. \A n \in Nodes : OverlayHolds(n)
  BY FS_EmptySet, BoundsAssumption DEF KidInit, OverlayHolds
<1> QED BY <1>1, <1>2 DEF KidInit, KidInv, RequestHeld

LEMMA KidNextInv == KidInv /\ [KidNext]_kidVars => KidInv'
<1> SUFFICES ASSUME KidInv, [KidNext]_kidVars PROVE KidInv'
  OBVIOUS
<1> USE DEF KidInv, KidTypes
<1>0. \A n \in Nodes : env[n].revoked \in SUBSET KeyIds /\ config.revoked \in SUBSET KeyIds
  BY KeysetsAssumption
<1>1. ASSUME NEW n \in Nodes, Seed(n) PROVE KidInv'
  BY <1>0, <1>1, InsertHolds DEF Seed
<1>2. ASSUME NEW n \in Nodes, PollEnv(n) PROVE KidInv'
  BY <1>0, <1>2, InsertHolds DEF PollEnv
<1>3. ASSUME NEW n \in Nodes, Receive(n) PROVE KidInv'
  <2>1. {Head(inbox[n])} \in SUBSET KeyIds /\ Tail(inbox[n]) \in Seq(KeyIds)
    BY <1>3 DEF Receive
  <2>2. inbox' \in [Nodes -> Seq(KeyIds)]
    BY <1>3, <2>1 DEF Receive
  <2> QED BY <1>3, <2>1, <2>2, InsertHolds DEF Receive
<1>4. ASSUME NEW n \in Nodes, Subscribe(n) PROVE KidInv'
  BY <1>4, NodesKept DEF Subscribe
<1>5. ASSUME NEW n \in Nodes, Disconnect(n) PROVE KidInv'
  <2>1. inbox' \in [Nodes -> Seq(KeyIds)]
    BY <1>5 DEF Disconnect
  <2> QED BY <1>5, <2>1, NodesKept DEF Disconnect
<1>6. ASSUME NEW k \in KeyIds, Announce(k) PROVE KidInv'
  <2>1. inbox' \in [Nodes -> Seq(KeyIds)]
    BY <1>6 DEF Announce
  <2> QED BY <1>6, <2>1, NodesKept DEF Announce
<1>7. CASE Reconfigure
  BY <1>7, NodesKept DEF Reconfigure
<1>8. ASSUME NEW n \in Nodes, Stop(n) PROVE KidInv'
  <2>1. KidTypes'
    BY <1>8 DEF Stop, nodeVars
  <2>2. \A m \in Nodes : OverlayHolds(m)'
    BY <1>8 DEF Stop, nodeVars, OverlayHolds
  <2>3. RequestHeld'
    BY <1>8 DEF Stop, nodeVars, RequestHeld, Requests
  <2> QED BY <2>1, <2>2, <2>3
<1>9. ASSUME NEW n \in Nodes, Start(n) PROVE KidInv'
  <2>1. KidTypes'
    BY <1>0, <1>9 DEF Start
  <2>2. OverlayHolds(n)'
    BY <1>9, FS_EmptySet, BoundsAssumption DEF Start, OverlayHolds
  <2>3. \A m \in Nodes \ {n} : OverlayHolds(m)'
    BY <1>9 DEF Start, OverlayHolds
  <2>4. RequestHeld'
    <3>1. request # NoRequest => request.node \in Nodes \ {n}
      BY <1>9 DEF Start, RequestHeld, Requests
    <3> QED BY <1>9, <3>1 DEF Start, RequestHeld
  <2> QED BY <2>1, <2>2, <2>3, <2>4
<1>10. ASSUME NEW n \in Nodes, NEW k \in KeyIds, Authenticate(n, k) PROVE KidInv'
  <2>1. request' = [node |-> n, kid |-> k, at |-> "overlay", known |-> k \in told[n]]
    BY <1>10 DEF Authenticate
  <2>2. k \in told[n] => k \in overlay[n]
    BY <1>10 DEF Authenticate, FailsClosed, TokenKidAllowed, OverlayHolds
  <2>3. request' \in Requests
    BY <2>1 DEF Requests
  <2>4. RequestHeld'
    <3>1. request'.node = n /\ request'.kid = k /\ request'.at = "overlay"
      BY <2>1
    <3>2. request'.known = (k \in told[n])
      BY <2>1, Zenon
    <3>3. listener'[n] # "down" /\ overlay' = overlay
      BY <1>10 DEF Authenticate, nodeVars
    <3> QED BY <2>2, <3>1, <3>2, <3>3, Zenon DEF RequestHeld
  <2> QED BY <1>10, <2>3, <2>4, ProcessesKept DEF Authenticate
<1>11. CASE VerifyOverlay
  <2>1. request \in Requests
    BY <1>11 DEF VerifyOverlay
  <2>2. request' \in Requests \cup {NoRequest}
    BY <1>11, <2>1 DEF VerifyOverlay, Requests
  <2>3. RequestHeld'
    BY <1>11, <2>1 DEF VerifyOverlay, RequestHeld, Requests, nodeVars
  <2> QED BY <1>11, <2>2, <2>3, ProcessesKept DEF VerifyOverlay
<1>12. CASE VerifyToken
  <2>1. request \in Requests
    BY <1>12 DEF VerifyToken
  <2>2. request' \in Requests \cup {NoRequest}
    BY <1>12, <2>1 DEF VerifyToken, Requests
  <2>3. RequestHeld'
    BY <1>12, <2>1 DEF VerifyToken, RequestHeld, Requests, nodeVars
  <2> QED BY <1>12, <2>2, <2>3, ProcessesKept DEF VerifyToken
<1>13. CASE Respond
  BY <1>13, ProcessesKept DEF Respond, RequestHeld
<1>14. CASE UNCHANGED kidVars
  BY <1>14, ProcessesKept DEF kidVars, RequestHeld, nodeVars
<1> QED BY <1>1, <1>2, <1>3, <1>4, <1>5, <1>6, <1>7, <1>8, <1>9, <1>10, <1>11, <1>12, <1>13,
       <1>14 DEF KidNext, ListenerStep

(***************************************************************************)
(* A verification that begins after its process was told of a revocation   *)
(* never accepts the kid.                                                  *)
(***************************************************************************)
THEOREM RevocationEnforced == KidSpec => []RevokedIsRejected
<1>1. KidInv => RevokedIsRejected
  BY DEF KidInv, RequestHeld, RevokedIsRejected
<1> QED BY KidInitInv, KidNextInv, <1>1, PTL DEF KidSpec
=============================================================================
