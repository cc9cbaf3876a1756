---------------------------- MODULE ModuleProofs ----------------------------
(***************************************************************************)
(* Modules, from the registry that keeps them to the sandboxes that run    *)
(* them.  For every set of processes, trust roots, manifests and artifacts *)
(* what a process returns is what a usable key of its trust root signed,   *)
(* and what it installs is what that signature covers.  For every number   *)
(* of calls and permits, every limit and every allowlist, isolates are     *)
(* bounded by permits, a script that was cut short is reported under its   *)
(* limit, a watchdog of Wasm never times out a call but its own, the       *)
(* allowlist's index agrees with what its entries mean, and no connection  *)
(* leaves it.                                                              *)
(***************************************************************************)
EXTENDS Registry, DenoSandbox, WasmSandbox, SandboxFetch, FiniteSetTheorems, TLAPS

-----------------------------------------------------------------------------
(***************************************************************************)
(* The registry.                                                           *)
(***************************************************************************)

(***************************************************************************)
(* save_manifest and verification change nothing of a manifest but its     *)
(* digest.                                                                 *)
(***************************************************************************)
LEMMA PersistedFields ==
    ASSUME NEW m \in Manifest
    PROVE  /\ Persisted(m) \in Manifest
           /\ Persisted(m).id = m.id /\ Persisted(m).version = m.version
<1>1. manifest_payload_digest(m) \in Payload
  BY SpellingAssumption DEF manifest_payload_digest, Payload, Manifest
<1>2. [of |-> manifest_payload_digest(m), prefixed |-> TRUE] \in [of : Payload, prefixed : BOOLEAN]
  BY <1>1
<1> QED BY <1>2 DEF Persisted, Manifest

LEMMA CanonicalFields ==
    ASSUME NEW m \in Manifest, m.digest # Empty
    PROVE  /\ Canonical(m) \in Manifest
           /\ Canonical(m).id = m.id /\ Canonical(m).version = m.version
           /\ Canonical(m).content = m.content /\ Canonical(m).kid = m.kid
           /\ Canonical(m).signature = m.signature
           /\ m \in Foreign => Canonical(m) \in Foreign
<1>1. m.digest \in [of : Payload, prefixed : BOOLEAN]
  BY DEF Manifest
<1>2. [m.digest EXCEPT !.prefixed = TRUE] \in [of : Payload, prefixed : BOOLEAN]
  BY <1>1
<1>3. Canonical(m) = [m EXCEPT !.digest = [m.digest EXCEPT !.prefixed = TRUE]]
  BY DEF Canonical, Manifest
<1>4. m \in Foreign => Canonical(m) \in Foreign
  BY ForeignAssumption DEF Canonical
<1> QED BY <1>2, <1>3, <1>4 DEF Manifest

(***************************************************************************)
(* What verify_and_canonicalize_manifest has established when it returns.  *)
(***************************************************************************)
LEMMA VerifiedFields ==
    ASSUME NEW p, NEW m \in Manifest, Verifies(p, m)
    PROVE  /\ m.digest # Empty /\ m.signature # Empty /\ m.kid \in Kids
           /\ m.signature.by = m.kid
           /\ m.signature.over = <<m.id, m.version, Spelling[m.content]>>
           /\ Key(p, m.kid) # Empty /\ KeyStatusKnown(Key(p, m.kid))
<1>1. m.kid \in Kids
  BY DEF Verifies, Manifest
<1>2. m.digest # Empty /\ m.digest.of = <<m.id, m.version, Spelling[m.content]>>
  BY DEF Verifies, DigestAgrees, manifest_payload_digest
<1>3. m.signature = [by |-> m.kid, over |-> m.digest.of] /\ m.signature # Empty
  BY DEF Verifies, verify_manifest
<1>4. Key(p, m.kid) # Empty /\ KeyStatusKnown(Key(p, m.kid))
  BY DEF Verifies, get_key_at
<1> QED BY <1>1, <1>2, <1>3, <1>4

-----------------------------------------------------------------------------
(***************************************************************************)
(* The inductive invariant.                                                *)
(***************************************************************************)
LEMMA RegistryInitInv == RegistryInit => RegistryInv
<1> SUFFICES ASSUME RegistryInit PROVE RegistryInv
  OBVIOUS
<1>1. RegistryTypeOK
  BY RootsAssumption DEF RegistryInit, RegistryTypeOK
<1> QED BY <1>1 DEF RegistryInit, RegistryInv, StoredAtItsPath, ReturnedUnderItsRoot,
       ReturnedIsSigned, InstalledIsSigned

\* What the trust root, the answers or the calls of a process say of it is kept by
\* the steps that leave these alone.
LEMMA AnswersKept ==
    ASSUME RegistryInv, RegistryTypeOK', UNCHANGED <<trust_root, answers>>,
           \A p \in Registries : op'[p] # Empty => op[p] # Empty
    PROVE  ReturnedUnderItsRoot' /\ ReturnedIsSigned' /\ InstalledIsSigned'
<1>1. ReturnedUnderItsRoot'
  BY DEF RegistryInv, ReturnedUnderItsRoot, answers, Key
<1>2. ReturnedIsSigned'
  BY DEF RegistryInv, ReturnedIsSigned, answers, Key
<1>3. InstalledIsSigned'
  BY DEF RegistryInv, InstalledIsSigned, answers
<1> QED BY <1>1, <1>2, <1>3

\* A call that is about another manifest, or the end of the process, forgets the
\* answers of the process.
LEMMA AnswersForgotten ==
    ASSUME RegistryInv, RegistryTypeOK', NEW p \in Registries, Forget(p),
           op'[p] # Empty => trust_root'[p] # 0,
           \A q \in Registries \ {p} : trust_root'[q] = trust_root[q] /\ op'[q] = op[q]
    PROVE  ReturnedUnderItsRoot' /\ ReturnedIsSigned' /\ InstalledIsSigned'
<1> USE DEF RegistryInv, RegistryTypeOK
<1>1. /\ returned'[p] = Empty /\ installed'[p] = Empty
      /\ \A q \in Registries \ {p} : returned'[q] = returned[q] /\ installed'[q] = installed[q]
  BY DEF Forget
<1>2. ReturnedUnderItsRoot'
  BY <1>1 DEF ReturnedUnderItsRoot, Key
<1>3. ReturnedIsSigned'
  BY <1>1 DEF ReturnedIsSigned, Key
<1>4. InstalledIsSigned'
  BY <1>1 DEF InstalledIsSigned
<1> QED BY <1>2, <1>3, <1>4

LEMMA RegistryNextInv == RegistryInv /\ [RegistryNext]_registryVars => RegistryInv'
<1> SUFFICES ASSUME RegistryInv, [RegistryNext]_registryVars PROVE RegistryInv'
  OBVIOUS
<1> USE DEF RegistryInv, RegistryTypeOK
<1>1. ASSUME NEW p \in Registries, Start(p) PROVE RegistryInv'
  <2>1. RegistryTypeOK'
    BY <1>1 DEF Start, bucket, answers
  <2>2. StoredAtItsPath'
    BY <1>1 DEF Start, StoredAtItsPath, bucket, AtItsPath
  <2>3. returned[p] = Empty /\ installed[p] = Empty
    BY <1>1 DEF Start, ReturnedUnderItsRoot
  <2>4. \A q \in Registries \ {p} : trust_root'[q] = trust_root[q]
    BY <1>1 DEF Start
  <2>5. ReturnedUnderItsRoot'
    BY <1>1, <2>3, <2>4 DEF Start, ReturnedUnderItsRoot, answers, Key
  <2>6. ReturnedIsSigned' /\ InstalledIsSigned'
    BY <1>1, <2>3, <2>4 DEF Start, ReturnedIsSigned, InstalledIsSigned, answers, Key
  <2> QED BY <2>1, <2>2, <2>5, <2>6
<1>2. ASSUME NEW p \in Registries, Stop(p) PROVE RegistryInv'
  <2>1. RegistryTypeOK'
    BY <1>2 DEF Stop, Do, Forget, bucket
  <2>2. StoredAtItsPath'
    BY <1>2 DEF Stop, Do, StoredAtItsPath, bucket, AtItsPath
  <2>3. /\ op'[p] = Empty
        /\ \A q \in Registries \ {p} : trust_root'[q] = trust_root[q] /\ op'[q] = op[q]
    BY <1>2 DEF Stop, Do
  <2> QED BY <1>2, <2>1, <2>2, <2>3, AnswersForgotten DEF Stop
<1>3. ASSUME NEW p \in Registries, NEW m \in Drafts, SaveManifest(p, m) PROVE RegistryInv'
  <2>1. Persisted(m) \in Manifest
    BY PersistedFields, ManifestAssumption
  <2>2. RegistryTypeOK'
    BY <1>3, <2>1 DEF SaveManifest, Do, Forget, bucket
  <2>3. StoredAtItsPath'
    BY <1>3 DEF SaveManifest, Do, StoredAtItsPath, bucket, AtItsPath
  <2>4. /\ trust_root'[p] # 0
        /\ \A q \in Registries \ {p} : trust_root'[q] = trust_root[q] /\ op'[q] = op[q]
    BY <1>3 DEF SaveManifest, Do, Idle
  <2> QED BY <1>3, <2>2, <2>3, <2>4, AnswersForgotten DEF SaveManifest
<1>4. ASSUME NEW p \in Registries, PutManifest(p) \/ PutManifestFails(p) PROVE RegistryInv'
  <2>1. op[p].m \in Manifest
    BY <1>4 DEF PutManifest, PutManifestFails
  <2>2. RegistryTypeOK'
    BY <1>4, <2>1 DEF PutManifest, PutManifestFails, Store, Do, bucket, answers
  <2>3. \A q \in Registries : op'[q] = op[q] \/ op'[q] = Empty
    BY <1>4 DEF PutManifest, PutManifestFails, Do
  <2>4. StoredAtItsPath'
    <3>1. \A path \in Paths : manifests'[path] # Empty => AtItsPath(manifests'[path], path)
      BY <1>4 DEF PutManifest, PutManifestFails, Store, StoredAtItsPath, AtItsPath
    <3> QED BY <2>3, <3>1 DEF StoredAtItsPath, AtItsPath
  <2> QED BY <1>4, <2>2, <2>3, <2>4, AnswersKept DEF PutManifest, PutManifestFails
<1>5. ASSUME NEW p \in Registries, NEW name \in Names, ReadManifest(p, name) PROVE RegistryInv'
  <2> DEFINE path == manifest_path(name[1], name[2])
  <2>1. path \in Paths
    BY DEF Paths
  <2>2. /\ manifests[path] # Empty /\ manifests[path] \in Manifest
        /\ Do(p, [call |-> "verify", m |-> manifests[path], name |-> name])
    BY <1>5, <2>1 DEF ReadManifest
  <2> HIDE DEF path
  <2>3. RegistryTypeOK'
    BY <1>5, <2>2 DEF ReadManifest, Do, Forget, bucket
  <2>4. /\ trust_root'[p] # 0
        /\ \A q \in Registries \ {p} : trust_root'[q] = trust_root[q] /\ op'[q] = op[q]
    BY <1>5, <2>2 DEF ReadManifest, Do, Idle
  <2>5. StoredAtItsPath'
    BY <1>5, <2>1, <2>2, <2>4 DEF ReadManifest, Do, StoredAtItsPath, AtItsPath, bucket, path
  <2> QED BY <1>5, <2>3, <2>4, <2>5, AnswersForgotten DEF ReadManifest
<1>6. ASSUME NEW p \in Registries, ReturnManifest(p) PROVE RegistryInv'
  <2> DEFINE m == op[p].m
  <2>1. m \in Manifest /\ op[p].name \in Names /\ op[p] # Empty /\ op[p].call = "verify"
    BY <1>6 DEF ReturnManifest
  <2>2. AtItsPath(m, manifest_path(op[p].name[1], op[p].name[2]))
    BY <2>1 DEF StoredAtItsPath
  <2>3. installed[p] = Empty /\ installed' = installed /\ trust_root' = trust_root
    BY <1>6, <2>1 DEF ReturnManifest, ReturnedUnderItsRoot
  <2>4. /\ op'[p] = Empty
        /\ \A q \in Registries \ {p} : op'[q] = op[q] /\ returned'[q] = returned[q]
    BY <1>6 DEF ReturnManifest, Do
  <2>5. CASE Verifies(p, m)
    <3>1. returned' = [returned EXCEPT ![p] = [m |-> Canonical(m), name |-> op[p].name]]
      BY <1>6, <2>5 DEF ReturnManifest
    <3>2. /\ m.digest # Empty /\ m.signature # Empty /\ m.kid \in Kids
          /\ m.signature.by = m.kid
          /\ m.signature.over = <<m.id, m.version, Spelling[m.content]>>
          /\ Key(p, m.kid) # Empty /\ KeyStatusKnown(Key(p, m.kid))
      BY <2>1, <2>5, VerifiedFields
    <3>3. /\ Canonical(m) \in Manifest
          /\ Canonical(m).id = m.id /\ Canonical(m).version = m.version
          /\ Canonical(m).content = m.content /\ Canonical(m).kid = m.kid
          /\ Canonical(m).signature = m.signature
          /\ m \in Foreign => Canonical(m) \in Foreign
      BY <2>1, <3>2, CanonicalFields
    <3>4. returned'[p].m = Canonical(m) /\ returned'[p].name = op[p].name
      BY <3>1
    <3> HIDE DEF m
    <3>5. RegistryTypeOK'
      BY <1>6, <2>1, <3>1, <3>3 DEF ReturnManifest, Do, bucket
    <3>6. StoredAtItsPath'
      BY <1>6, <2>4 DEF ReturnManifest, StoredAtItsPath, AtItsPath, bucket
    <3>7. ReturnedUnderItsRoot'
      <4>1. trust_root[p] # 0
        BY <2>1 DEF ReturnedUnderItsRoot
      <4> QED BY <2>3, <2>4, <3>2, <3>3, <3>4, <4>1 DEF ReturnedUnderItsRoot, Key
    <3>8. ReturnedIsSigned'
      BY <2>2, <2>3, <2>4, <3>2, <3>3, <3>4 DEF ReturnedIsSigned, Key, AtItsPath
    <3>9. InstalledIsSigned'
      BY <2>3, <2>4 DEF InstalledIsSigned
    <3> QED BY <3>5, <3>6, <3>7, <3>8, <3>9
  <2>6. CASE ~Verifies(p, m)
    <3>1. returned' = returned
      BY <1>6, <2>6 DEF ReturnManifest
    <3>2. RegistryTypeOK'
      BY <1>6, <3>1 DEF ReturnManifest, Do, bucket
    <3>3. StoredAtItsPath'
      BY <1>6, <2>4 DEF ReturnManifest, StoredAtItsPath, AtItsPath, bucket
    <3> QED BY <2>3, <2>4, <3>1, <3>2, <3>3, AnswersKept DEF answers
  <2> QED BY <2>5, <2>6
<1>7. ASSUME NEW p \in Registries, NEW a \in Artifacts, SaveArtifact(p, a) PROVE RegistryInv'
  <2>1. RegistryTypeOK' /\ StoredAtItsPath'
    BY <1>7 DEF SaveArtifact, answers, StoredAtItsPath, AtItsPath
  <2> QED BY <1>7, <2>1, AnswersKept DEF SaveArtifact
<1>8. ASSUME NEW p \in Registries, GetArtifact(p) PROVE RegistryInv'
  <2>1. RegistryTypeOK' /\ StoredAtItsPath'
    BY <1>8 DEF GetArtifact, bucket, StoredAtItsPath, AtItsPath
  <2>2. /\ returned[p] # Empty /\ op[p] = Empty
        /\ installed'[p] = Pin[Spelling[returned[p].m.content]]
        /\ \A q \in Registries \ {p} : installed'[q] = installed[q]
        /\ UNCHANGED <<trust_root, returned, op>>
    BY <1>8 DEF GetArtifact, Idle, Serves
  <2>3. ReturnedUnderItsRoot'
    BY <2>2 DEF ReturnedUnderItsRoot, Key
  <2>4. ReturnedIsSigned'
    BY <2>2 DEF ReturnedIsSigned, Key
  <2>5. returned[p].m.signature.over[3] = Spelling[returned[p].m.content]
    BY <2>2 DEF ReturnedIsSigned
  <2>6. InstalledIsSigned'
    BY <2>2, <2>5 DEF InstalledIsSigned
  <2> QED BY <2>1, <2>3, <2>4, <2>6
<1>9. CASE PublishTrustRoot
  <2>1. RegistryTypeOK' /\ StoredAtItsPath'
    BY <1>9, RootsAssumption DEF PublishTrustRoot, bucket, answers, StoredAtItsPath, AtItsPath
  <2> QED BY <1>9, <2>1, AnswersKept DEF PublishTrustRoot
<1>10. CASE ForeignWrite
  <2>1. RegistryTypeOK'
    BY <1>10, ManifestAssumption DEF ForeignWrite, answers
  <2>2. StoredAtItsPath'
    BY <1>10 DEF ForeignWrite, StoredAtItsPath, AtItsPath
  <2> QED BY <1>10, <2>1, <2>2, AnswersKept DEF ForeignWrite
<1>11. CASE Tick \/ UNCHANGED registryVars
  <2>1. RegistryTypeOK' /\ StoredAtItsPath' /\ UNCHANGED <<trust_root, answers, op>>
    BY <1>11 DEF Tick, registryVars, bucket, answers, StoredAtItsPath, AtItsPath
  <2> QED BY <2>1, AnswersKept
<1> QED BY <1>1, <1>2, <1>3, <1>4, <1>5, <1>6, <1>7, <1>8, <1>9, <1>10, <1>11
       DEF RegistryNext

(***************************************************************************)
(* What get_manifest returns was signed by the owner of a key of the trust *)
(* root, for every set of processes, trust roots, manifests and foreign    *)
(* writes.                                                                 *)
(***************************************************************************)
THEOREM ManifestsAreSigned == RegistrySpec => []ReturnedIsSigned
<1>1. RegistryInv => ReturnedIsSigned
  BY DEF RegistryInv
<1> QED BY RegistryInitInv, RegistryNextInv, <1>1, PTL DEF RegistrySpec

(***************************************************************************)
(* What get_artifact hands out for a manifest is what its signature covers.*)
(***************************************************************************)
THEOREM ArtifactsAreSigned == RegistrySpec => []InstalledIsSigned
<1>1. RegistryInv => InstalledIsSigned
  BY DEF RegistryInv
<1> QED BY RegistryInitInv, RegistryNextInv, <1>1, PTL DEF RegistrySpec

(***************************************************************************)
(* If no later trust root takes a revocation back, no process returns a    *)
(* manifest of a key that its trust root or one before it revokes.         *)
(***************************************************************************)
THEOREM RevocationHolds == RegistrySpec => []RevokedNotReturned
<1>1. RegistryInv => RevokedNotReturned
  <2> SUFFICES ASSUME RegistryInv, NEW p \in Registries, returned[p] # Empty,
                      NEW i \in 1..trust_root[p],
                      Roots[i].keys[returned[p].m.kid] # Empty,
                      Roots[i].keys[returned[p].m.kid].status = "revoked"
               PROVE  FALSE
    BY DEF RevokedNotReturned
  <2>1. /\ returned[p].m.kid \in Kids /\ trust_root[p] \in DOMAIN Roots
        /\ KeyStatusKnown(Key(p, returned[p].m.kid))
    BY DEF RegistryInv, RegistryTypeOK, ReturnedUnderItsRoot
  <2>2. i \in DOMAIN Roots /\ i <= trust_root[p]
    BY <2>1, RootsAssumption
  <2>3. Roots[trust_root[p]].keys[returned[p].m.kid].status = "revoked"
    BY <2>1, <2>2, RevocationAssumption
  <2> QED BY <2>1, <2>3 DEF KeyStatusKnown, Key
<1> QED BY RegistryInitInv, RegistryNextInv, <1>1, PTL DEF RegistrySpec

-----------------------------------------------------------------------------
(***************************************************************************)
(* What save_manifest stores can be read back: the proof keeps what the    *)
(* verification established, apart from the key and the clock.             *)
(***************************************************************************)
LEMMA WellSignedKept ==
    RegistryInv /\ SavedIsWellSigned /\ [RegistryNext]_registryVars => SavedIsWellSigned'
<1> SUFFICES ASSUME RegistryInv, SavedIsWellSigned, [RegistryNext]_registryVars
             PROVE  SavedIsWellSigned'
  OBVIOUS
<1> USE DEF RegistryInv, RegistryTypeOK
<1>1. ASSUME NEW p \in Registries, NEW m \in Drafts, SaveManifest(p, m) PROVE SavedIsWellSigned'
  <2>1. Persisted(m) \in Manifest
    BY PersistedFields, ManifestAssumption
  <2>2. WellSigned(Persisted(m))
    BY <1>1 DEF SaveManifest, Verifies, verify_manifest, WellSigned
  <2>3. /\ op'[p] = [call |-> "put", m |-> Persisted(m)]
        /\ \A q \in Registries \ {p} : op'[q] = op[q]
        /\ manifests' = manifests
    BY <1>1 DEF SaveManifest, Do, bucket
  <2> QED BY <2>2, <2>3 DEF SavedIsWellSigned, WellSigned, DigestAgrees, manifest_payload_digest
<1>2. ASSUME NEW p \in Registries, PutManifest(p) \/ PutManifestFails(p)
      PROVE  SavedIsWellSigned'
  <2>1. WellSigned(op[p].m) /\ op[p].m \in Manifest
    BY <1>2 DEF PutManifest, PutManifestFails, SavedIsWellSigned
  <2>2. \A path \in Paths : manifests'[path] = manifests[path] \/ manifests'[path] = op[p].m
    BY <1>2 DEF PutManifest, PutManifestFails, Store
  <2>3. \A q \in Registries : op'[q] = op[q] \/ op'[q] = Empty
    BY <1>2 DEF PutManifest, PutManifestFails, Do
  <2> QED BY <2>1, <2>2, <2>3
          DEF SavedIsWellSigned, WellSigned, DigestAgrees, manifest_payload_digest
<1>3. CASE ForeignWrite
  <2>1. \A path \in Paths : manifests'[path] = manifests[path] \/ manifests'[path] \in Foreign
    BY <1>3 DEF ForeignWrite
  <2> QED BY <1>3, <2>1 DEF ForeignWrite, SavedIsWellSigned, WellSigned, DigestAgrees,
             manifest_payload_digest
<1>4. ASSUME manifests' = manifests,
             \A p \in Registries :
                \/ op'[p] = op[p] \/ op'[p] = Empty
                \/ op'[p].call = "verify"
      PROVE  SavedIsWellSigned'
  BY <1>4 DEF SavedIsWellSigned, WellSigned, DigestAgrees, manifest_payload_digest
<1>5. ASSUME NEW p \in Registries,
             \/ Start(p) \/ Stop(p) \/ ReturnManifest(p) \/ GetArtifact(p)
             \/ \E name \in Names : ReadManifest(p, name)
             \/ \E a \in Artifacts : SaveArtifact(p, a)
      PROVE  SavedIsWellSigned'
  BY <1>4, <1>5 DEF Start, Stop, ReturnManifest, GetArtifact, ReadManifest, SaveArtifact, Do, bucket
<1>6. CASE PublishTrustRoot \/ Tick \/ UNCHANGED registryVars
  BY <1>4, <1>6 DEF PublishTrustRoot, Tick, registryVars, bucket
<1> QED BY <1>1, <1>2, <1>3, <1>5, <1>6 DEF RegistryNext

(***************************************************************************)
(* A manifest that save_manifest stored verifies in every process whose    *)
(* trust root has its version and lets its key be used, at any later time. *)
(***************************************************************************)
THEOREM SavedStaysReadable == RegistrySpec => []SavedIsReadable
<1>1. RegistryInit => SavedIsWellSigned
  BY DEF RegistryInit, SavedIsWellSigned
<1>2. SavedIsWellSigned => SavedIsReadable
  BY DEF SavedIsWellSigned, SavedIsReadable, WellSigned, Verifies, verify_manifest, get_key_at
<1> QED BY RegistryInitInv, RegistryNextInv, WellSignedKept, <1>1, <1>2, PTL DEF RegistrySpec

-----------------------------------------------------------------------------
(***************************************************************************)
(* The Deno sandbox.                                                       *)
(***************************************************************************)
Phases == {"new", "queued", "setup", "js", "loop", "cancel", "classify", "join", "done"}
Outcomes == {"none", "InitError", "Ok", "RuntimeError", "Timeout", "MemoryLimitExceeded", "CpuLimitExceeded"}
DogStates == {"none", "watching", "firing", "gone"}

DenoTypes ==
    /\ permits \in Nat
    /\ phase \in [DenoCalls -> Phases]
    /\ age \in [DenoCalls -> Nat]
    /\ cpu \in [DenoCalls -> Nat]
    /\ flags \in [DenoCalls -> SUBSET {"oom", "clock", "cpu", "wall"}]
    /\ terminate \in [DenoCalls -> BOOLEAN]
    /\ cancelled \in [DenoCalls -> BOOLEAN]
    /\ wall_dog \in [DenoCalls -> DogStates]
    /\ cpu_dog \in [DenoCalls -> DogStates]
    /\ outcome \in [DenoCalls -> Outcomes]
    /\ cut \in [DenoCalls -> {"none", "setup", "user_code"}]

\* The permits that are not free are those of the isolates, and a watchdog
\* lives no longer than its isolate.
PermitsAccount ==
    /\ permits + Cardinality(Isolates) = Permits
    /\ \A c \in DenoCalls : c \notin Isolates => wall_dog[c] = "none" /\ cpu_dog[c] = "none"

\* A flag is raised for a reason, and before the isolate is terminated.
FlagsHaveReason(c) ==
    /\ "wall" \in flags[c] => age[c] = WallLimit
    /\ "cpu" \in flags[c] => cpu[c] = CpuLimit
    /\ wall_dog[c] = "firing" => "wall" \in flags[c]
    /\ cpu_dog[c] = "firing" => "cpu" \in flags[c] \/ "clock" \in flags[c]
    /\ terminate[c] => flags[c] # {}

\* What execution_result may be, phase by phase.
OutcomeFits(c) ==
    /\ phase[c] \notin {"cancel", "classify", "join"} => cut[c] = "none"
    /\ cut[c] = "user_code" => terminate[c]
    /\ phase[c] \in {"cancel", "classify"} =>
          /\ outcome[c] \in {"Ok", "RuntimeError", "Timeout"}
          /\ outcome[c] = "Timeout" => "wall" \in flags[c]

DenoInv ==
    /\ DenoTypes
    /\ PermitsAccount
    /\ \A c \in DenoCalls : FlagsHaveReason(c) /\ OutcomeFits(c)
    /\ CutIsNamed

\* Entering and leaving the phases of an isolate changes their number by one.
LEMMA IsolatesFinite ==
    IsFiniteSet(Isolates) /\ Cardinality(Isolates) \in Nat
BY CallsAssumption, FS_Subset, FS_CardinalityType DEF Isolates

LEMMA IsolatesSame ==
    ASSUME DenoTypes, NEW c \in DenoCalls, NEW l \in Phases, DenoGoto(c, l),
           (c \in Isolates) <=> l \in {"setup", "js", "loop", "cancel", "classify", "join"}
    PROVE  Isolates' = Isolates
BY DEF DenoTypes, DenoGoto, Isolates

LEMMA IsolateEnters ==
    ASSUME DenoTypes, NEW c \in DenoCalls, c \notin Isolates, DenoGoto(c, "setup")
    PROVE  Isolates' = Isolates \cup {c} /\ Cardinality(Isolates') = Cardinality(Isolates) + 1
<1>1. Isolates' = Isolates \cup {c}
  BY DEF DenoTypes, DenoGoto, Isolates
<1> QED BY <1>1, IsolatesFinite, FS_AddElement

LEMMA IsolateLeaves ==
    ASSUME DenoTypes, NEW c \in DenoCalls, c \in Isolates, DenoGoto(c, "done")
    PROVE  Isolates' = Isolates \ {c} /\ Cardinality(Isolates') = Cardinality(Isolates) - 1
<1>1. Isolates' = Isolates \ {c}
  BY DEF DenoTypes, DenoGoto, Isolates
<1> QED BY <1>1, IsolatesFinite, FS_RemoveElement

LEMMA DenoInitInv == DenoInit => DenoInv
<1> SUFFICES ASSUME DenoInit PROVE DenoInv
  OBVIOUS
<1>1. Isolates = {}
  BY DEF DenoInit, Isolates
<1>2. PermitsAccount
  BY <1>1, FS_EmptySet, PermitAssumption DEF PermitsAccount, DenoInit
<1>3. DenoTypes
  <2>1. permits \in Nat
    BY PermitAssumption DEF DenoInit
  <2>2. terminate \in [DenoCalls -> BOOLEAN] /\ cancelled \in [DenoCalls -> BOOLEAN]
    BY Zenon DEF DenoInit
  <2>3. age \in [DenoCalls -> Nat] /\ cpu \in [DenoCalls -> Nat]
    BY DEF DenoInit
  <2>4. flags \in [DenoCalls -> SUBSET {"oom", "clock", "cpu", "wall"}]
    BY DEF DenoInit
  <2>5. outcome \in [DenoCalls -> Outcomes]
    BY DEF DenoInit, Outcomes
  <2>6. phase \in [DenoCalls -> Phases]
    BY DEF DenoInit, Phases
  <2>7. /\ wall_dog \in [DenoCalls -> DogStates] /\ cpu_dog \in [DenoCalls -> DogStates]
        /\ cut \in [DenoCalls -> {"none", "setup", "user_code"}]
    BY DEF DenoInit, DogStates
  <2> QED
    BY <2>1, <2>2, <2>3, <2>4, <2>5, <2>6, <2>7 DEF DenoTypes
<1> QED
  BY <1>2, <1>3, LimitAssumption DEF DenoInit, DenoInv, FlagsHaveReason, OutcomeFits, CutIsNamed

\* The invariant bounds the isolates and, with them, the watchdogs.
LEMMA DenoInvBounds == DenoInv => BoundedIsolates
<1> SUFFICES ASSUME DenoInv PROVE BoundedIsolates
  OBVIOUS
<1> DEFINE Dogs == {c \in DenoCalls : {wall_dog[c], cpu_dog[c]} \cap {"watching", "firing"} # {}}
<1>1. Dogs \subseteq Isolates
  BY DEF DenoInv, PermitsAccount
<1>2. Isolates \cup Dogs = Isolates
  BY <1>1
<1> HIDE DEF Dogs
<1>3. Cardinality(Isolates) <= Permits
  BY IsolatesFinite, PermitAssumption DEF DenoInv, DenoTypes, PermitsAccount
<1>4. Cardinality(Isolates \cup Dogs) <= Permits
  BY <1>2, <1>3
<1> QED
  BY <1>4 DEF BoundedIsolates, Dogs

\* Only Acquire and DenoFinish move a permit.
LEMMA PermitsStep ==
    ASSUME DenoInv, DenoNext
    PROVE  permits' \in Nat /\ PermitsAccount'
<1> USE DEF DenoInv
<1>1. ASSUME NEW c \in DenoCalls, Acquire(c) PROVE permits' \in Nat /\ PermitsAccount'
  <2>1. c \notin Isolates /\ DenoGoto(c, "setup") /\ permits' = permits - 1 /\ permits' \in Nat
    BY <1>1 DEF Acquire, Isolates, DenoTypes
  <2>2. Isolates' = Isolates \cup {c} /\ Cardinality(Isolates') = Cardinality(Isolates) + 1
    BY <2>1, IsolateEnters
  <2>3. \A d \in DenoCalls : d \notin Isolates' => wall_dog'[d] = "none" /\ cpu_dog'[d] = "none"
    BY <1>1, <2>2 DEF Acquire, PermitsAccount, DenoTypes
  <2> QED
    BY <2>1, <2>2, <2>3, IsolatesFinite, PermitAssumption DEF PermitsAccount, DenoTypes
<1>2. ASSUME NEW c \in DenoCalls, DenoFinish(c) PROVE permits' \in Nat /\ PermitsAccount'
  <2>1. c \in Isolates /\ DenoGoto(c, "done") /\ permits' = permits + 1 /\ permits' \in Nat
    BY <1>2 DEF DenoFinish, Isolates, DenoTypes
  <2>2. Isolates' = Isolates \ {c} /\ Cardinality(Isolates') = Cardinality(Isolates) - 1
    BY <2>1, IsolateLeaves
  <2>3. \A d \in DenoCalls : d \notin Isolates' => wall_dog'[d] = "none" /\ cpu_dog'[d] = "none"
    BY <1>2, <2>2 DEF DenoFinish, PermitsAccount, DenoTypes
  <2> QED
    BY <2>1, <2>2, <2>3, IsolatesFinite, PermitAssumption DEF PermitsAccount, DenoTypes
<1>3. ASSUME permits' = permits, Isolates' = Isolates,
             \A d \in DenoCalls : d \notin Isolates => wall_dog'[d] = wall_dog[d] /\ cpu_dog'[d] = cpu_dog[d]
      PROVE  permits' \in Nat /\ PermitsAccount'
  BY <1>3 DEF PermitsAccount, DenoTypes
<1>4. ASSUME NEW c \in DenoCalls,
             \/ DenoExecute(c) \/ DropCall(c) \/ DenoReturn(c)
             \/ InitFails(c) \/ JsWaits(c) \/ JsResumes(c) \/ JsEnds(c)
             \/ SetupCut(c) \/ SetupDone(c) \/ JsCut(c) \/ LoopTimeout(c)
             \/ Cancel(c) \/ Classify(c) \/ NearHeapLimit(c)
      PROVE  permits' \in Nat /\ PermitsAccount'
  <2>1. permits' = permits /\ wall_dog' = wall_dog /\ cpu_dog' = cpu_dog
    BY <1>4 DEF DenoExecute, DropCall, DenoReturn, InitFails, LeaveEarly, JsWaits, JsResumes, JsEnds,
        SetupCut, SetupDone, JsCut, LoopTimeout, Cancel, Classify, NearHeapLimit, isolateVars, dogVars
  <2>2. Isolates' = Isolates
    BY <1>4 DEF DenoTypes, Isolates, DenoGoto, DenoExecute, DropCall, DenoReturn, InitFails, LeaveEarly,
        JsWaits, JsResumes, JsEnds, SetupCut, SetupDone, JsCut, LoopTimeout, Cancel, Classify, NearHeapLimit
  <2> QED
    BY <1>3, <2>1, <2>2
<1>5. ASSUME NEW c \in DenoCalls, Watch(c) PROVE permits' \in Nat /\ PermitsAccount'
  <2>1. permits' = permits /\ Isolates' = Isolates
    BY <1>5 DEF Watch, Isolates
  <2>2. \A d \in DenoCalls : d \notin Isolates => wall_dog'[d] = wall_dog[d] /\ cpu_dog'[d] = cpu_dog[d]
    BY <1>5 DEF Watch, WallDog, CpuDog, PermitsAccount, DenoTypes
  <2> QED
    BY <1>3, <2>1, <2>2
<1>6. ASSUME DenoTick PROVE permits' \in Nat /\ PermitsAccount'
  BY <1>6, <1>3 DEF DenoTick, dogVars, Isolates
<1> QED
  BY <1>1, <1>2, <1>4, <1>5, <1>6 DEF DenoNext, DenoProgress

\* One step keeps the types; the permits are PermitsStep's.
LEMMA DenoTypesStep ==
    ASSUME DenoInv, DenoNext
    PROVE  DenoTypes'
<1> USE DEF DenoInv
<1>1. permits' \in Nat
  BY PermitsStep
<1>2. age' \in [DenoCalls -> Nat] /\ cpu' \in [DenoCalls -> Nat]
  <2>1. CASE DenoTick
    BY <2>1 DEF DenoTypes, DenoTick, DenoUpTo
  <2>2. ASSUME NEW c \in DenoCalls, DenoFinish(c) PROVE age' \in [DenoCalls -> Nat] /\ cpu' \in [DenoCalls -> Nat]
    BY <2>2 DEF DenoTypes, DenoFinish
  <2> QED
    BY <2>1, <2>2 DEF DenoTypes, DenoNext, DenoProgress, isolateVars, dogVars, DenoExecute, DropCall, DenoReturn,
        InitFails, LeaveEarly, JsWaits, JsResumes, JsEnds, Acquire, SetupCut, SetupDone, JsCut, LoopTimeout,
        Cancel, Classify, Watch, NearHeapLimit
<1>3. flags' \in [DenoCalls -> SUBSET {"oom", "clock", "cpu", "wall"}]
  BY DEF DenoTypes, DenoNext, DenoProgress, isolateVars, dogVars, DenoExecute, DropCall, DenoReturn,
      InitFails, LeaveEarly, JsWaits, JsResumes, JsEnds, Acquire, SetupCut, SetupDone, JsCut, LoopTimeout,
      Cancel, Classify, Watch, WallDog, CpuDog, NearHeapLimit, DenoFinish, DenoTick, Raise
<1>4. phase' \in [DenoCalls -> Phases]
  BY DEF DenoTypes, DenoNext, DenoProgress, isolateVars, dogVars, DenoExecute, DropCall, DenoReturn,
      InitFails, LeaveEarly, JsWaits, JsResumes, JsEnds, Acquire, SetupCut, SetupDone, JsCut, LoopTimeout,
      Cancel, Classify, Watch, NearHeapLimit, DenoFinish, DenoTick, DenoGoto, Phases
<1>5. wall_dog' \in [DenoCalls -> DogStates] /\ cpu_dog' \in [DenoCalls -> DogStates]
  BY DEF DenoTypes, DenoNext, DenoProgress, isolateVars, dogVars, DenoExecute, DropCall, DenoReturn,
      InitFails, LeaveEarly, JsWaits, JsResumes, JsEnds, Acquire, SetupCut, SetupDone, JsCut, LoopTimeout,
      Cancel, Classify, Watch, WallDog, CpuDog, NearHeapLimit, DenoFinish, DenoTick, DogStates
<1>6. terminate' \in [DenoCalls -> BOOLEAN] /\ cancelled' \in [DenoCalls -> BOOLEAN]
  BY DEF DenoTypes, DenoNext, DenoProgress, isolateVars, dogVars, DenoExecute, DropCall, DenoReturn,
      InitFails, LeaveEarly, JsWaits, JsResumes, JsEnds, Acquire, SetupCut, SetupDone, JsCut, LoopTimeout,
      Cancel, Classify, Watch, WallDog, CpuDog, NearHeapLimit, DenoFinish, DenoTick, Terminate
<1>7. outcome' \in [DenoCalls -> Outcomes] /\ cut' \in [DenoCalls -> {"none", "setup", "user_code"}]
  <2>1. \A c \in DenoCalls : Verdict(c) \in Outcomes
    BY DEF Verdict, Outcomes, DenoTypes
  <2> QED
    BY <2>1 DEF DenoTypes, DenoNext, DenoProgress, isolateVars, dogVars, DenoExecute, DropCall, DenoReturn,
        InitFails, LeaveEarly, JsWaits, JsResumes, JsEnds, Acquire, SetupCut, SetupDone, JsCut, LoopTimeout,
        Cancel, Classify, Watch, NearHeapLimit, DenoFinish, DenoTick, Yields, Outcomes
<1> QED
  BY <1>1, <1>2, <1>3, <1>4, <1>5, <1>6, <1>7 DEF DenoTypes

LEMMA FlagsStep ==
    ASSUME DenoInv, DenoNext, NEW d \in DenoCalls
    PROVE  FlagsHaveReason(d)'
<1> USE DEF DenoInv, FlagsHaveReason, DenoTypes
<1>1. ASSUME UNCHANGED <<age, cpu, flags, terminate, wall_dog, cpu_dog>> PROVE FlagsHaveReason(d)'
  BY <1>1
<1>2. ASSUME NEW c \in DenoCalls, Acquire(c) PROVE FlagsHaveReason(d)'
  BY <1>2 DEF Acquire, isolateVars
<1>3. ASSUME NEW c \in DenoCalls, DenoFinish(c) PROVE FlagsHaveReason(d)'
  BY <1>3 DEF DenoFinish
<1>4. ASSUME NEW c \in DenoCalls, Watch(c) PROVE FlagsHaveReason(d)'
  BY <1>4 DEF Watch, WallDog, CpuDog, Raise, Terminate
<1>5. ASSUME NEW c \in DenoCalls, LoopTimeout(c) \/ NearHeapLimit(c) PROVE FlagsHaveReason(d)'
  BY <1>5 DEF LoopTimeout, NearHeapLimit, Raise, Terminate, dogVars
<1>6. ASSUME DenoTick PROVE FlagsHaveReason(d)'
  BY <1>6, LimitAssumption DEF DenoTick, DenoUpTo, dogVars
<1> QED
  BY <1>1, <1>2, <1>3, <1>4, <1>5, <1>6 DEF DenoNext, DenoProgress, isolateVars, dogVars, DenoExecute, DropCall,
      DenoReturn, InitFails, LeaveEarly, JsWaits, JsResumes, JsEnds, SetupCut, SetupDone, JsCut, Cancel, Classify

LEMMA OutcomeStep ==
    ASSUME DenoInv, DenoNext, NEW d \in DenoCalls
    PROVE  OutcomeFits(d)'
<1> USE DEF DenoInv, OutcomeFits, DenoTypes
<1>1. ASSUME NEW c \in DenoCalls,
             \/ DenoExecute(c) \/ DropCall(c) \/ DenoReturn(c) \/ Acquire(c)
             \/ JsWaits(c) \/ JsResumes(c) \/ SetupDone(c) \/ Cancel(c)
      PROVE  OutcomeFits(d)'
  BY <1>1 DEF DenoExecute, DropCall, DenoReturn, Acquire, JsWaits, JsResumes, SetupDone, Cancel,
      DenoGoto, isolateVars
<1>2. ASSUME NEW c \in DenoCalls, InitFails(c) \/ SetupCut(c) \/ JsEnds(c) \/ JsCut(c) \/ Classify(c)
      PROVE  OutcomeFits(d)'
  BY <1>2 DEF InitFails, SetupCut, LeaveEarly, JsEnds, JsCut, Classify, DenoGoto, Yields, isolateVars
<1>3. ASSUME NEW c \in DenoCalls, LoopTimeout(c) PROVE OutcomeFits(d)'
  BY <1>3 DEF LoopTimeout, DenoGoto, Yields, Raise, Terminate
<1>4. ASSUME NEW c \in DenoCalls, NearHeapLimit(c) \/ Watch(c) PROVE OutcomeFits(d)'
  BY <1>4 DEF NearHeapLimit, Watch, WallDog, CpuDog, Raise, Terminate
<1>5. ASSUME NEW c \in DenoCalls, DenoFinish(c) PROVE OutcomeFits(d)'
  BY <1>5 DEF DenoFinish, DenoGoto, Yields
<1>6. ASSUME DenoTick PROVE OutcomeFits(d)'
  BY <1>6 DEF DenoTick
<1> QED
  BY <1>1, <1>2, <1>3, <1>4, <1>5, <1>6 DEF DenoNext, DenoProgress

\* A verdict names a limit only when its flag is up, and the script only when
\* none is or the clock was lost.
LEMMA NamedStep ==
    ASSUME DenoInv, DenoNext
    PROVE  CutIsNamed'
<1> USE DEF DenoInv, DenoTypes, CutIsNamed
<1>1. ASSUME NEW c \in DenoCalls,
             \/ DenoExecute(c) \/ DropCall(c) \/ DenoReturn(c) \/ Acquire(c) \/ JsWaits(c) \/ JsResumes(c)
             \/ SetupDone(c) \/ Cancel(c) \/ JsEnds(c) \/ JsCut(c) \/ LoopTimeout(c) \/ DenoFinish(c)
      PROVE  CutIsNamed'
  BY <1>1 DEF DenoExecute, DropCall, DenoReturn, Acquire, JsWaits, JsResumes, SetupDone, Cancel, JsEnds, JsCut,
      LoopTimeout, DenoFinish, DenoGoto, Yields, Raise, isolateVars
<1>2. ASSUME NEW c \in DenoCalls, InitFails(c) \/ SetupCut(c) PROVE CutIsNamed'
  BY <1>2 DEF InitFails, SetupCut, LeaveEarly, DenoGoto, Yields, isolateVars, OutcomeFits
<1>3. ASSUME NEW c \in DenoCalls, Classify(c) PROVE CutIsNamed'
  <2> DEFINE v == Verdict(c)
  <2>1. FlagsHaveReason(c) /\ OutcomeFits(c) /\ phase[c] = "classify"
    BY <1>3 DEF Classify
  <2>2. /\ cut[c] = "user_code" /\ v = "RuntimeError" => "clock" \in flags[c]
        /\ v = "Timeout" => age[c] = WallLimit
        /\ v = "CpuLimitExceeded" => cpu[c] = CpuLimit
        /\ v = "MemoryLimitExceeded" => "oom" \in flags[c]
    BY <2>1 DEF Verdict, FlagsHaveReason, OutcomeFits
  <2> HIDE DEF v
  <2>3. outcome' = [outcome EXCEPT ![c] = v] /\ UNCHANGED <<isolateVars, cut>>
    BY <1>3 DEF Classify, Yields, v
  <2> QED
    BY <1>3, <2>2, <2>3 DEF Classify, DenoGoto, isolateVars
<1>4. ASSUME NEW c \in DenoCalls, NearHeapLimit(c) \/ Watch(c) PROVE CutIsNamed'
  BY <1>4 DEF NearHeapLimit, Watch, WallDog, CpuDog, Raise
<1>5. ASSUME DenoTick PROVE CutIsNamed'
  BY <1>5, LimitAssumption DEF DenoTick, DenoUpTo, InScript
<1> QED
  BY <1>1, <1>2, <1>3, <1>4, <1>5 DEF DenoNext, DenoProgress

LEMMA DenoInvStep == DenoInv /\ [DenoNext]_denoVars => DenoInv'
<1> SUFFICES ASSUME DenoInv, [DenoNext]_denoVars PROVE DenoInv'
  OBVIOUS
<1>1. CASE DenoNext
  BY <1>1, PermitsStep, DenoTypesStep, FlagsStep, OutcomeStep, NamedStep DEF DenoInv
<1>2. CASE UNCHANGED denoVars
  BY <1>2 DEF denoVars, isolateVars, dogVars, DenoInv, DenoTypes, PermitsAccount, Isolates, FlagsHaveReason,
      OutcomeFits, CutIsNamed
<1> QED
  BY <1>1, <1>2

\* BoundedIsolates, for every number of calls and permits: a caller that drops
\* its future leaves the permit with the blocking task, which gives it back
\* after both watchdogs are joined.
THEOREM IsolatesStayBounded == DenoSpec => []BoundedIsolates
<1>1. DenoInv => BoundedIsolates
  BY DenoInvBounds
<1> QED
  BY <1>1, DenoInitInv, DenoInvStep, PTL DEF DenoSpec

\* CutIsNamed, for all limits: the flags go up before the isolate is terminated
\* and are never taken back, so what V8 cut short is reported under a limit
\* that was reached.
THEOREM LimitsAreNamed == DenoSpec => []CutIsNamed
<1>1. DenoInv => CutIsNamed
  BY DEF DenoInv
<1> QED
  BY <1>1, DenoInitInv, DenoInvStep, PTL DEF DenoSpec

-----------------------------------------------------------------------------
(***************************************************************************)
(* The Wasm sandbox.                                                       *)
(***************************************************************************)
Places == {"new", "stop_previous", "build", "compile", "guest", "fetch", "sleep", "stop", "done"}
Active == {"build", "compile", "guest", "fetch", "sleep"}

WasmTypes ==
    /\ pc \in [WasmCalls -> Places]
    /\ elapsed \in [WasmCalls -> 0..WasmLimit]
    /\ epoch \in Nat
    /\ deadline \in [WasmCalls -> Nat]
    /\ watchdog \in WasmCalls \cup {0}
    /\ dog \in [WasmCalls -> {"none", "watching", "firing", "gone"}]
    /\ wall_timeout \in [WasmCalls -> BOOLEAN]
    /\ result \in [WasmCalls -> {"none", "Ok", "OutputError", "InitError", "Timeout"} \cup SandboxErrors]

\* One call owns the sandbox; a watchdog that lives is the one whose handle the
\* sandbox keeps, and a call that has begun keeps none but its own.
OneDog ==
    /\ \A r \in WasmCalls : pc[r] \notin {"new", "done"} => running = r
    /\ \A r \in WasmCalls : DogAlive(r) => watchdog = r
    /\ \A r \in WasmCalls :
          /\ pc[r] \in {"build", "compile"} => watchdog = 0
          /\ pc[r] \in {"guest", "fetch", "sleep", "stop"} => watchdog = r

\* A watchdog fires for a limit that has passed.
FiresInTime ==
    \A r \in WasmCalls :
        /\ wall_timeout[r] => TimedOut(r)
        /\ dog[r] = "firing" => wall_timeout[r]

WasmInv == WasmTypes /\ OneDog /\ FiresInTime /\ OnlyOwnTimeout

LEMMA WasmInitInv == WasmInit => WasmInv
<1> SUFFICES ASSUME WasmInit PROVE WasmInv
  OBVIOUS
<1>1. elapsed \in [WasmCalls -> 0..WasmLimit] /\ deadline \in [WasmCalls -> Nat] /\ epoch \in Nat
  BY WasmLimitAssumption DEF WasmInit
<1>2. wall_timeout \in [WasmCalls -> BOOLEAN]
  BY DEF WasmInit
<1>3. WasmTypes
  BY <1>1, <1>2 DEF WasmInit, WasmTypes, Places
<1> QED
  BY <1>3, WasmLimitAssumption DEF WasmInit, WasmInv, OneDog, FiresInTime, OnlyOwnTimeout, DogAlive, TimedOut

LEMMA WasmTypesStep ==
    ASSUME WasmInv, WasmNext
    PROVE  WasmTypes'
<1> USE DEF WasmInv, WasmTypes
<1>1. pc' \in [WasmCalls -> Places]
  BY DEF WasmNext, WasmProgress, WasmExecute, Begin, BuildFails, Compile, CompileFails, LeaveWith, Instantiate,
      CallStart, HostCall, HostReturns, FetchTimeout, Interrupt, GuestFails, GuestReturns, GuestEnds, WasmReturn,
      DropFuture, DropSandbox, CompileThreadEnds, Watchdog, WasmTick, At, Places
<1>2. elapsed' \in [WasmCalls -> 0..WasmLimit]
  <2>1. CASE WasmTick
    BY <2>1, WasmLimitAssumption DEF WasmTick, TimedOut
  <2> QED
    BY <2>1 DEF WasmNext, WasmProgress, WasmExecute, Begin, BuildFails, Compile, CompileFails, LeaveWith, Instantiate,
        CallStart, HostCall, HostReturns, FetchTimeout, Interrupt, GuestFails, GuestReturns, GuestEnds, WasmReturn,
        DropFuture, DropSandbox, CompileThreadEnds, Watchdog, clockVars
<1>3. epoch' \in Nat /\ deadline' \in [WasmCalls -> Nat]
  BY DEF WasmNext, WasmProgress, WasmExecute, Begin, BuildFails, Compile, CompileFails, LeaveWith, Instantiate,
      CallStart, HostCall, HostReturns, FetchTimeout, Interrupt, GuestFails, GuestReturns, GuestEnds, WasmReturn,
      DropFuture, DropSandbox, CompileThreadEnds, Watchdog, WatchdogFires, WasmTick, clockVars
<1>4. /\ watchdog' \in WasmCalls \cup {0}
      /\ dog' \in [WasmCalls -> {"none", "watching", "firing", "gone"}]
  BY DEF WasmNext, WasmProgress, WasmExecute, Begin, BuildFails, Compile, CompileFails, LeaveWith, Instantiate,
      CallStart, HostCall, HostReturns, FetchTimeout, Interrupt, GuestFails, GuestReturns, GuestEnds, WasmReturn,
      DropFuture, DropSandbox, CompileThreadEnds, Watchdog, WatchdogFires, WasmTick, dogsVars
<1>5. wall_timeout' \in [WasmCalls -> BOOLEAN]
  BY DEF WasmNext, WasmProgress, WasmExecute, Begin, BuildFails, Compile, CompileFails, LeaveWith, Instantiate,
      CallStart, HostCall, HostReturns, FetchTimeout, Interrupt, GuestFails, GuestReturns, GuestEnds, WasmReturn,
      DropFuture, DropSandbox, CompileThreadEnds, Watchdog, WasmTick
<1>6. result' \in [WasmCalls -> {"none", "Ok", "OutputError", "InitError", "Timeout"} \cup SandboxErrors]
  BY DEF WasmNext, WasmProgress, WasmExecute, Begin, BuildFails, Compile, CompileFails, LeaveWith, Instantiate,
      CallStart, HostCall, HostReturns, FetchTimeout, Interrupt, GuestFails, GuestReturns, GuestEnds, WasmReturn,
      DropFuture, DropSandbox, CompileThreadEnds, Watchdog, WasmTick, Result, SandboxErrors
<1> QED
  BY <1>1, <1>2, <1>3, <1>4, <1>5, <1>6

\* The handle is given up only after the thread has ended.
LEMMA OneDogStep ==
    ASSUME WasmInv, WasmNext
    PROVE  OneDog'
<1> USE DEF WasmInv, WasmTypes, OneDog, DogAlive
<1>0. 0 \notin WasmCalls
  BY WasmCallsAssumption, FS_CardinalityType
<1>1. ASSUME NEW r \in WasmCalls, WasmExecute(r) PROVE OneDog'
  BY <1>1, <1>0 DEF WasmExecute, At
<1>2. ASSUME NEW r \in WasmCalls, Begin(r) \/ WasmReturn(r) PROVE OneDog'
  BY <1>2, <1>0 DEF Begin, WasmReturn, Joined, At
<1>3. ASSUME NEW r \in WasmCalls, BuildFails(r) \/ CompileFails(r) \/ DropFuture(r) PROVE OneDog'
  BY <1>3, <1>0 DEF BuildFails, CompileFails, DropFuture, LeaveWith, At, dogsVars
<1>4. ASSUME NEW r \in WasmCalls, Compile(r) \/ HostCall(r) \/ HostReturns(r) \/ FetchTimeout(r) PROVE OneDog'
  BY <1>4, <1>0 DEF Compile, HostCall, HostReturns, FetchTimeout, At, dogsVars
<1>5. ASSUME NEW r \in WasmCalls, Instantiate(r) PROVE OneDog'
  BY <1>5, <1>0 DEF Instantiate, At
<1>6. ASSUME NEW r \in WasmCalls, NEW o, GuestEnds(r, o) PROVE OneDog'
  BY <1>6, <1>0 DEF GuestEnds, At
<1>7. ASSUME NEW r \in WasmCalls, CallStart(r) \/ CompileThreadEnds(r) PROVE OneDog'
  BY <1>7 DEF CallStart, CompileThreadEnds, dogsVars
<1>8. ASSUME NEW r \in WasmCalls, Watchdog(r) PROVE OneDog'
  BY <1>8 DEF Watchdog, WatchdogFires
<1>9. ASSUME DropSandbox \/ WasmTick PROVE OneDog'
  BY <1>9 DEF DropSandbox, WasmTick, dogsVars
<1> QED
  BY <1>1, <1>2, <1>3, <1>4, <1>5, <1>6, <1>7, <1>8, <1>9
     DEF WasmNext, WasmProgress, Interrupt, GuestFails, GuestReturns

\* The epoch moves for the call that runs, and only when its own limit is over.
LEMMA OwnTimeoutStep ==
    ASSUME WasmInv, WasmNext
    PROVE  FiresInTime' /\ OnlyOwnTimeout'
<1> USE DEF WasmInv, WasmTypes, FiresInTime, OnlyOwnTimeout, TimedOut
<1>1. ASSUME NEW r \in WasmCalls, WasmExecute(r) PROVE FiresInTime' /\ OnlyOwnTimeout'
  BY <1>1 DEF WasmExecute, At, clockVars
<1>2. ASSUME NEW r \in WasmCalls, Begin(r) PROVE FiresInTime' /\ OnlyOwnTimeout'
  BY <1>2 DEF Begin, At
<1>3. ASSUME NEW r \in WasmCalls, BuildFails(r) \/ CompileFails(r) \/ DropFuture(r)
      PROVE  FiresInTime' /\ OnlyOwnTimeout'
  BY <1>3 DEF BuildFails, CompileFails, DropFuture, LeaveWith, SandboxErrors, At, Result, clockVars, dogsVars
<1>4. ASSUME NEW r \in WasmCalls, Compile(r) \/ HostCall(r) \/ HostReturns(r) \/ FetchTimeout(r)
      PROVE  FiresInTime' /\ OnlyOwnTimeout'
  BY <1>4 DEF Compile, HostCall, HostReturns, FetchTimeout, At, clockVars, dogsVars
<1>5. ASSUME NEW r \in WasmCalls, Instantiate(r) PROVE FiresInTime' /\ OnlyOwnTimeout'
  BY <1>5 DEF Instantiate, At, clockVars
<1>6. ASSUME NEW r \in WasmCalls, NEW o, GuestEnds(r, o), o = "Timeout" => wall_timeout[r]
      PROVE  FiresInTime' /\ OnlyOwnTimeout'
  BY <1>6 DEF GuestEnds, At, Result, clockVars
<1>7. ASSUME NEW r \in WasmCalls, WasmReturn(r) PROVE FiresInTime' /\ OnlyOwnTimeout'
  BY <1>7 DEF WasmReturn, At, Result, clockVars
<1>8. ASSUME NEW r \in WasmCalls, CallStart(r) \/ CompileThreadEnds(r) PROVE FiresInTime' /\ OnlyOwnTimeout'
  BY <1>8 DEF CallStart, CompileThreadEnds, clockVars, dogsVars
<1>9. ASSUME NEW r \in WasmCalls, Watchdog(r) PROVE FiresInTime' /\ OnlyOwnTimeout'
  <2>1. CASE WatchdogFires(r) /\ UNCHANGED wall_timeout
    <3>1. watchdog = r /\ wall_timeout[r]
      BY <2>1 DEF WatchdogFires, OneDog, DogAlive
    <3>2. \A q \in WasmCalls : pc[q] \in Active => q = r
      BY <3>1, WasmCallsAssumption, FS_CardinalityType DEF OneDog, Active
    <3> QED
      BY <1>9, <2>1, <3>1, <3>2 DEF Watchdog, WatchdogFires, Active
  <2>2. CASE ~WatchdogFires(r)
    BY <1>9, <2>2 DEF Watchdog
  <2> QED
    BY <1>9, <2>1, <2>2 DEF Watchdog
<1>10. ASSUME DropSandbox PROVE FiresInTime' /\ OnlyOwnTimeout'
  BY <1>10 DEF DropSandbox, clockVars
<1>11. ASSUME WasmTick PROVE FiresInTime' /\ OnlyOwnTimeout'
  BY <1>11 DEF WasmTick, dogsVars
<1>12. \A r \in WasmCalls : pc[r] = "guest" /\ epoch >= deadline[r] => wall_timeout[r]
  OBVIOUS
<1> QED
  BY <1>1, <1>2, <1>3, <1>4, <1>5, <1>6, <1>7, <1>8, <1>9, <1>10, <1>11, <1>12
     DEF WasmNext, WasmProgress, Interrupt, GuestFails, GuestReturns, GuestEnds, SandboxErrors

LEMMA WasmInvStep == WasmInv /\ [WasmNext]_wasmVars => WasmInv'
<1> SUFFICES ASSUME WasmInv, [WasmNext]_wasmVars PROVE WasmInv'
  OBVIOUS
<1>1. CASE WasmNext
  BY <1>1, WasmTypesStep, OneDogStep, OwnTimeoutStep DEF WasmInv
<1>2. CASE UNCHANGED wasmVars
  BY <1>2 DEF wasmVars, clockVars, dogsVars, WasmInv, WasmTypes, OneDog, DogAlive, FiresInTime, OnlyOwnTimeout,
      TimedOut
<1> QED
  BY <1>1, <1>2

\* OnlyOwnTimeout, for every number of calls and every limit: the handle of a
\* watchdog is kept until the thread is joined, so the engine's epoch never
\* moves under a call whose own limit has not passed.
THEOREM NoBorrowedTimeout == WasmSpec => []OnlyOwnTimeout
<1>1. WasmInv => OnlyOwnTimeout
  BY DEF WasmInv
<1> QED
  BY <1>1, WasmInitInv, WasmInvStep, PTL DEF WasmSpec

-----------------------------------------------------------------------------
(***************************************************************************)
(* The allowlist and a fetch.                                              *)
(***************************************************************************)
\* What IsPrefix says, element by element.
LEMMA PrefixElements ==
    ASSUME NEW s \in Seq(STRING), NEW t \in Seq(STRING)
    PROVE  IsPrefix(s, t) <=> Len(s) <= Len(t) /\ \A i \in 1..Len(s) : s[i] = t[i]
<1>1. ASSUME Len(s) <= Len(t)
      PROVE  SubSeq(s, 1, Len(s)) = SubSeq(t, 1, Len(s)) <=> \A i \in 1..Len(s) : s[i] = t[i]
  <2>1. SubSeq(s, 1, Len(s)) = [i \in 1..Len(s) |-> s[i]]
    OBVIOUS
  <2>2. SubSeq(t, 1, Len(s)) = [i \in 1..Len(s) |-> t[i]]
    BY <1>1
  <2> QED
    BY <2>1, <2>2
<1> QED
  BY <1>1 DEF IsPrefix

\* The boundary test on the next character is the containment of paths.
LEMMA PathsAgree ==
    ASSUME NEW p \in Seq(STRING), NEW q \in Seq(STRING),
           p # <<>>, p[1] = "/", q # <<>>, q[1] = "/"
    PROVE  matches_path_prefix(p, q) <=> Under(p, q)
<1> DEFINE dir == IF Last(p) = "/" THEN Front(p) ELSE p
           d == dir \o <<"/">>
<1>0. Len(p) \in Nat \ {0} /\ Len(q) \in Nat \ {0}
  OBVIOUS
<1>1. IsPrefix(p, q) <=> Len(p) <= Len(q) /\ \A i \in 1..Len(p) : p[i] = q[i]
  BY PrefixElements
<1>2. CASE Last(p) = "/"
  <2>1. Front(p) \in Seq(STRING) /\ Len(Front(p)) = Len(p) - 1
        /\ \A i \in 1..(Len(p) - 1) : Front(p)[i] = p[i]
    <3> DEFINE n == Len(p) - 1
    <3>1. n \in Nat /\ n <= Len(p)
      BY <1>0
    <3>2. Front(p) = SubSeq(p, 1, n)
      BY DEF Front
    <3> HIDE DEF n
    <3>3. SubSeq(p, 1, n) = [i \in 1..n |-> p[i]]
      BY <3>1
    <3>4. SubSeq(p, 1, n) \in Seq(STRING) /\ Len(SubSeq(p, 1, n)) = n
      BY <3>1
    <3> QED
      BY <3>2, <3>3, <3>4 DEF n
  <2>2. d = p
    BY <1>0, <1>2, <2>1 DEF Last
  <2>3. matches_path_prefix(p, q) <=> IsPrefix(p, q)
    BY <1>0, <1>1, <1>2 DEF matches_path_prefix
  <2>4. Under(p, q) <=> q = p \/ IsPrefix(d, q)
    BY DEF Under
  <2>5. IsPrefix(p, p)
    BY PrefixElements, <1>0
  <2> QED
    BY <2>2, <2>3, <2>4, <2>5
<1>3. CASE Last(p) # "/"
  <2>1. d \in Seq(STRING) /\ Len(d) = Len(p) + 1 /\ d[Len(p) + 1] = "/"
        /\ \A i \in 1..Len(p) : d[i] = p[i]
    BY <1>0, <1>3
  <2>2. IsPrefix(d, q) <=> Len(p) + 1 <= Len(q) /\ q[Len(p) + 1] = "/" /\ \A i \in 1..Len(p) : p[i] = q[i]
    <3>1. IsPrefix(d, q) <=> Len(d) <= Len(q) /\ \A i \in 1..Len(d) : d[i] = q[i]
      BY <2>1, PrefixElements
    <3> HIDE DEF d
    <3> QED
      BY <1>0, <2>1, <3>1
  <2>3. Under(p, q) <=> q = p \/ IsPrefix(d, q)
    BY DEF Under
  <2>4. q = p <=> Len(q) = Len(p) /\ \A i \in 1..Len(p) : p[i] = q[i]
    BY <1>0
  <2>5. p # <<"/">>
    BY <1>3 DEF Last
  <2>6. matches_path_prefix(p, q) <=> IsPrefix(p, q) /\ (Len(q) = Len(p) \/ q[Len(p) + 1] = "/")
    BY <1>3, <2>5 DEF matches_path_prefix
  <2> HIDE DEF d
  <2> QED
    BY <1>0, <1>1, <2>2, <2>3, <2>4, <2>6
<1> QED
  BY <1>2, <1>3

\* An entry covers a URL exactly when its domain, or the rule made of it, does.
LEMMA DomainAllows ==
    ASSUME NEW u
    PROVE  normalize_allowlist_host(u.host) \in DomainSet
             <=> \E e \in allowlist : e.kind = "domain" /\ Covers(e, u)
BY DEF DomainSet, Covers, normalize_allowlist_host

LEMMA RuleAllows ==
    ASSUME allowlist \subseteq Entries, NEW u \in Urls, u.scheme \in Http
    PROVE  (\E r \in Bucket(u.scheme, normalize_allowlist_host(u.host), port_or_known_default(u)) :
               matches_path_prefix(r.path, u.path))
             <=> \E e \in allowlist : e.kind # "domain" /\ Covers(e, u)
<1> DEFINE Rule(e) == RuleOf(e.url)
           Fits(e) == /\ e.url.scheme = u.scheme
                      /\ e.url.host.name = u.host.name
                      /\ port_or_known_default(e.url) = port_or_known_default(u)
<1>0. u.path \in Seq(STRING) /\ u.path # <<>> /\ u.path[1] = "/"
  BY UrlAssumption DEF Parsed
<1>1. ASSUME NEW e \in allowlist, e.kind # "domain", e.url.scheme = u.scheme
      PROVE  matches_path_prefix(e.url.path, u.path) <=> Under(e.url.path, u.path)
  <2>1. e.url.path \in Seq(STRING) /\ e.url.path # <<>> /\ e.url.path[1] = "/"
    BY <1>1, UrlAssumption DEF Parsed
  <2> QED
    BY <1>0, <2>1, PathsAgree
<1>2. ASSUME NEW e \in allowlist, e.kind # "domain", Covers(e, u)
      PROVE  \E r \in Bucket(u.scheme, normalize_allowlist_host(u.host), port_or_known_default(u)) :
                 matches_path_prefix(r.path, u.path)
  <2>1. Fits(e) /\ Under(e.url.path, u.path)
    BY <1>2 DEF Covers
  <2>2. e.kind = "url" /\ e.url.scheme \in Http
    BY <1>2, <2>1, UrlAssumption
  <2>3. RuleOf(e.url) \in UrlPrefixRules
    BY <2>2 DEF UrlPrefixRules
  <2>4. RuleOf(e.url) \in Bucket(u.scheme, normalize_allowlist_host(u.host), port_or_known_default(u))
    BY <2>1, <2>3 DEF Bucket, RuleOf, normalize_allowlist_host
  <2>5. matches_path_prefix(RuleOf(e.url).path, u.path)
    BY <1>1, <1>2, <2>1 DEF RuleOf
  <2> QED
    BY <2>4, <2>5
<1>3. ASSUME NEW r \in Bucket(u.scheme, normalize_allowlist_host(u.host), port_or_known_default(u)),
             matches_path_prefix(r.path, u.path)
      PROVE  \E e \in allowlist : e.kind # "domain" /\ Covers(e, u)
  <2>1. PICK e \in allowlist : e.kind = "url" /\ e.url.scheme \in Http /\ r = RuleOf(e.url)
    BY <1>3 DEF Bucket, UrlPrefixRules
  <2>2. Fits(e) /\ r.path = e.url.path
    BY <1>3, <2>1 DEF Bucket, RuleOf, normalize_allowlist_host
  <2>3. Under(e.url.path, u.path)
    BY <1>1, <1>3, <2>1, <2>2
  <2> QED
    BY <2>1, <2>2, <2>3 DEF Covers
<1> QED
  BY <1>2, <1>3

LEMMA AllowlistAgrees ==
    ASSUME allowlist \subseteq Entries
    PROVE  CheckAgrees
<1> SUFFICES ASSUME NEW u \in Urls
             PROVE  /\ check_url(u) <=> u.scheme \in Http /\ \E e \in allowlist : Covers(e, u)
                    /\ check_url(u) => contains_host(u.host)
  BY DEF CheckAgrees
<1>1. check_url(u) <=> u.scheme \in Http /\ \E e \in allowlist : Covers(e, u)
  BY DomainAllows, RuleAllows DEF check_url, is_url_allowed
<1>2. ASSUME check_url(u) PROVE contains_host(u.host)
  BY <1>2 DEF check_url, is_url_allowed, contains_host, ResolverHostSet, Bucket
<1> QED
  BY <1>1, <1>2

\* The URL of a hop was checked before its name is resolved, and an address the
\* connector may use was validated for that host.
HopChecked ==
    /\ stage \in {"resolve", "connect"} => target \in Urls /\ check_url(target)
    /\ stage = "connect" =>
          \A a \in addrs : \/ IsLiteral(target.host) /\ a = Literals[target.host.name]
                           \/ a \in Addresses /\ is_safe_ip(a, target.host)

FetchInv == allowlist \subseteq Entries /\ HopChecked /\ EveryHopSafe

LEMMA FetchInitInv == FetchInit => FetchInv
BY DEF FetchInit, FetchInv, HopChecked, EveryHopSafe

\* Starting a hop for a URL that passed the check.
LEMMA HopHolds ==
    ASSUME FetchInv, NEW url \in Urls, check_url(url), Hop(url), UNCHANGED <<allowlist, links>>
    PROVE  FetchInv'
<1>1. check_url(url)' /\ EveryHopSafe'
  BY DEF FetchInv, check_url, is_url_allowed, DomainSet, UrlPrefixRules, Bucket, EveryHopSafe
<1>2. HopChecked'
  BY <1>1 DEF Hop, HopChecked, IsLiteral, check_url, is_url_allowed, DomainSet, UrlPrefixRules, Bucket
<1> QED
  BY <1>1, <1>2 DEF FetchInv

LEMMA FetchInvStep == FetchInv /\ [FetchNext]_fetchVars => FetchInv'
<1> SUFFICES ASSUME FetchInv, [FetchNext]_fetchVars PROVE FetchInv'
  OBVIOUS
<1> DEFINE Keeps == UNCHANGED <<allowlist, links>> /\ stage' \notin {"resolve", "connect"}
<1>0. ASSUME Keeps PROVE FetchInv'
  BY <1>0 DEF FetchInv, HopChecked, EveryHopSafe
<1>1. ASSUME NEW answer, Ends(answer) PROVE FetchInv'
  BY <1>0, <1>1 DEF Ends
<1>2. ASSUME NEW u \in Urls, Fetch(u) PROVE FetchInv'
  BY <1>1, <1>2, HopHolds DEF Fetch
<1>3. ASSUME NEW u \in Urls, Redirect(u) PROVE FetchInv'
  <2>1. CASE Follows(u)
    BY <1>3, <2>1, HopHolds DEF Redirect, Follows
  <2>2. CASE ~Follows(u)
    BY <1>0, <1>3, <2>2 DEF Redirect
  <2> QED
    BY <2>1, <2>2
<1>4. ASSUME NEW answer \in SUBSET Addresses, Resolve(answer) PROVE FetchInv'
  <2>1. CASE contains_host(target.host) /\ answer # {} /\ Validated(answer)
    <3>1. stage = "resolve" /\ stage' = "connect" /\ addrs' = answer /\ UNCHANGED <<allowlist, target, links>>
      BY <1>4, <2>1 DEF Resolve
    <3>2. EveryHopSafe' /\ allowlist' \subseteq Entries /\ target' \in Urls
      BY <3>1 DEF FetchInv, EveryHopSafe, HopChecked
    <3>3. check_url(target)'
      BY <3>1 DEF FetchInv, HopChecked, check_url, is_url_allowed, DomainSet, UrlPrefixRules, Bucket
    <3>4. \A a \in addrs' : a \in Addresses /\ is_safe_ip(a, target.host)'
      BY <2>1, <3>1 DEF Validated, is_safe_ip, contains_host, ResolverHostSet, DomainSet, UrlPrefixRules
    <3> QED
      BY <3>2, <3>3, <3>4 DEF FetchInv, HopChecked
  <2>2. CASE ~(contains_host(target.host) /\ answer # {} /\ Validated(answer))
    BY <1>1, <1>4, <2>2 DEF Resolve
  <2> QED
    BY <2>1, <2>2
<1>5. ASSUME NEW a \in Addresses, Connect(a) PROVE FetchInv'
  <2>1. target \in Urls /\ check_url(target) /\ a \in addrs
    BY <1>5 DEF Connect, FetchInv, HopChecked
  <2>2. PICK e \in allowlist : Covers(e, target)
    BY <2>1, AllowlistAgrees DEF FetchInv, CheckAgrees
  <2>3. \/ a.class = "global"
        \/ IsLiteral(target.host) /\ a = Literals[target.host.name]
        \/ target.host.name = "localhost" /\ a.class = "loopback"
    <3>1. to_ipv4(a).class = a.class
      BY UrlAssumption DEF to_ipv4
    <3> QED
      BY <1>5, <2>1, <3>1 DEF Connect, FetchInv, HopChecked, is_safe_ip, is_global, is_loopback
  <2>4. links' = {[url |-> target, addr |-> a]} /\ allowlist' = allowlist /\ stage' = "sent"
    BY <1>5 DEF Connect
  <2>5. EveryHopSafe'
    BY <2>2, <2>3, <2>4 DEF EveryHopSafe, IsLiteral
  <2> QED
    BY <2>4, <2>5 DEF FetchInv, HopChecked
<1>6. ASSUME NEW n \in ChunkSizes, Chunk(n) PROVE FetchInv'
  BY <1>0, <1>1, <1>6 DEF Chunk
<1>7. CASE Response
  BY <1>0, <1>7 DEF Response
<1>8. CASE BodyEnds \/ FetchFails
  BY <1>1, <1>8 DEF BodyEnds, FetchFails
<1>9. CASE UNCHANGED fetchVars
  BY <1>9 DEF fetchVars, FetchInv, HopChecked, EveryHopSafe, check_url, is_url_allowed, DomainSet, UrlPrefixRules,
      Bucket, is_safe_ip, contains_host, ResolverHostSet
<1> QED
  BY <1>2, <1>3, <1>4, <1>5, <1>6, <1>7, <1>8, <1>9 DEF FetchNext

\* CheckAgrees, for every allowlist and every URL: the normalized rules, their
\* index and the test on the character after the prefix allow exactly what the
\* entries cover, and the resolver knows the host of everything allowed.
THEOREM AllowlistIsExact == FetchSpec => []CheckAgrees
<1>1. FetchInv => CheckAgrees
  BY AllowlistAgrees DEF FetchInv
<1> QED
  BY <1>1, FetchInitInv, FetchInvStep, PTL DEF FetchSpec

\* EveryHopSafe, for every DNS answer and every chain of redirects: each
\* connection is for a covered URL and goes to an address validated for it.
THEOREM NoHopLeavesTheAllowlist == FetchSpec => []EveryHopSafe
<1>1. FetchInv => EveryHopSafe
  BY DEF FetchInv
<1> QED
  BY <1>1, FetchInitInv, FetchInvStep, PTL DEF FetchSpec
=============================================================================
