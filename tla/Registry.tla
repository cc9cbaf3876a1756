------------------------------ MODULE Registry ------------------------------
(***************************************************************************)
(* kernel-registry for one tenant: RegistryStorage instances in several    *)
(* processes over one bucket, each with the trust root that its            *)
(* FileTrustProvider read when the process started.                        *)
(*                                                                         *)
(* Verification and the call to the object store are separate steps: the   *)
(* clock, the bucket and the trust root file move between them.  A put     *)
(* that fails may have taken effect.  Other programs write to the bucket   *)
(* too; that is what the digests are for.                                  *)
(*                                                                         *)
(* A digest is what it is the digest of: SHA-384 is taken to be injective. *)
(* A key of the bucket is the sequence of its path segments.               *)
(***************************************************************************)
EXTENDS Naturals, Sequences

CONSTANTS
    Registries,     \* processes that hold a RegistryStorage
    Roots,          \* the contents of the trust root file, in order of time
    Drafts,         \* the manifests that callers give to save_manifest
    Names,          \* the (id, version) pairs that callers ask for
    Artifacts,      \* the artifacts that callers give to save_artifact
    Foreign,        \* what other programs put where manifests are kept
    Spelling,       \* content -> the same content with its numbers normalised
    Pin,            \* content -> the artifact whose digest its dependencies name
    TooLarge,       \* artifacts beyond ARTIFACT_MAX_BYTES
    Drift,          \* CLOCK_DRIFT_TOLERANCE_SECONDS
    Grace,          \* RETIRED_KEY_GRACE_PERIOD_SECONDS
    MaxNow,         \* bound: the clock
    MaxFailures,    \* bound: failed puts, restarts and foreign writes
    Empty           \* a field that is empty, an object or a key that is absent

ASSUME ClockAssumption == Drift \in Nat /\ Grace \in Nat /\ MaxNow \in Nat
ASSUME FailureAssumption == MaxFailures \in Nat

Kids == DOMAIN Roots[1].keys
Payload == Seq(STRING) \X Seq(STRING) \X DOMAIN Spelling
\* DistManifest with its SecuritySection.
Manifest ==
    [id : Seq(STRING), version : Seq(STRING), content : DOMAIN Spelling,
     digest : [of : Payload, prefixed : BOOLEAN] \cup {Empty},
     signature : [by : Kids, over : Payload] \cup {Empty},
     kid : Kids \cup {Empty},
     trust_root_version : STRING \cup {Empty}]

ASSUME ManifestAssumption == Drafts \subseteq Manifest /\ Foreign \subseteq Manifest
\* Other programs may write a digest with or without its prefix.
ASSUME ForeignAssumption ==
    \A m \in Foreign : m.digest # Empty => [m EXCEPT !.digest.prefixed = TRUE] \in Foreign
ASSUME SpellingAssumption == Spelling \in [DOMAIN Spelling -> DOMAIN Spelling]
ASSUME RootsAssumption ==
    /\ 1 \in DOMAIN Roots
    /\ DOMAIN Roots = 1..Len(Roots) /\ Len(Roots) \in Nat
    /\ \A i \in DOMAIN Roots : DOMAIN Roots[i].keys = Kids
\* A key that a trust root revokes stays revoked in those that follow.
ASSUME RevocationAssumption ==
    \A i, j \in DOMAIN Roots : i <= j =>
        \A kid \in Kids :
            /\ Roots[i].keys[kid] # Empty
            /\ Roots[i].keys[kid].status = "revoked"
            => Roots[j].keys[kid] # Empty /\ Roots[j].keys[kid].status = "revoked"

VARIABLES
    now,            \* SystemTime::now()
    file,           \* which of Roots the trust root file holds
    trust_root,     \* which of Roots each process has loaded; 0 when it is down
    manifests,      \* the manifest objects of the bucket, by path
    artifact,       \* the artifact object of the bucket
    op,             \* what each process is in the middle of
    returned,       \* the manifest get_manifest returned, with the name it was
                    \* asked for, until the next call that is about a manifest
    installed,      \* the artifact fetched with the pin of that manifest
    failures

bucket == <<manifests, artifact>>
answers == <<returned, installed>>
registryVars == <<now, file, trust_root, bucket, op, answers, failures>>

Failure == failures < MaxFailures /\ failures' = failures + 1
Idle(p) == trust_root[p] # 0 /\ op[p] = Empty
Do(p, o) == op' = [op EXCEPT ![p] = o]
Forget(p) ==
    /\ returned' = [returned EXCEPT ![p] = Empty]
    /\ installed' = [installed EXCEPT ![p] = Empty]

-----------------------------------------------------------------------------
(***************************************************************************)
(* Paths.  A name is a pair of sequences of segments.                      *)
(***************************************************************************)
\* validate_key; segments with control characters, backslashes or encoded slashes,
\* which it refuses too, are not among the names of the model.
ValidKey(key) == key # <<>> /\ \A i \in DOMAIN key : key[i] \notin {"", ".", ".."}
ValidName(id, version) == ValidKey(id) /\ ValidKey(version)

manifest_path(id, version) == <<"manifests">> \o id \o version

Paths ==
    {manifest_path(d.id, d.version) : d \in Drafts}
        \cup {manifest_path(name[1], name[2]) : name \in Names}

-----------------------------------------------------------------------------
(***************************************************************************)
(* Manifests.  security.manifest_digest is Empty or a digest with or       *)
(* without its "sha384-" prefix; a signature is Empty or the key that made *)
(* it and the prefixed digest it was made over.                            *)
(***************************************************************************)
\* manifest_payload_digest with normalize_value: 1.0 and 1 are one content.
manifest_payload_digest(m) == <<m.id, m.version, Spelling[m.content]>>

\* FileTrustProvider::get_key_at: the errors that keep a key from being used.
Key(p, kid) == Roots[trust_root[p]].keys[kid]
NotYetValid(k) == k.not_before # Empty /\ now + Drift < k.not_before
Expired(k) == k.not_after # Empty /\ now > k.not_after + Drift

KeyStatusKnown(k) == k.status \in {"active", "next", "retired"}

get_key_at(p, kid) ==
    /\ Key(p, kid) # Empty
    /\ KeyStatusKnown(Key(p, kid))
    /\ Key(p, kid).usable
    /\ ~NotYetValid(Key(p, kid))
    /\ ~Expired(Key(p, kid))

\* verify_manifest of kernel-core: the grace period of a retired key, and the
\* signature.  (It looks at the validity window once more.)
RetiredOutOfWindow(k) ==
    k.status = "retired" /\ (k.retired_at = Empty \/ now >= k.retired_at + Grace)

verify_manifest(p, m, digest) ==
    /\ ~RetiredOutOfWindow(Key(p, m.kid))
    /\ ~NotYetValid(Key(p, m.kid)) /\ ~Expired(Key(p, m.kid))
    /\ m.signature = [by |-> m.kid, over |-> digest]

\* Mutant: the stored digest is verified, not the one of the contents.
DigestAgrees_Stored(m) == m.digest # Empty
DigestAgrees(m) == m.digest # Empty /\ m.digest.of = manifest_payload_digest(m)

\* verify_and_canonicalize_manifest returns Ok.
Verifies(p, m) ==
    /\ Empty \notin {m.signature, m.kid, m.trust_root_version}
    /\ m.trust_root_version = Roots[trust_root[p]].version
    /\ DigestAgrees(m)
    /\ get_key_at(p, m.kid)
    /\ verify_manifest(p, m, m.digest.of)

Canonical(m) == [m EXCEPT !.digest.prefixed = TRUE]

\* save_manifest fills in an empty digest and gives any other its prefix.
Persisted(m) == [m EXCEPT !.digest = [of |-> manifest_payload_digest(m), prefixed |-> TRUE]]
DigestAccepted(m) == m.digest = Empty \/ DigestAgrees(m)

-----------------------------------------------------------------------------
(***************************************************************************)
(* save_manifest                                                           *)
(***************************************************************************)
\* Mutant: the caller's manifest is stored, not the one that was verified.
SaveManifest_AsGiven(p, m) ==
    /\ Idle(p)
    /\ ValidName(m.id, m.version)
    /\ DigestAccepted(m)
    /\ Verifies(p, Persisted(m))
    /\ Do(p, [call |-> "put", m |-> m])
    /\ Forget(p)
    /\ UNCHANGED <<now, file, trust_root, bucket, failures>>

SaveManifest(p, m) ==
    /\ Idle(p)
    /\ ValidName(m.id, m.version)
    /\ DigestAccepted(m)
    /\ Verifies(p, Persisted(m))
    /\ Do(p, [call |-> "put", m |-> Persisted(m)])
    /\ Forget(p)
    /\ UNCHANGED <<now, file, trust_root, bucket, failures>>

Store(m) == manifests' = [manifests EXCEPT ![manifest_path(m.id, m.version)] = m]

PutManifest(p) ==
    /\ op[p] # Empty /\ op[p].call = "put"
    /\ Store(op[p].m)
    /\ Do(p, Empty)
    /\ UNCHANGED <<now, file, trust_root, artifact, answers, failures>>

PutManifestFails(p) ==
    /\ op[p] # Empty /\ op[p].call = "put"
    /\ Failure
    /\ Store(op[p].m) \/ UNCHANGED manifests
    /\ Do(p, Empty)
    /\ UNCHANGED <<now, file, trust_root, artifact, answers>>

(***************************************************************************)
(* get_manifest                                                            *)
(***************************************************************************)
\* An object that is absent, unreadable or not a manifest ends the call.
ReadManifest(p, name) ==
    /\ Idle(p)
    /\ ValidName(name[1], name[2])
    /\ LET m == manifests[manifest_path(name[1], name[2])]
       IN  m # Empty /\ Do(p, [call |-> "verify", m |-> m, name |-> name])
    /\ Forget(p)
    /\ UNCHANGED <<now, file, trust_root, bucket, failures>>

\* Mutant: the key is taken to be the one that was checked by save_manifest.
ReturnManifest_KeyOnceChecked(p) ==
    /\ op[p] # Empty /\ op[p].call = "verify"
    /\ LET m == op[p].m
       IN  /\ m.trust_root_version = Roots[trust_root[p]].version
           /\ DigestAgrees(m)
           /\ verify_manifest(p, m, m.digest.of)
           /\ returned' = [returned EXCEPT ![p] = [m |-> Canonical(m), name |-> op[p].name]]
    /\ Do(p, Empty)
    /\ UNCHANGED <<now, file, trust_root, bucket, installed, failures>>

ReturnManifest(p) ==
    /\ op[p] # Empty /\ op[p].call = "verify"
    /\ LET m == op[p].m
       IN  \/ /\ Verifies(p, m)
              /\ returned' = [returned EXCEPT ![p] =
                                 [m |-> Canonical(m), name |-> op[p].name]]
           \/ ~Verifies(p, m) /\ UNCHANGED returned
    /\ Do(p, Empty)
    /\ UNCHANGED <<now, file, trust_root, bucket, installed, failures>>

-----------------------------------------------------------------------------
(***************************************************************************)
(* Artifacts.  The model follows one key of the bucket.                    *)
(***************************************************************************)
\* save_artifact; the put takes effect, whether or not the call says so.
SaveArtifact(p, a) ==
    /\ Idle(p)
    /\ a \notin TooLarge
    /\ artifact' = a
    /\ UNCHANGED <<now, file, trust_root, manifests, op, answers, failures>>

\* Mutant: the digest of what was read is not compared.
Serves_Unchecked(expected) == artifact # Empty /\ artifact \notin TooLarge

\* get_artifact(key, Some(expected)) returns the object.
Serves(expected) == artifact # Empty /\ artifact \notin TooLarge /\ artifact = expected

\* An installer asks for the artifact its manifest pins.
GetArtifact(p) ==
    /\ Idle(p)
    /\ returned[p] # Empty
    /\ Serves(Pin[Spelling[returned[p].m.content]])
    /\ installed' = [installed EXCEPT ![p] = artifact]
    /\ UNCHANGED <<now, file, trust_root, bucket, op, returned, failures>>

-----------------------------------------------------------------------------
(***************************************************************************)
(* The world: processes, the trust root file, the bucket and the clock.    *)
(***************************************************************************)
\* FileTrustProvider::new and RegistryStorage::new
Start(p) ==
    /\ trust_root[p] = 0
    /\ trust_root' = [trust_root EXCEPT ![p] = file]
    /\ UNCHANGED <<now, file, bucket, op, answers, failures>>

\* What the process was in the middle of is lost.
Stop(p) ==
    /\ trust_root[p] # 0
    /\ Failure
    /\ trust_root' = [trust_root EXCEPT ![p] = 0]
    /\ Do(p, Empty)
    /\ Forget(p)
    /\ UNCHANGED <<now, file, bucket>>

PublishTrustRoot ==
    /\ file < Len(Roots)
    /\ file' = file + 1
    /\ UNCHANGED <<now, trust_root, bucket, op, answers, failures>>

ForeignWrite ==
    /\ Failure
    /\ \/ /\ \E path \in Paths, m \in Foreign : manifests' = [manifests EXCEPT ![path] = m]
          /\ UNCHANGED artifact
       \/ \E a \in Artifacts \cup TooLarge : artifact' = a /\ UNCHANGED manifests
    /\ UNCHANGED <<now, file, trust_root, op, answers>>

Tick ==
    /\ now < MaxNow
    /\ now' = now + 1
    /\ UNCHANGED <<file, trust_root, bucket, op, answers, failures>>

RegistryInit ==
    /\ now = 0
    /\ file = 1
    /\ trust_root = [p \in Registries |-> 0]
    /\ manifests = [path \in Paths |-> Empty]
    /\ artifact = Empty
    /\ op = [p \in Registries |-> Empty]
    /\ returned = [p \in Registries |-> Empty]
    /\ installed = [p \in Registries |-> Empty]
    /\ failures = 0

RegistryNext ==
    \/ \E p \in Registries :
          \/ Start(p) \/ Stop(p)
          \/ \E m \in Drafts : SaveManifest(p, m)
          \/ PutManifest(p) \/ PutManifestFails(p)
          \/ \E name \in Names : ReadManifest(p, name)
          \/ ReturnManifest(p)
          \/ \E a \in Artifacts : SaveArtifact(p, a)
          \/ GetArtifact(p)
    \/ PublishTrustRoot \/ ForeignWrite \/ Tick

RegistrySpec == RegistryInit /\ [][RegistryNext]_registryVars

-----------------------------------------------------------------------------
RegistryTypeOK ==
    /\ file \in DOMAIN Roots
    /\ trust_root \in [Registries -> DOMAIN Roots \cup {0}]
    /\ manifests \in [Paths -> Manifest \cup {Empty}]
    /\ op \in [Registries -> [call : {"put"}, m : Manifest]
                \cup [call : {"verify"}, m : Manifest, name : Names] \cup {Empty}]
    /\ returned \in [Registries -> [m : Manifest, name : Names] \cup {Empty}]
    /\ DOMAIN installed = Registries

(***************************************************************************)
(* What get_manifest(id, version) returns is, up to the spelling of        *)
(* numbers, what the owner of a key of the process's trust root signed,    *)
(* whatever was written to the bucket between the save, the read and the   *)
(* verification.  If save_manifest stored it, it has that id and version,  *)
(* up to the place of the slash between them: both may contain slashes, so *)
(* a/b with version c and a with version b/c share one object.  (The code  *)
(* does not compare the names: what another program puts at a path is      *)
(* returned under the name of that path.)                                  *)
(***************************************************************************)
ReturnedIsSigned ==
    \A p \in Registries : returned[p] # Empty =>
        LET m == returned[p].m  name == returned[p].name
        IN  /\ m.signature.by = m.kid
            /\ m.signature.over = <<m.id, m.version, Spelling[m.content]>>
            /\ Key(p, m.kid) # Empty
            /\ m \in Foreign \/ manifest_path(m.id, m.version) = manifest_path(name[1], name[2])

(***************************************************************************)
(* A process that was started after the trust root that revokes a key had  *)
(* been published returns no manifest signed with it, although such a      *)
(* manifest was saved and served before and is still in the bucket.  (A    *)
(* process that is still up keeps to the trust root it loaded.)            *)
(***************************************************************************)
RevokedNotReturned ==
    \A p \in Registries : returned[p] # Empty =>
        \A i \in 1..trust_root[p] :
            LET k == Roots[i].keys[returned[p].m.kid]
            IN  k # Empty => k.status # "revoked"

(***************************************************************************)
(* A manifest that save_manifest put into the bucket can be read back by   *)
(* every process, at any later time, as long as the trust root of that     *)
(* process has the version the manifest names and lets its key be used.    *)
(* A new version of the trust root makes every stored manifest unreadable  *)
(* for the processes that load it.                                         *)
(***************************************************************************)
SavedIsReadable ==
    \A p \in Registries, path \in Paths :
        LET m == manifests[path]
        IN  /\ trust_root[p] # 0
            /\ m # Empty /\ m \notin Foreign
            /\ m.trust_root_version = Roots[trust_root[p]].version
            /\ get_key_at(p, m.kid)
            /\ ~RetiredOutOfWindow(Key(p, m.kid))
            => Verifies(p, m)

(***************************************************************************)
(* The artifact an installer gets with the digest from a manifest is the   *)
(* one whose digest the signer of that manifest signed, even if either     *)
(* object is overwritten between the two calls.                            *)
(***************************************************************************)
InstalledIsSigned ==
    \A p \in Registries : installed[p] # Empty =>
        installed[p] = Pin[returned[p].m.signature.over[3]]

\* A manifest is at the path of its name unless another program put it there.
AtItsPath(m, path) == m \in Foreign \/ manifest_path(m.id, m.version) = path
StoredAtItsPath ==
    /\ \A path \in Paths : manifests[path] # Empty => AtItsPath(manifests[path], path)
    /\ \A p \in Registries : op[p] # Empty /\ op[p].call = "verify" =>
          AtItsPath(op[p].m, manifest_path(op[p].name[1], op[p].name[2]))

\* What a process does and has returned it did under the trust root it has; the
\* key is one this root lets it use; nothing is installed while it reads anew.
ReturnedUnderItsRoot ==
    /\ \A p \in Registries : op[p] # Empty => trust_root[p] # 0
    /\ \A p \in Registries : returned[p] # Empty =>
          /\ trust_root[p] # 0
          /\ returned[p].m.kid \in Kids /\ returned[p].m.signature # Empty
          /\ KeyStatusKnown(Key(p, returned[p].m.kid))
    /\ \A p \in Registries : returned[p] = Empty \/ op[p] # Empty => installed[p] = Empty

\* What save_manifest lets through is complete and signed over its own digest.
WellSigned(m) ==
    m \in Foreign \/
        /\ Empty \notin {m.signature, m.kid, m.trust_root_version}
        /\ DigestAgrees(m)
        /\ m.signature = [by |-> m.kid, over |-> m.digest.of]
SavedIsWellSigned ==
    /\ \A path \in Paths : manifests[path] # Empty => WellSigned(manifests[path])
    /\ \A p \in Registries : op[p] # Empty /\ op[p].call = "put" => WellSigned(op[p].m)

\* The inductive invariant.
RegistryInv ==
    /\ RegistryTypeOK
    /\ StoredAtItsPath /\ ReturnedUnderItsRoot
    /\ ReturnedIsSigned /\ InstalledIsSigned
=============================================================================
