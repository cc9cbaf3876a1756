----------------------------- MODULE MCRegistry -----------------------------
(* Two processes, manifests whose names share a path, and three trust       *)
(* roots: the second revokes a key under the version that the manifests it  *)
(* signed name, the third has a new version and retires the other key.      *)
EXTENDS Registry, TLC

CONSTANTS k1, k2, k3, c1, c1f, c2, x1, x2, xl

TrustKey(status, retired, from, to) ==
    [status |-> status, usable |-> TRUE, retired_at |-> retired, not_before |-> from, not_after |-> to]
Root(version, one, two) ==
    [version |-> version,
     keys |-> [k \in {k1, k2, k3} |->
        CASE k = k1 -> one [] k = k2 -> two
          [] k = k3 -> [TrustKey("active", Empty, Empty, Empty) EXCEPT !.usable = FALSE]]]

TrustRoots ==
    <<Root("v1", TrustKey("active", Empty, Empty, 1), TrustKey("next", Empty, 2, Empty)),
      Root("v1", TrustKey("revoked", 1, Empty, Empty), TrustKey("active", Empty, Empty, Empty)),
      Root("v2", TrustKey("revoked", 1, Empty, Empty), TrustKey("retired", 1, Empty, Empty))>>

\* c1f is c1 with a number written as a float.
Spellings == [c \in {c1, c1f, c2} |-> IF c = c1f THEN c1 ELSE c]
Pins == [c \in {c1, c2} |-> IF c = c1 THEN x1 ELSE x2]

A == <<"a">>
AB == <<"a", "b">>
C == <<"c">>
BC == <<"b", "c">>

Signed(id, version, content, kid, root) ==
    [id |-> id, version |-> version, content |-> content, digest |-> Empty,
     signature |-> [by |-> kid, over |-> <<id, version, Spellings[content]>>],
     kid |-> kid, trust_root_version |-> root]
WithDigest(m, of, prefixed) == [m EXCEPT !.digest = [of |-> of, prefixed |-> prefixed]]

DraftSet ==
    {Signed(AB, C, c1f, k1, "v1"),
     WithDigest(Signed(A, BC, c2, k2, "v1"), <<A, BC, c2>>, FALSE),
     WithDigest(Signed(A, C, c2, k2, "v2"), <<A, C, c2>>, TRUE),
     \* refused: a key that is revoked or cannot be used, another digest, no signature
     Signed(A, C, c1, k1, "v2"),
     Signed(A, C, c1, k3, "v1"),
     WithDigest(Signed(A, C, c1, k1, "v1"), <<A, C, c2>>, TRUE),
     [Signed(A, C, c1, k1, "v1") EXCEPT !.signature = Empty]}

\* An object whose contents were changed after it was signed, and a genuine one.
ForeignSet ==
    {[WithDigest(Signed(AB, C, c1, k1, "v1"), <<AB, C, c1>>, TRUE) EXCEPT !.content = c2],
     WithDigest(Signed(A, C, c1, k1, "v1"), <<A, C, c1>>, TRUE)}

NameSet == {<<AB, C>>, <<A, BC>>, <<A, C>>}
ProcessSymmetry == Permutations(Registries)
=============================================================================
