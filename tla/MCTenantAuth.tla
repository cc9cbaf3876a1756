---------------------------- MODULE MCTenantAuth ----------------------------
(***************************************************************************)
(* Keys and tokens on a small instance, in two parts so that each gets the *)
(* bounds it needs: in "keys" a rotation interleaves with two revocations  *)
(* and no token is generated; in "tokens" a token is presented by two      *)
(* contexts of its tenant and one of another while its key is rotated,     *)
(* pruned and revoked, one revocation at a time.                           *)
(***************************************************************************)
EXTENDS TenantAuth

CONSTANTS
    s1, s2, s3, t1, acme, globex,
    KeysUntil,      \* bound: the clock, in "keys"
    TokenKids,      \* bound: keys ever created, in "tokens"
    ReadUntil       \* bound: the clock when a signing key is read

VARIABLE part

mcVars == <<authVars, part>>

TokenTenants == t1 :> acme
SessionTenants == s1 :> acme @@ s2 :> acme @@ s3 :> globex

InstanceSymmetry ==
    {f @@ g : f \in Permutations({s1, s2}), g \in Permutations(Revokers)}

MCInit == AuthInit /\ part \in {"keys", "tokens"}

OneRevoker == Cardinality({q \in Revokers : Open(q)}) <= 1
EnoughKids ==
    Cardinality(Free \cap 1..TokenKids) >= 2 * (1 + Cardinality({p \in Processes : Open(p)}))

KeysPart == part = "keys" /\ KeyNext /\ now' <= KeysUntil /\ UNCHANGED tokenVars

TokensPart ==
    /\ part = "tokens"
    /\ AuthNext
    /\ OneRevoker'
    /\ (\E t \in Tokens : token[t] = None /\ token'[t] # None) => now <= ReadUntil
    /\ (\E p \in Processes : ~Open(p) /\ Open(p)') => EnoughKids

MCNext == (KeysPart \/ TokensPart) /\ UNCHANGED part

MCSpec == MCInit /\ [][MCNext]_mcVars
=============================================================================
