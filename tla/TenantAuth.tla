----------------------------- MODULE TenantAuth -----------------------------
(***************************************************************************)
(* Tenant tokens over the keys of KeyManager: generate_tenant_token signs  *)
(* with the active HMAC key, flexi.authorize_tenant verifies the token and *)
(* consumes its nonce inside the transaction that with_tenant_tx runs the  *)
(* caller's closure in.                                                    *)
(***************************************************************************)
EXTENDS KeyManager, Sequences

CONSTANTS
    Tokens,         \* tokens that are generated
    Sessions,       \* concurrent with_tenant_tx calls
    TokenTenant,    \* the tenant each token names
    SessionTenant,  \* the tenant of the TenantContext of each call
    TokenWindow     \* 30 seconds

\* Tokens and transactions are short compared to the life of a retired key.
ASSUME WindowAssumption ==
    /\ TokenWindow \in Nat
    /\ 2 * TxnTime + TokenWindow < RetireWindow

\* None is neither a token nor a session.
ASSUME TokenAssumption ==
    /\ None \notin [kid : Kids, read_at : Nat, ts : Nat \cup {None}]
    /\ None \notin [token : Tokens, scoped : BOOLEAN]

VARIABLES
    token,          \* the kid a token is signed with and its timestamp
    nonces,         \* tokens whose nonce is in flexi_nonce (committed)
    session,        \* the token of each open transaction and whether the
                    \* closure runs in it (TenantScoped), or None
    commits         \* the tenants of the contexts that committed under a token

tokenVars == <<token, nonces, session, commits>>
authVars == <<keyVars, tokenVars>>

\* authorize_tenant: WHERE state IN (...) AND (state != 'retired' OR ...)
KeyAccepted(k) ==
    /\ rows[k] # None
    /\ \/ rows[k].state \in {"Active", "Next"}
       \/ rows[k].state = "Retired" /\ rows[k].retired_at > now - RetireWindow

\* generate_tenant_token: the active key is read without a lock ...
ReadSigningKey(t) ==
    /\ token[t] = None
    /\ \E k \in InState("Active") :
          token' = [token EXCEPT ![t] = [kid |-> k, read_at |-> now, ts |-> None]]
    /\ UNCHANGED <<keyVars, nonces, session, commits>>

\* ... and used to sign a timestamp taken afterwards.
SignToken(t) ==
    /\ token[t] # None /\ token[t].ts = None
    /\ token' = [token EXCEPT ![t].ts = now]
    /\ UNCHANGED <<keyVars, nonces, session, commits>>

Signed(t) == token[t] # None /\ token[t].ts # None
InWindow(t) == now - token[t].ts <= TokenWindow

\* Session s has an open transaction that inserted the nonce of t.
Holds(s, t) == session[s] # None /\ session[s].token = t

\* Mutant: the nonce is looked up instead of inserted under a unique index.
NonceFree_Looked(s, t) == t \notin nonces

\* The INSERT of the nonce waits for an open transaction with the same nonce
\* and fails on a committed one.
NonceFree(s, t) == t \notin nonces /\ \A o \in Sessions \ {s} : ~Holds(o, t)

\* with_tenant_tx: BEGIN and authorize_tenant, which binds the transaction to
\* the token's tenant; any failed check rolls back.
Authorize(s, t) ==
    /\ session[s] = None
    /\ Signed(t) /\ InWindow(t)
    /\ KeyAccepted(token[t].kid)
    /\ NonceFree(s, t)
    /\ session' = [session EXCEPT ![s] = [token |-> t, scoped |-> FALSE]]
    /\ UNCHANGED <<keyVars, token, nonces, commits>>

\* parse_tenant_from_token, and the comparison with ctx.tenant_id().
TenantAgrees(s, t) == TokenTenant[t] = SessionTenant[s]

\* The closure only runs in a TenantScoped transaction; a mismatch rolls back,
\* which gives the nonce back.
CheckTenant(s) ==
    /\ session[s] # None /\ ~session[s].scoped
    /\ session' = [session EXCEPT ![s] =
          IF TenantAgrees(s, session[s].token) THEN [@ EXCEPT !.scoped = TRUE] ELSE None]
    /\ UNCHANGED <<keyVars, token, nonces, commits>>

\* The closure succeeded; the commit takes effect whether or not its reply
\* arrives (CommitUnknown).
CommitSession(s) ==
    /\ session[s] # None /\ session[s].scoped
    /\ nonces' = nonces \cup {session[s].token}
    /\ commits' = [commits EXCEPT ![session[s].token] = Append(@, SessionTenant[s])]
    /\ session' = [session EXCEPT ![s] = None]
    /\ UNCHANGED <<keyVars, token>>

\* The closure failed, or the connection was lost: the nonce is free again.
RollbackSession(s) ==
    /\ session[s] # None
    /\ session' = [session EXCEPT ![s] = None]
    /\ UNCHANGED <<keyVars, token, nonces, commits>>

\* A generator does not sit on the key it read for longer than TxnTime.
Prompt ==
    \A t \in Tokens : token[t] # None /\ token[t].ts = None => now < token[t].read_at + TxnTime

AuthInit ==
    /\ KeyInit
    /\ token = [t \in Tokens |-> None]
    /\ nonces = {}
    /\ session = [s \in Sessions |-> None]
    /\ commits = [t \in Tokens |-> <<>>]

KeyStep ==
    \/ \E p \in Rotators : RotateNext(p)
    \/ \E p \in Revokers : RevokeNext(p)
    \/ \E p \in Processes : Abort(p)
    \/ Prompt /\ Tick

AuthNext ==
    \/ KeyStep /\ UNCHANGED tokenVars
    \/ \E t \in Tokens : ReadSigningKey(t) \/ SignToken(t)
    \/ \E s \in Sessions, t \in Tokens : Authorize(s, t)
    \/ \E s \in Sessions : CheckTenant(s) \/ CommitSession(s) \/ RollbackSession(s)

AuthSpec == AuthInit /\ [][AuthNext]_authVars

-----------------------------------------------------------------------------
(***************************************************************************)
(* Rotation never invalidates a token that is still in its window: until   *)
(* its key is revoked, authorize_tenant finds and accepts the key, however *)
(* the rotation and the pruning of retired keys interleave with signing.   *)
(***************************************************************************)
OutstandingTokenVerifies ==
    \A t \in Tokens : Signed(t) /\ InWindow(t) =>
        KeyAccepted(token[t].kid) \/ HasState(rows[token[t].kid], "Revoked")

(***************************************************************************)
(* A token is spent exactly by a committed transaction of the tenant it    *)
(* names, and by one only, even when several sessions present it at once   *)
(* and again after a rollback.  A context of another tenant that presents  *)
(* it holds its nonce for a while, but neither runs its closure nor uses   *)
(* the token up.                                                           *)
(***************************************************************************)
SpentOnceByItsTenant ==
    \A t \in Tokens :
        /\ t \in nonces <=> commits[t] # <<>>
        /\ commits[t] # <<>> => commits[t] = <<TokenTenant[t]>>
=============================================================================
