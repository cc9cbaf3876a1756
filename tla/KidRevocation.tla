--------------------------- MODULE KidRevocation ---------------------------
(***************************************************************************)
(* The revocation of PASETO key ids at run time (kernel-api/src/auth.rs):  *)
(* every node keeps a static keyset read from its environment at start and *)
(* a bounded overlay of revoked kids that a listener task fills from a     *)
(* Redis pub/sub channel and from the environment, while request tasks     *)
(* verify tokens.                                                          *)
(***************************************************************************)
EXTENDS Naturals, FiniteSets, Sequences, Functions

CONSTANTS
    Nodes,          \* kernel-api processes
    KeyIds,         \* the kids tokens are signed with
    Keysets,        \* the configurations a deployment may have: [active, next,
                    \* retired, revoked] and the kids with a public key, keys
    Malformed,      \* kids outside the listener's charset or length
    MaxEntries,     \* MAX_DYNAMIC_REVOKED_KIDS
    MaxQueue,       \* bound: messages on their way to one node
    MaxDrops,       \* bound: times a subscription is lost
    MaxRestarts,    \* bound: process restarts
    NoRequest

ASSUME KidsAssumption == IsFiniteSet(KeyIds) /\ Malformed \subseteq KeyIds
ASSUME KeysetsAssumption ==
    Keysets \subseteq [active : KeyIds, next : SUBSET KeyIds, retired : SUBSET KeyIds,
                       revoked : SUBSET KeyIds, keys : SUBSET KeyIds]
ASSUME BoundsAssumption ==
    MaxEntries \in Nat /\ MaxQueue \in Nat /\ MaxDrops \in Nat /\ MaxRestarts \in Nat

VARIABLES
    config,         \* the FLEXI_PASETO_V4_* variables of the deployment
    env,            \* PASETO_KEYSET: what each process was started with
    overlay,        \* BoundedRevokedKids.kids
    saturated,      \* REVOKED_KIDS_SATURATED
    listener,       \* where the listener task of each node is
    inbox,          \* messages of the channel the listener has not read
    request,        \* one verification and its outcome: verifications write
                    \* nothing, so any one of them stands for all
    told,           \* history: kids the running process was told of and did not ignore
    drops, restarts

nodeVars == <<overlay, saturated, told>>
kidVars == <<config, env, nodeVars, listener, inbox, request, drops, restarts>>

Revoked(n, k) == saturated[n] \/ k \in env[n].revoked \/ k \in overlay[n]

-----------------------------------------------------------------------------
(***************************************************************************)
(* PasetoKeyset                                                            *)
(***************************************************************************)
Listed(c) == {c.active} \cup c.next \cup c.retired

\* load_per_kid_public_keys_from_env: every listed kid has its public key.
KeysLoaded(c) == Listed(c) \subseteq c.keys

\* validate_key_material: no kid is in two lists.  (Kids have distinct names
\* after normalization, keys have 32 bytes.)
ValidKeyMaterial(c) ==
    /\ c.active \notin c.revoked \cup c.next \cup c.retired
    /\ c.next \cap c.retired = {}
    /\ c.revoked \cap (c.next \cup c.retired) = {}

\* validate_token_kid
TokenKidAllowed(c, k) == k \notin c.revoked /\ k \in Listed(c)

(***************************************************************************)
(* insert_dynamic_revoked_kid, for the kids of K in any order.             *)
(***************************************************************************)
\* Mutant: a kid beyond the capacity is dropped.
Overflows_Dropped(kids) == FALSE

\* BoundedRevokedKids::insert returned CapacityExceeded on the way to kids.
Overflows(kids) == Cardinality(kids) > MaxEntries

Insert(n, K) ==
    LET kids == overlay[n] \cup (K \ Malformed)
    IN  /\ told' = [told EXCEPT ![n] = @ \cup (K \ Malformed)]
        /\ IF saturated[n]
           THEN UNCHANGED <<overlay, saturated>>
           ELSE /\ saturated' = [saturated EXCEPT ![n] = Overflows(kids)]
                /\ \E kept \in SUBSET kids :
                      /\ overlay[n] \subseteq kept
                      /\ Cardinality(kept) <= MaxEntries
                      /\ kept = kids \/ Cardinality(kept) = MaxEntries
                      /\ overlay' = [overlay EXCEPT ![n] = kept]

(***************************************************************************)
(* start_kid_revocation_listener                                           *)
(***************************************************************************)
\* The task starts with the kids of the environment.
Seed(n) ==
    /\ listener[n] = "seed"
    /\ Insert(n, env[n].revoked)
    /\ listener' = [listener EXCEPT ![n] = "connect"]
    /\ UNCHANGED <<config, env, inbox, request, drops, restarts>>

\* The 30 s poll; a failed connect or subscribe polls as well, and backs off.
PollEnv(n) ==
    /\ listener[n] \in {"connect", "subscribed"}
    /\ Insert(n, env[n].revoked)
    /\ UNCHANGED <<config, env, listener, inbox, request, drops, restarts>>

Subscribe(n) ==
    /\ listener[n] = "connect"
    /\ listener' = [listener EXCEPT ![n] = "subscribed"]
    /\ UNCHANGED <<config, env, nodeVars, inbox, request, drops, restarts>>

Receive(n) ==
    /\ listener[n] = "subscribed"
    /\ inbox[n] # <<>>
    /\ Insert(n, {Head(inbox[n])})
    /\ inbox' = [inbox EXCEPT ![n] = Tail(@)]
    /\ UNCHANGED <<config, env, listener, request, drops, restarts>>

\* The stream ends; what was not read is gone.
Disconnect(n) ==
    /\ listener[n] = "subscribed"
    /\ drops < MaxDrops
    /\ drops' = drops + 1
    /\ listener' = [listener EXCEPT ![n] = "connect"]
    /\ inbox' = [inbox EXCEPT ![n] = <<>>]
    /\ UNCHANGED <<config, env, nodeVars, request, restarts>>

\* An operator revokes k: a PUBLISH that reaches the nodes subscribed at this
\* moment, and a change of the deployment's configuration.
Announce(k) ==
    /\ k \notin config.revoked
    /\ config' \in {c \in Keysets : c.revoked = config.revoked \cup {k}}
    /\ \A n \in Nodes : Len(inbox[n]) < MaxQueue
    /\ inbox' = [n \in Nodes |-> IF listener[n] = "subscribed" THEN Append(inbox[n], k)
                                                              ELSE inbox[n]]
    /\ UNCHANGED <<env, nodeVars, listener, request, drops, restarts>>

\* The configuration is corrected.
Reconfigure ==
    /\ config' \in {c \in Keysets : c.revoked = config.revoked /\ c # config}
    /\ UNCHANGED <<env, nodeVars, listener, inbox, request, drops, restarts>>

\* The process ends, and with it what it was verifying.
Stop(n) ==
    /\ listener[n] # "down"
    /\ restarts < MaxRestarts
    /\ restarts' = restarts + 1
    /\ listener' = [listener EXCEPT ![n] = "down"]
    /\ inbox' = [inbox EXCEPT ![n] = <<>>]
    /\ request' = IF request # NoRequest /\ request.node = n THEN NoRequest ELSE request
    /\ UNCHANGED <<config, env, nodeVars, drops>>

\* init_auth_config: a new process reads the configuration of today; it exits
\* before it serves anything when the keyset is refused.
Start(n) ==
    /\ listener[n] = "down"
    /\ KeysLoaded(config) /\ ValidKeyMaterial(config)
    /\ env' = [env EXCEPT ![n] = config]
    /\ overlay' = [overlay EXCEPT ![n] = {}]
    /\ saturated' = [saturated EXCEPT ![n] = FALSE]
    /\ told' = [told EXCEPT ![n] = config.revoked]
    /\ listener' = [listener EXCEPT ![n] = "seed"]
    /\ UNCHANGED <<config, inbox, request, drops, restarts>>

(***************************************************************************)
(* verify_paseto_v4_public_from_env_token: the saturation flag and the     *)
(* overlay are read one after the other.                                   *)
(***************************************************************************)
\* Mutant: the flag is not looked at.
FailsClosed_Never(n) == FALSE

FailsClosed(n) == saturated[n]

\* auth_middleware takes the token of the Authorization header to the flag,
\* the kid of its footer to validate_token_kid on the static keyset.
Authenticate(n, k) ==
    /\ request = NoRequest
    /\ listener[n] # "down"
    /\ ~FailsClosed(n)
    /\ TokenKidAllowed(env[n], k)
    /\ request' = [node |-> n, kid |-> k, at |-> "overlay", known |-> k \in told[n]]
    /\ UNCHANGED <<config, env, nodeVars, listener, inbox, drops, restarts>>

VerifyOverlay ==
    /\ request # NoRequest /\ request.at = "overlay"
    /\ request' = IF request.kid \in overlay[request.node] THEN NoRequest
                  ELSE [request EXCEPT !.at = "signature"]
    /\ UNCHANGED <<config, env, nodeVars, listener, inbox, drops, restarts>>

\* The signature under the key of the kid, then nbf, exp and the tenant id of
\* the claims; 401 or 403 when one of them is wrong.
VerifyToken ==
    /\ request # NoRequest /\ request.at = "signature"
    /\ \/ request.kid \in env[request.node].keys /\ request' = [request EXCEPT !.at = "accepted"]
       \/ request' = NoRequest
    /\ UNCHANGED <<config, env, nodeVars, listener, inbox, drops, restarts>>

Respond ==
    /\ request # NoRequest /\ request.at = "accepted"
    /\ request' = NoRequest
    /\ UNCHANGED <<config, env, nodeVars, listener, inbox, drops, restarts>>

-----------------------------------------------------------------------------
KidInit ==
    /\ config \in {c \in Keysets : c.revoked = {} /\ KeysLoaded(c) /\ ValidKeyMaterial(c)}
    /\ env = [n \in Nodes |-> config]
    /\ overlay = [n \in Nodes |-> {}]
    /\ saturated = [n \in Nodes |-> FALSE]
    /\ listener = [n \in Nodes |-> "seed"]
    /\ inbox = [n \in Nodes |-> <<>>]
    /\ request = NoRequest
    /\ told = [n \in Nodes |-> {}]
    /\ drops = 0
    /\ restarts = 0

ListenerStep(n) == Seed(n) \/ Subscribe(n) \/ Receive(n)

KidNext ==
    \/ \E k \in KeyIds : Announce(k)
    \/ Reconfigure
    \/ \E n \in Nodes :
          \/ ListenerStep(n) \/ PollEnv(n) \/ Disconnect(n) \/ Stop(n) \/ Start(n)
          \/ \E k \in KeyIds : Authenticate(n, k)
    \/ VerifyOverlay \/ VerifyToken \/ Respond

KidSpec == KidInit /\ [][KidNext]_kidVars

\* The listener task is scheduled and its connection attempts succeed in the end.
FairKidSpec == KidSpec /\ \A n \in Nodes : WF_kidVars(ListenerStep(n))

-----------------------------------------------------------------------------
(***************************************************************************)
(* A verification that begins after the process was told of a revocation   *)
(* never accepts the kid: not when the overlay is full (it fails closed),  *)
(* not when it fills up between the two checks, not after a restart.       *)
(***************************************************************************)
RevokedIsRejected ==
    request # NoRequest /\ request.at = "accepted" => ~request.known

(***************************************************************************)
(* A revocation that reached a node takes effect on it, unless the node    *)
(* loses its subscription first or the kid is one the listener ignores.    *)
(***************************************************************************)
ReceivedTakesEffect ==
    \A n \in Nodes, k \in KeyIds \ Malformed :
        k \in Range(inbox[n]) ~> Revoked(n, k) \/ listener[n] # "subscribed"
=============================================================================
