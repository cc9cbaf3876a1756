---------------------------- MODULE SandboxFetch ----------------------------
(***************************************************************************)
(* The network access of sandboxed code (kernel-runtime): the normalized   *)
(* allowlist, check_url, the resolver that validates every answer of the   *)
(* DNS, and a fetch with its redirects, as op_fetch (Deno) and flexi_fetch *)
(* (Wasm) run it.                                                          *)
(*                                                                         *)
(* The URL is checked first and the name resolved later, once for every    *)
(* connection; the DNS may answer differently each time, and a server may  *)
(* redirect anywhere.  A path is a sequence of characters; a host is its   *)
(* name and the form it is written in (upper case, or in brackets).        *)
(***************************************************************************)
EXTENDS Naturals, Sequences, SequencesExt

CONSTANTS
    Entries,        \* the entries an allowlist may have, parsed
    Urls,           \* what scripts and redirects ask for, parsed
    Addresses,      \* IP addresses: [class, mapped]
    Literals,       \* the hosts that are IP literals, and their addresses
    MaxPrevious,    \* redirects stop at so many previous URLs (10)
    BodyLimit,      \* MAX_FETCH_BODY_BYTES
    ChunkSizes      \* bound: the sizes of the chunks a server sends

ASSUME FetchAssumption == MaxPrevious \in Nat /\ BodyLimit \in Nat /\ ChunkSizes \subseteq Nat

Http == {"http", "https"}

\* What url::Url::parse gives: the path of an http(s) URL starts with a slash.
Parsed(url) ==
    /\ url \in [scheme : STRING, host : [name : STRING, form : STRING], port : Nat, path : Seq(STRING)]
    /\ url.scheme \in Http => url.path # <<>> /\ url.path[1] = "/"

ASSUME UrlAssumption ==
    /\ \A u \in Urls : Parsed(u)
    /\ \A e \in Entries : e.kind = "domain" \/ (e.kind = "url" /\ Parsed(e.url))
    /\ Addresses \subseteq [class : STRING, mapped : BOOLEAN]

VARIABLES
    sandbox,        \* whose client it is: "deno" or "wasm"
    allowlist,      \* permissions.network_allowlist
    stage,          \* "idle", "resolve", "connect", "sent", "body"
    target,         \* the URL of the current hop
    previous,       \* how many URLs came before it
    addrs,          \* the addresses the connector may use
    body,           \* bytes of body read
    links,          \* history: the last connection, {[url, addr]} or {}
    fetched         \* what the last fetch gave the script

fetchVars == <<sandbox, allowlist, stage, target, previous, addrs, body, links, fetched>>

-----------------------------------------------------------------------------
(***************************************************************************)
(* The allowlist.  An entry that parses as a URL ("host:port" does, with   *)
(* the host for a scheme) is a prefix rule, or nothing at all when its     *)
(* scheme is not http(s); every other entry is a domain.                   *)
(***************************************************************************)
normalize_allowlist_host(host) == host.name

port_or_known_default(url) ==
    CASE url.port # 0         -> url.port
      [] url.scheme = "http"  -> 80
      [] url.scheme = "https" -> 443
      [] OTHER                -> 0

\* Mutant: a string prefix is enough.
matches_path_prefix_Anywhere(prefix, path) == IsPrefix(prefix, path)

matches_path_prefix(prefix, path) ==
    \/ prefix = <<"/">>
    \/ /\ IsPrefix(prefix, path)
       /\ \/ Len(path) = Len(prefix)
          \/ Last(prefix) = "/"
          \/ path[Len(prefix) + 1] = "/"

\* UrlPrefixRule::from_url
RuleOf(url) ==
    [scheme |-> url.scheme, host |-> normalize_allowlist_host(url.host),
     port |-> port_or_known_default(url), path |-> url.path]

UrlPrefixRules == {RuleOf(e.url) : e \in {x \in allowlist : x.kind = "url" /\ x.url.scheme \in Http}}
DomainSet == {normalize_allowlist_host(e.host) : e \in {x \in allowlist : x.kind = "domain"}}
ResolverHostSet == DomainSet \cup {r.host : r \in UrlPrefixRules}

\* url_prefix_rule_index.get
Bucket(scheme, host, port) ==
    {r \in UrlPrefixRules : r.scheme = scheme /\ r.host = host /\ r.port = port}

contains_host(host) == normalize_allowlist_host(host) \in ResolverHostSet

is_url_allowed(url) ==
    LET host == normalize_allowlist_host(url.host) IN
    \/ host \in DomainSet
    \/ \E r \in Bucket(url.scheme, host, port_or_known_default(url)) :
          matches_path_prefix(r.path, url.path)

check_url(url) == url.scheme \in Http /\ is_url_allowed(url)

-----------------------------------------------------------------------------
(***************************************************************************)
(* Addresses.  The ranges that is_global denies are the classes other than *)
(* "global"; an IPv4 address may come mapped into IPv6.                    *)
(***************************************************************************)
to_ipv4(addr) == [addr EXCEPT !.mapped = FALSE]
is_global(addr) == to_ipv4(addr).class = "global"
is_loopback(addr) == addr.class = "loopback" /\ ~addr.mapped

IsLiteral(host) == host.name \in DOMAIN Literals

is_safe_ip(addr, host) ==
    \/ is_global(addr)
    \/ IsLiteral(host) /\ Literals[host.name] = addr
    \/ host.name = "localhost" /\ contains_host(host) /\ is_loopback(addr)

-----------------------------------------------------------------------------
(***************************************************************************)
(* A fetch.                                                                *)
(***************************************************************************)
\* Where a hop starts: the connector resolves names, and only names.
Hop(url) ==
    /\ target' = url
    /\ IF IsLiteral(url.host)
         THEN stage' = "connect" /\ addrs' = {Literals[url.host.name]}
         ELSE stage' = "resolve" /\ addrs' = {}

Ends(answer) ==
    /\ stage' = "idle"
    /\ fetched' = answer
    /\ addrs' = {}
    /\ body' = 0
    /\ previous' = 0
    /\ UNCHANGED <<sandbox, allowlist, target, links>>

\* check_url, before anything is sent
Fetch(url) ==
    /\ stage = "idle"
    /\ IF check_url(url)
         THEN /\ Hop(url)
              /\ fetched' = "none"
              /\ UNCHANGED <<sandbox, allowlist, previous, body, links>>
         ELSE Ends("refused")

Validated(answer) == \A a \in answer : is_safe_ip(a, target.host)

\* AllowlistResolver::resolve; no answer at all is an error or the timeout
Resolve(answer) ==
    /\ stage = "resolve"
    /\ IF contains_host(target.host) /\ answer # {} /\ Validated(answer)
         THEN /\ stage' = "connect"
              /\ addrs' = answer
              /\ UNCHANGED <<sandbox, allowlist, target, previous, body, links, fetched>>
         ELSE Ends("failed")

Connect(addr) ==
    /\ stage = "connect"
    /\ addr \in addrs
    /\ stage' = "sent"
    /\ links' = {[url |-> target, addr |-> addr]}
    /\ UNCHANGED <<sandbox, allowlist, target, previous, addrs, body, fetched>>

\* Mutant: every Location is followed.
Follows_Unchecked(url) == sandbox = "wasm" /\ previous + 1 < MaxPrevious

\* Policy::custom of the Wasm client, Policy::none of the Deno client
Follows(url) == sandbox = "wasm" /\ previous + 1 < MaxPrevious /\ check_url(url)

\* A redirect that is not followed is the response.
Redirect(url) ==
    /\ stage = "sent"
    /\ IF Follows(url)
         THEN Hop(url) /\ previous' = previous + 1
         ELSE stage' = "body" /\ UNCHANGED <<target, addrs, previous>>
    /\ UNCHANGED <<sandbox, allowlist, body, links, fetched>>

Response ==
    /\ stage = "sent"
    /\ stage' = "body"
    /\ UNCHANGED <<sandbox, allowlist, target, previous, addrs, body, links, fetched>>

Chunk(n) ==
    /\ stage = "body"
    /\ IF body + n > BodyLimit
         THEN Ends("too_large")
         ELSE body' = body + n
              /\ UNCHANGED <<sandbox, allowlist, stage, target, previous, addrs, links, fetched>>

\* The end of the body; in Wasm the response may not fit the guest's buffer.
BodyEnds ==
    /\ stage = "body"
    /\ Ends("response") \/ (sandbox = "wasm" /\ Ends("too_large"))

\* No connection, a broken one, or the timeout.
FetchFails ==
    /\ stage \in {"connect", "sent", "body"}
    /\ Ends("failed")

FetchInit ==
    /\ sandbox \in {"deno", "wasm"}
    /\ allowlist \in SUBSET Entries
    /\ stage = "idle"
    /\ target = [host |-> "none"]
    /\ previous = 0
    /\ addrs = {}
    /\ body = 0
    /\ links = {}
    /\ fetched = "none"

FetchNext ==
    \/ \E u \in Urls : Fetch(u) \/ Redirect(u)
    \/ \E answer \in SUBSET Addresses : Resolve(answer)
    \/ \E a \in Addresses : Connect(a)
    \/ \E n \in ChunkSizes : Chunk(n)
    \/ Response \/ BodyEnds \/ FetchFails

FetchSpec == FetchInit /\ [][FetchNext]_fetchVars

-----------------------------------------------------------------------------
(***************************************************************************)
(* Properties.                                                             *)
(***************************************************************************)
\* What an entry means, without parsing order, index or byte offsets: a domain
\* allows its host, a URL allows itself and what lies under it.
Under(prefix, path) ==
    LET dir == IF Last(prefix) = "/" THEN Front(prefix) ELSE prefix
    IN  path = prefix \/ IsPrefix(dir \o <<"/">>, path)

Covers(e, url) ==
    IF e.kind = "domain"
      THEN e.host.name = url.host.name
      ELSE /\ e.url.scheme = url.scheme
           /\ e.url.host.name = url.host.name
           /\ port_or_known_default(e.url) = port_or_known_default(url)
           /\ Under(e.url.path, url.path)

\* check_url, with its index of normalized rules, allows exactly the http(s)
\* URLs that some entry of the allowlist covers, and the resolver, with its own
\* set of hosts, never refuses the host of one of them.
CheckAgrees ==
    \A u \in Urls :
        /\ check_url(u) <=> u.scheme \in Http /\ \E e \in allowlist : Covers(e, u)
        /\ check_url(u) => contains_host(u.host)

\* Every connection, that of a redirect and that to any address of a later DNS
\* answer included, is for a URL the allowlist covers and goes to a public
\* address, to a literal address the allowlist names, or for localhost to the
\* loopback.
EveryHopSafe ==
    \A link \in links :
        \E e \in allowlist :
            /\ Covers(e, link.url)
            /\ \/ link.addr.class = "global"
               \/ IsLiteral(link.url.host) /\ link.addr = Literals[link.url.host.name]
               \/ link.url.host.name = "localhost" /\ link.addr.class = "loopback"
=============================================================================
