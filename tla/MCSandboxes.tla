---------------------------- MODULE MCSandboxes -----------------------------
(***************************************************************************)
(* The two sandboxes and their network access, side by side.  They share   *)
(* no state (an instance of SandboxRuntime is one or the other), so a      *)
(* behaviour exercises one part, chosen at the start.                      *)
(***************************************************************************)
EXTENDS DenoSandbox, WasmSandbox, SandboxFetch

VARIABLE part

mcVars == <<denoVars, wasmVars, fetchVars, part>>

OneToThree == 1..3
OneToTwo == 1..2

Plain(n) == [name |-> n, form |-> "plain"]
Url(s, h, p, path) == [scheme |-> s, host |-> h, port |-> p, path |-> path]
Prefix(u) == [kind |-> "url", url |-> u]
Domain(h) == [kind |-> "domain", host |-> h]

Api == Plain("api")
Slash == <<"/">>
PathA == <<"/", "a">>
PathADir == <<"/", "a", "/">>
PathAB == <<"/", "a", "b">>
PathAThenB == <<"/", "a", "/", "b">>

\* A literal private address; "::1" is written with brackets in a URL.
MCAddresses == {[class |-> "global", mapped |-> FALSE], [class |-> "private", mapped |-> FALSE],
                [class |-> "private", mapped |-> TRUE], [class |-> "loopback", mapped |-> FALSE]}
MCLiterals == "::1" :> [class |-> "loopback", mapped |-> FALSE]
                @@ "10.0.0.8" :> [class |-> "private", mapped |-> FALSE]

MCEntries == {
    Domain([name |-> "cdn", form |-> "upper"]), Domain(Plain("localhost")), Domain(Plain("::1")),
    Prefix(Url("https", Api, 0, PathA)), Prefix(Url("http", Api, 8080, PathADir)),
    Prefix(Url("localhost", Plain(""), 0, <<"8", "0">>))}

MCUrls == {
    Url("https", Api, 0, PathA), Url("https", Api, 443, PathAB), Url("https", Api, 0, PathAThenB),
    Url("http", Api, 8080, PathA), Url("http", Api, 8080, PathAThenB), Url("http", Api, 0, PathADir),
    Url("http", Plain("cdn"), 0, Slash), Url("ftp", Plain("cdn"), 0, Slash),
    Url("http", Plain("localhost"), 80, Slash), Url("http", [name |-> "::1", form |-> "brackets"], 0, Slash),
    Url("http", Plain("10.0.0.8"), 0, Slash)}

MCInit ==
    /\ part \in {"deno", "wasm", "fetch"}
    /\ DenoInit /\ WasmInit /\ FetchInit
    /\ part # "fetch" => sandbox = part /\ allowlist = {}

MCNext ==
    \/ part = "deno" /\ DenoNext /\ UNCHANGED <<wasmVars, fetchVars, part>>
    \/ part = "wasm" /\ WasmNext /\ UNCHANGED <<denoVars, fetchVars, part>>
    \/ part = "fetch" /\ FetchNext /\ UNCHANGED <<denoVars, wasmVars, part>>

MCSpec == MCInit /\ [][MCNext]_mcVars /\ DenoFairness /\ WasmFairness
=============================================================================
