---------------------------- MODULE WasmSandbox -----------------------------
(***************************************************************************)
(* WasmSandbox::execute of kernel-runtime: a module is compiled on a       *)
(* blocking thread and run by wasmtime on the caller's task.  Its wall     *)
(* clock limit is kept by a watchdog thread that increments the epoch of   *)
(* the engine, and the engine is shared by all the calls of one sandbox:   *)
(* a watchdog that outlived its call would cut the next one short.         *)
(*                                                                         *)
(* execute borrows the sandbox mutably, so calls follow each other; but a  *)
(* caller may drop its future wherever execute awaits, and the watchdog    *)
(* (and a compilation) then go on without it.                              *)
(*                                                                         *)
(* Elapsed times are counted up to the limit.  compile_limiter is left     *)
(* out: the call that owns the sandbox owns the only permit ever taken, so *)
(* acquire_owned never waits.                                              *)
(***************************************************************************)
EXTENDS Naturals, FiniteSets

CONSTANTS
    WasmCalls,      \* bound: the calls of execute, 1..n in this order
    WasmLimit       \* options.wall_clock_limit

ASSUME WasmLimitAssumption == WasmLimit \in Nat \ {0}
ASSUME WasmCallsAssumption == IsFiniteSet(WasmCalls) /\ WasmCalls = 1..Cardinality(WasmCalls)

VARIABLES
    running,        \* the call whose future is alive, or 0
    pc,             \* where each call is
    elapsed,        \* wall clock since started_at
    epoch,          \* the epoch of the engine
    deadline,       \* the epoch at which the store of a call traps
    entry,          \* the guest code it is in: "instantiate" or "_start"
    compiling,      \* calls with a thread in Module::new
    watchdog,       \* self.watchdog: the call whose JoinHandle is kept, or 0
    dog,            \* the watchdog threads
    dog_cancelled,  \* the AtomicBool each of them polls
    wall_timeout,   \* is_wall_timeout
    result,         \* what a call is about to return
    dropped         \* Drop for WasmSandbox has run

dogsVars == <<watchdog, dog, dog_cancelled>>
clockVars == <<elapsed, epoch, deadline>>
wasmVars == <<running, pc, clockVars, entry, compiling, dogsVars, wall_timeout, result, dropped>>

SandboxErrors == {"CpuLimitExceeded", "MemoryLimitExceeded", "RuntimeError"}

At(r, l) == pc' = [pc EXCEPT ![r] = l]
Result(r, o) == result' = [result EXCEPT ![r] = o]
TimedOut(r) == elapsed[r] = WasmLimit
DogAlive(r) == dog[r] \in {"watching", "firing"}

\* stop_watchdog: take the handle and tell the thread; its join is a wait for
\* the thread's end, and blocks the task.
StopWatchdog ==
    dog_cancelled' = [r \in WasmCalls |-> dog_cancelled[r] \/ r = watchdog]
Joined == \A r \in WasmCalls : r = watchdog => dog[r] = "gone"

-----------------------------------------------------------------------------
(***************************************************************************)
(* The call.                                                               *)
(***************************************************************************)
WasmExecute(r) ==
    /\ running = 0 /\ ~dropped
    /\ pc[r] = "new"
    /\ \A q \in WasmCalls : q < r => pc[q] # "new"
    /\ running' = r
    /\ At(r, "stop_previous")
    /\ StopWatchdog
    /\ UNCHANGED <<clockVars, entry, compiling, watchdog, dog, wall_timeout, result, dropped>>

\* Mutant: the thread is told to stop and not waited for.
Begin_WithoutJoin(r) ==
    /\ pc[r] = "stop_previous"
    /\ watchdog' = 0
    /\ deadline' = [deadline EXCEPT ![r] = epoch + 1]
    /\ At(r, "build")
    /\ UNCHANGED <<running, elapsed, epoch, entry, compiling, dog, dog_cancelled, wall_timeout, result, dropped>>

\* started_at; the store gets its epoch deadline before the compilation.
Begin(r) ==
    /\ pc[r] = "stop_previous"
    /\ Joined
    /\ watchdog' = 0
    /\ deadline' = [deadline EXCEPT ![r] = epoch + 1]
    /\ At(r, "build")
    /\ UNCHANGED <<running, elapsed, epoch, entry, compiling, dog, dog_cancelled, wall_timeout, result, dropped>>

\* A return before the watchdog exists.
LeaveWith(r, error) ==
    /\ At(r, "done")
    /\ running' = 0
    /\ Result(r, error)
    /\ UNCHANGED <<clockVars, entry, dogsVars, wall_timeout, dropped>>

\* The linker, the client or the fuel cannot be set up, whatever the time, or
\* nothing is left of the limit for the compilation.
BuildFails(r) ==
    /\ pc[r] = "build"
    /\ \/ LeaveWith(r, "InitError")
       \/ TimedOut(r) /\ LeaveWith(r, "Timeout")
    /\ UNCHANGED compiling

Compile(r) ==
    /\ pc[r] = "build"
    /\ ~TimedOut(r)
    /\ compiling' = compiling \cup {r}
    /\ At(r, "compile")
    /\ UNCHANGED <<running, clockVars, entry, dogsVars, wall_timeout, result, dropped>>

\* The error of the compiler, whatever the time, or a module that comes too late.
CompileFails(r) ==
    /\ pc[r] = "compile"
    /\ compiling' = compiling \ {r}
    /\ \/ \E e \in SandboxErrors \ {"CpuLimitExceeded"} : LeaveWith(r, e)
       \/ TimedOut(r) /\ LeaveWith(r, "Timeout")

\* The module is there in time: the watchdog gets what is left of the limit.
Instantiate(r) ==
    /\ pc[r] = "compile"
    /\ ~TimedOut(r)
    /\ compiling' = compiling \ {r}
    /\ watchdog' = r
    /\ dog' = [dog EXCEPT ![r] = "watching"]
    /\ entry' = [entry EXCEPT ![r] = "instantiate"]
    /\ At(r, "guest")
    /\ UNCHANGED <<running, clockVars, dog_cancelled, wall_timeout, result, dropped>>

CallStart(r) ==
    /\ pc[r] = "guest"
    /\ entry[r] = "instantiate"
    /\ entry' = [entry EXCEPT ![r] = "_start"]
    /\ UNCHANGED <<running, pc, clockVars, compiling, dogsVars, wall_timeout, result, dropped>>

\* A host call: flexi_fetch with what remains of the budget (with nothing left
\* it returns at once), or a sleep of WASI's poll_oneoff.
HostCall(r) ==
    /\ pc[r] = "guest"
    /\ \/ ~TimedOut(r) /\ At(r, "fetch")
       \/ At(r, "sleep")
    /\ UNCHANGED <<running, clockVars, entry, compiling, dogsVars, wall_timeout, result, dropped>>

HostReturns(r) ==
    /\ pc[r] \in {"fetch", "sleep"}
    /\ At(r, "guest")
    /\ UNCHANGED <<running, clockVars, entry, compiling, dogsVars, wall_timeout, result, dropped>>

FetchTimeout(r) ==
    /\ pc[r] = "fetch"
    /\ TimedOut(r)
    /\ At(r, "guest")
    /\ UNCHANGED <<running, clockVars, entry, compiling, dogsVars, wall_timeout, result, dropped>>

\* The guest code ends: stop_watchdog on every path, before the result is made.
GuestEnds(r, o) ==
    /\ pc[r] = "guest"
    /\ At(r, "stop")
    /\ Result(r, o)
    /\ StopWatchdog
    /\ UNCHANGED <<running, clockVars, entry, compiling, watchdog, dog, wall_timeout, dropped>>

\* Trap::Interrupt
Interrupt(r) ==
    /\ epoch >= deadline[r]
    /\ GuestEnds(r, "Timeout")

\* Out of fuel, out of memory, another trap, no _start.
GuestFails(r) == \E e \in SandboxErrors : GuestEnds(r, e)

\* _start returns; its output may be too long or not text.
GuestReturns(r) ==
    /\ entry[r] = "_start"
    /\ \E o \in {"Ok", "OutputError"} : GuestEnds(r, o)

\* Joined, and only then is is_wall_timeout looked at.
WasmReturn(r) ==
    /\ pc[r] = "stop"
    /\ Joined
    /\ watchdog' = 0
    /\ At(r, "done")
    /\ running' = 0
    /\ Result(r, IF result[r] = "RuntimeError" /\ entry[r] = "_start" /\ wall_timeout[r]
                   THEN "Timeout" ELSE result[r])
    /\ UNCHANGED <<clockVars, entry, compiling, dog, dog_cancelled, wall_timeout, dropped>>

-----------------------------------------------------------------------------
(***************************************************************************)
(* The caller gives up, the sandbox goes, threads and time.                *)
(***************************************************************************)
\* Wherever execute awaits.  The handle of a watchdog stays in the sandbox.
DropFuture(r) ==
    /\ pc[r] \in {"build", "compile", "fetch", "sleep"}
    /\ running' = 0
    /\ At(r, "done")
    /\ Result(r, "none")
    /\ UNCHANGED <<clockVars, entry, compiling, dogsVars, wall_timeout, dropped>>

\* Drop for WasmSandbox
DropSandbox ==
    /\ running = 0 /\ ~dropped
    /\ dropped' = TRUE
    /\ StopWatchdog
    /\ UNCHANGED <<running, pc, clockVars, entry, compiling, watchdog, dog, wall_timeout, result>>

\* A compilation nobody waits for.
CompileThreadEnds(r) ==
    /\ r \in compiling
    /\ pc[r] = "done"
    /\ compiling' = compiling \ {r}
    /\ UNCHANGED <<running, pc, clockVars, entry, dogsVars, wall_timeout, result, dropped>>

\* Mutant: the flag alone.
WatchdogFires_OnlyFlag(r) ==
    /\ dog[r] = "firing"
    /\ dog' = [dog EXCEPT ![r] = "gone"]
    /\ UNCHANGED epoch

\* The thread's last look at the AtomicBool and the flag; then the epoch.
WatchdogFires(r) ==
    /\ dog[r] = "firing"
    /\ dog' = [dog EXCEPT ![r] = "gone"]
    /\ epoch' = epoch + 1

Watchdog(r) ==
    /\ \/ /\ dog[r] = "watching" /\ ~dog_cancelled[r] /\ TimedOut(r)
          /\ dog' = [dog EXCEPT ![r] = "firing"]
          /\ wall_timeout' = [wall_timeout EXCEPT ![r] = TRUE]
          /\ UNCHANGED epoch
       \/ WatchdogFires(r) /\ UNCHANGED wall_timeout
       \/ /\ dog[r] = "watching" /\ dog_cancelled[r]
          /\ dog' = [dog EXCEPT ![r] = "gone"]
          /\ UNCHANGED <<epoch, wall_timeout>>
    /\ UNCHANGED <<running, pc, elapsed, deadline, entry, compiling, watchdog, dog_cancelled, result, dropped>>

WasmTick ==
    /\ elapsed' = [r \in WasmCalls |->
          IF ~TimedOut(r) /\ (pc[r] \notin {"new", "stop_previous", "done"} \/ DogAlive(r))
            THEN elapsed[r] + 1 ELSE elapsed[r]]
    /\ UNCHANGED <<running, pc, epoch, deadline, entry, compiling, dogsVars, wall_timeout, result, dropped>>

WasmInit ==
    /\ running = 0
    /\ pc = [r \in WasmCalls |-> "new"]
    /\ elapsed = [r \in WasmCalls |-> 0]
    /\ epoch = 0
    /\ deadline = [r \in WasmCalls |-> 0]
    /\ entry = [r \in WasmCalls |-> "none"]
    /\ compiling = {}
    /\ watchdog = 0
    /\ dog = [r \in WasmCalls |-> "none"]
    /\ dog_cancelled = [r \in WasmCalls |-> FALSE]
    /\ wall_timeout = [r \in WasmCalls |-> FALSE]
    /\ result = [r \in WasmCalls |-> "none"]
    /\ dropped = FALSE

\* The steps that the runtime takes by itself.
WasmProgress(r) ==
    \/ Begin(r) \/ BuildFails(r) \/ Compile(r) \/ CompileFails(r) \/ Instantiate(r)
    \/ Interrupt(r) \/ WasmReturn(r) \/ CompileThreadEnds(r) \/ Watchdog(r)

WasmNext ==
    \/ \E r \in WasmCalls :
          \/ WasmExecute(r) \/ WasmProgress(r)
          \/ CallStart(r) \/ HostCall(r) \/ HostReturns(r) \/ FetchTimeout(r)
          \/ GuestFails(r) \/ GuestReturns(r) \/ DropFuture(r)
    \/ DropSandbox
    \/ WasmTick

WasmSpec == WasmInit /\ [][WasmNext]_wasmVars

(***************************************************************************)
(* Threads are scheduled, time passes, a compilation ends, wasmtime looks  *)
(* at the epoch and reqwest at its timeout.  Nothing is asked of the guest *)
(* or of the server it talks to.                                           *)
(***************************************************************************)
WasmFairness ==
    /\ WF_wasmVars(WasmTick)
    /\ \A r \in WasmCalls :
          /\ SF_wasmVars(WasmProgress(r))
          /\ WF_wasmVars(FetchTimeout(r))

FairWasmSpec == WasmSpec /\ WasmFairness

-----------------------------------------------------------------------------
(***************************************************************************)
(* Properties.                                                             *)
(***************************************************************************)
\* A call reports Timeout only when its own limit has passed: the watchdog of
\* a call that was given up, whose last step may already be under way when the
\* next call starts, never interrupts that next call.
OnlyOwnTimeout ==
    \A r \in WasmCalls :
        /\ result[r] = "Timeout" => TimedOut(r)
        /\ pc[r] \in {"build", "compile", "guest", "fetch", "sleep"} /\ epoch >= deadline[r]
              => wall_timeout[r]

\* No call keeps its sandbox for ever: whatever the guest computes and however
\* long a server is silent, it ends, unless the guest sits in a sleep of WASI,
\* which no limit reaches.
EveryGuestEnds ==
    \A r \in WasmCalls : running = r ~> (running # r \/ pc[r] = "sleep")
=============================================================================
