---------------------------- MODULE DenoSandbox -----------------------------
(***************************************************************************)
(* DenoSandbox::execute of kernel-runtime: each call runs a V8 isolate on  *)
(* a blocking thread under a permit of exec_limiter, watched by a wall     *)
(* clock thread, a CPU time thread and V8's near-heap-limit callback.      *)
(*                                                                         *)
(* execute borrows the sandbox mutably, so one call is awaited at a time;  *)
(* but a caller may drop its future, and a blocking task that has begun    *)
(* then runs on alone.  That is when the permits matter.                   *)
(*                                                                         *)
(* The user's script may return, throw, wait for a fetch or run for ever.  *)
(* Elapsed times are counted up to the limit they are compared with.       *)
(***************************************************************************)
EXTENDS Naturals, FiniteSets

CONSTANTS
    DenoCalls,      \* bound: the calls of execute, 1..n in this order
    Permits,        \* permits of exec_limiter
    WallLimit,      \* options.wall_clock_limit
    CpuLimit,       \* options.cpu_time_limit
    MaxFaults       \* bound: calls that fill their heap or lose their CPU clock

ASSUME PermitAssumption == Permits \in Nat \ {0}
ASSUME LimitAssumption == WallLimit \in Nat \ {0} /\ CpuLimit \in Nat \ {0}
ASSUME CallsAssumption ==
    IsFiniteSet(DenoCalls) /\ DenoCalls = 1..Cardinality(DenoCalls) /\ MaxFaults \in Nat

VARIABLES
    caller,         \* the call whose future is alive, or 0
    permits,        \* free permits
    phase,          \* where each call is
    age,            \* wall clock since the watchdogs were started
    cpu,            \* CPU time of the thread since then
    flags,          \* is_heap_oom, is_cpu_clock_failed, is_cpu_timeout, is_wall_timeout
    terminate,      \* terminate_execution was called on the isolate
    cancelled,      \* the AtomicBool the watchdogs poll
    wall_dog,       \* the wall clock thread
    cpu_dog,        \* the CPU time thread
    outcome,        \* execution_result, then what the call returns
    cut             \* history: what V8 cut short, "setup" or "user_code"

isolateVars == <<age, cpu, flags, terminate>>
dogVars == <<cancelled, wall_dog, cpu_dog>>
denoVars == <<caller, permits, phase, isolateVars, dogVars, outcome, cut>>

\* The phases in which the isolate exists, and those in which its script runs.
Isolates == {c \in DenoCalls : phase[c] \in {"setup", "js", "loop", "cancel", "classify", "join"}}
InScript(c) == phase[c] \in {"setup", "js"}

DenoGoto(c, l) == phase' = [phase EXCEPT ![c] = l]
Yields(c, o) == outcome' = [outcome EXCEPT ![c] = o]
Raise(c, f) == flags' = [flags EXCEPT ![c] = @ \cup {f}]
Terminate(c) == terminate' = [terminate EXCEPT ![c] = TRUE]

-----------------------------------------------------------------------------
(***************************************************************************)
(* The caller.                                                             *)
(***************************************************************************)
DenoExecute(c) ==
    /\ caller = 0
    /\ phase[c] = "new"
    /\ \A d \in DenoCalls : d < c => phase[d] # "new"
    /\ caller' = c
    /\ DenoGoto(c, "queued")
    /\ UNCHANGED <<permits, isolateVars, dogVars, outcome, cut>>

\* acquire_owned; the permit moves into the blocking task, which builds the
\* isolate and starts both watchdogs.
Acquire(c) ==
    /\ phase[c] = "queued"
    /\ permits > 0
    /\ permits' = permits - 1
    /\ DenoGoto(c, "setup")
    /\ wall_dog' = [wall_dog EXCEPT ![c] = "watching"]
    /\ cpu_dog' = [cpu_dog EXCEPT ![c] = "watching"]
    /\ UNCHANGED <<caller, isolateVars, cancelled, outcome, cut>>

\* Mutant: the permit belongs to the future.
DropCall_WithPermit(c) ==
    /\ caller = c
    /\ caller' = 0
    /\ permits' = IF c \in Isolates THEN permits + 1 ELSE permits
    /\ phase' = [phase EXCEPT ![c] = IF @ = "queued" THEN "done" ELSE @]
    /\ UNCHANGED <<isolateVars, dogVars, outcome, cut>>

\* The future is dropped: a call in the queue is gone, a task that runs is not.
DropCall(c) ==
    /\ caller = c
    /\ caller' = 0
    /\ phase' = [phase EXCEPT ![c] = IF @ = "queued" THEN "done" ELSE @]
    /\ UNCHANGED <<permits, isolateVars, dogVars, outcome, cut>>

DenoReturn(c) ==
    /\ caller = c
    /\ phase[c] = "done"
    /\ caller' = 0
    /\ UNCHANGED <<permits, phase, isolateVars, dogVars, outcome, cut>>

-----------------------------------------------------------------------------
(***************************************************************************)
(* The blocking task.                                                      *)
(***************************************************************************)
\* An error before the user's script: the memory limit is too small, a builder
\* fails, the CPU clock cannot be read, or V8 cut the setup script short.  The
\* WatchdogGroup is dropped; no flag is looked at.
LeaveEarly(c, error) ==
    /\ phase[c] = "setup"
    /\ DenoGoto(c, "join")
    /\ cancelled' = [cancelled EXCEPT ![c] = TRUE]
    /\ Yields(c, error)
    /\ UNCHANGED <<caller, permits, isolateVars, wall_dog, cpu_dog>>

InitFails(c) ==
    /\ ~terminate[c] /\ age[c] = 0
    /\ LeaveEarly(c, "InitError")
    /\ UNCHANGED cut

SetupCut(c) ==
    /\ terminate[c]
    /\ LeaveEarly(c, "RuntimeError")
    /\ cut' = [cut EXCEPT ![c] = "setup"]

SetupDone(c) ==
    /\ phase[c] = "setup"
    /\ DenoGoto(c, "js")
    /\ UNCHANGED <<caller, permits, isolateVars, dogVars, outcome, cut>>

\* The script waits for op_fetch, and goes on.
JsWaits(c) ==
    /\ phase[c] = "js"
    /\ DenoGoto(c, "loop")
    /\ UNCHANGED <<caller, permits, isolateVars, dogVars, outcome, cut>>

JsResumes(c) ==
    /\ phase[c] = "loop"
    /\ DenoGoto(c, "js")
    /\ UNCHANGED <<caller, permits, isolateVars, dogVars, outcome, cut>>

\* The event loop is empty, or the wrapper rethrew the script's error.
JsEnds(c) ==
    /\ phase[c] = "js"
    /\ DenoGoto(c, "cancel")
    /\ \E o \in {"Ok", "RuntimeError"} : Yields(c, o)
    /\ UNCHANGED <<caller, permits, isolateVars, dogVars, cut>>

\* V8 ends a script that was told to terminate at its next check.
JsCut(c) ==
    /\ phase[c] = "js"
    /\ terminate[c]
    /\ DenoGoto(c, "cancel")
    /\ Yields(c, "RuntimeError")
    /\ cut' = [cut EXCEPT ![c] = "user_code"]
    /\ UNCHANGED <<caller, permits, isolateVars, dogVars>>

\* Mutant: the timeout is the caller's, around the JoinHandle.
LoopTimeout_OfCaller(c) ==
    /\ phase[c] = "loop" /\ caller = c
    /\ age[c] = WallLimit
    /\ Raise(c, "wall")
    /\ Terminate(c)
    /\ DenoGoto(c, "cancel")
    /\ Yields(c, "Timeout")
    /\ UNCHANGED <<caller, permits, age, cpu, dogVars, cut>>

\* tokio::time::timeout, started after the watchdogs with the same limit; it
\* is polled when the script is not running.
LoopTimeout(c) ==
    /\ phase[c] = "loop"
    /\ age[c] = WallLimit
    /\ Raise(c, "wall")
    /\ Terminate(c)
    /\ DenoGoto(c, "cancel")
    /\ Yields(c, "Timeout")
    /\ UNCHANGED <<caller, permits, age, cpu, dogVars, cut>>

Cancel(c) ==
    /\ phase[c] = "cancel"
    /\ cancelled' = [cancelled EXCEPT ![c] = TRUE]
    /\ DenoGoto(c, "classify")
    /\ UNCHANGED <<caller, permits, isolateVars, wall_dog, cpu_dog, outcome, cut>>

\* match execution_result
Verdict(c) ==
    CASE outcome[c] = "Ok"    -> "Ok"
      [] "oom" \in flags[c]   -> "MemoryLimitExceeded"
      [] "clock" \in flags[c] -> "RuntimeError"
      [] "cpu" \in flags[c]   -> "CpuLimitExceeded"
      [] "wall" \in flags[c]  -> "Timeout"
      [] OTHER                -> outcome[c]

Classify(c) ==
    /\ phase[c] = "classify"
    /\ Yields(c, Verdict(c))
    /\ DenoGoto(c, "join")
    /\ UNCHANGED <<caller, permits, isolateVars, dogVars, cut>>

\* WatchdogGroup::drop has joined both threads; the isolate and its flags go,
\* and the permit last.
DenoFinish(c) ==
    /\ phase[c] = "join"
    /\ wall_dog[c] = "gone" /\ cpu_dog[c] = "gone"
    /\ DenoGoto(c, "done")
    /\ permits' = permits + 1
    /\ age' = [age EXCEPT ![c] = 0]
    /\ cpu' = [cpu EXCEPT ![c] = 0]
    /\ flags' = [flags EXCEPT ![c] = {}]
    /\ terminate' = [terminate EXCEPT ![c] = FALSE]
    /\ Yields(c, "none")
    /\ cut' = [cut EXCEPT ![c] = "none"]
    /\ cancelled' = [cancelled EXCEPT ![c] = FALSE]
    /\ wall_dog' = [wall_dog EXCEPT ![c] = "none"]
    /\ cpu_dog' = [cpu_dog EXCEPT ![c] = "none"]
    /\ UNCHANGED caller

-----------------------------------------------------------------------------
(***************************************************************************)
(* The watchdogs, the heap callback and time.                              *)
(***************************************************************************)
\* Mutant: the isolate is terminated before the flag is raised.
WallDog_TerminatesFirst(c) ==
    \/ /\ wall_dog[c] = "watching" /\ ~cancelled[c] /\ age[c] = WallLimit
       /\ Terminate(c) /\ UNCHANGED flags
       /\ wall_dog' = [wall_dog EXCEPT ![c] = "firing"]
    \/ /\ wall_dog[c] = "firing"
       /\ Raise(c, "wall") /\ UNCHANGED terminate
       /\ wall_dog' = [wall_dog EXCEPT ![c] = "gone"]
    \/ /\ wall_dog[c] = "watching" /\ cancelled[c]
       /\ wall_dog' = [wall_dog EXCEPT ![c] = "gone"]
       /\ UNCHANGED <<flags, terminate>>

\* The last look at the AtomicBool and the flag, then the isolate.
WallDog(c) ==
    \/ /\ wall_dog[c] = "watching" /\ ~cancelled[c] /\ age[c] = WallLimit
       /\ Raise(c, "wall") /\ UNCHANGED terminate
       /\ wall_dog' = [wall_dog EXCEPT ![c] = "firing"]
    \/ /\ wall_dog[c] = "firing"
       /\ Terminate(c) /\ UNCHANGED flags
       /\ wall_dog' = [wall_dog EXCEPT ![c] = "gone"]
    \/ /\ wall_dog[c] = "watching" /\ cancelled[c]
       /\ wall_dog' = [wall_dog EXCEPT ![c] = "gone"]
       /\ UNCHANGED <<flags, terminate>>

MayFault(c) ==
    Cardinality({d \in DenoCalls : flags[d] \cap {"oom", "clock"} # {}} \cup {c}) <= MaxFaults

\* The budget is used up, or the thread's clock cannot be read.
CpuDog(c) ==
    \/ /\ cpu_dog[c] = "watching" /\ ~cancelled[c]
       /\ \/ cpu[c] = CpuLimit /\ Raise(c, "cpu")
          \/ MayFault(c) /\ Raise(c, "clock")
       /\ UNCHANGED terminate
       /\ cpu_dog' = [cpu_dog EXCEPT ![c] = "firing"]
    \/ /\ cpu_dog[c] = "firing"
       /\ Terminate(c) /\ UNCHANGED flags
       /\ cpu_dog' = [cpu_dog EXCEPT ![c] = "gone"]
    \/ /\ cpu_dog[c] = "watching" /\ cancelled[c]
       /\ cpu_dog' = [cpu_dog EXCEPT ![c] = "gone"]
       /\ UNCHANGED <<flags, terminate>>

Watch(c) ==
    /\ \/ WallDog(c) /\ UNCHANGED cpu_dog
       \/ CpuDog(c) /\ UNCHANGED wall_dog
    /\ UNCHANGED <<caller, permits, phase, age, cpu, cancelled, outcome, cut>>

\* add_near_heap_limit_callback, on the thread of the script.  The callback gives
\* V8 no more room; that V8 then unwinds, and does not abort the process because
\* the next allocation fails first, is assumed.
NearHeapLimit(c) ==
    /\ InScript(c)
    /\ MayFault(c)
    /\ Raise(c, "oom")
    /\ Terminate(c)
    /\ UNCHANGED <<caller, permits, phase, age, cpu, dogVars, outcome, cut>>

DenoUpTo(limit, t) == IF t < limit THEN t + 1 ELSE t

DenoTick ==
    /\ age' = [c \in DenoCalls |-> IF c \in Isolates THEN DenoUpTo(WallLimit, age[c]) ELSE age[c]]
    /\ cpu' = [c \in DenoCalls |-> IF InScript(c) THEN DenoUpTo(CpuLimit, cpu[c]) ELSE cpu[c]]
    /\ UNCHANGED <<caller, permits, phase, flags, terminate, dogVars, outcome, cut>>

DenoInit ==
    /\ caller = 0
    /\ permits = Permits
    /\ phase = [c \in DenoCalls |-> "new"]
    /\ age = [c \in DenoCalls |-> 0]
    /\ cpu = [c \in DenoCalls |-> 0]
    /\ flags = [c \in DenoCalls |-> {}]
    /\ terminate = [c \in DenoCalls |-> FALSE]
    /\ cancelled = [c \in DenoCalls |-> FALSE]
    /\ wall_dog = [c \in DenoCalls |-> "none"]
    /\ cpu_dog = [c \in DenoCalls |-> "none"]
    /\ outcome = [c \in DenoCalls |-> "none"]
    /\ cut = [c \in DenoCalls |-> "none"]

\* The steps that the runtime takes by itself.
DenoProgress(c) ==
    \/ Acquire(c) \/ SetupCut(c) \/ SetupDone(c) \/ JsCut(c) \/ LoopTimeout(c)
    \/ Cancel(c) \/ Classify(c) \/ DenoFinish(c) \/ Watch(c)

DenoNext ==
    \/ \E c \in DenoCalls :
          \/ DenoExecute(c) \/ DropCall(c) \/ DenoReturn(c)
          \/ InitFails(c) \/ JsWaits(c) \/ JsResumes(c) \/ JsEnds(c)
          \/ DenoProgress(c) \/ NearHeapLimit(c)
    \/ DenoTick

DenoSpec == DenoInit /\ [][DenoNext]_denoVars

(***************************************************************************)
(* Threads are scheduled, time passes and V8 honours a termination; a call  *)
(* takes finitely many steps of DenoProgress.  Nothing is asked of the      *)
(* script: it may wait or run for ever.                                     *)
(***************************************************************************)
DenoFairness ==
    /\ WF_denoVars(DenoTick)
    /\ \A c \in DenoCalls : SF_denoVars(DenoProgress(c))

FairDenoSpec == DenoSpec /\ DenoFairness

-----------------------------------------------------------------------------
(***************************************************************************)
(* Properties.                                                             *)
(***************************************************************************)
\* However many callers give up on their call, no more isolates, with their
\* two watchdog threads each, exist than exec_limiter has permits: the permit
\* travels with the blocking task and not with the future.
BoundedIsolates ==
    Cardinality(Isolates \cup {c \in DenoCalls :
        {wall_dog[c], cpu_dog[c]} \cap {"watching", "firing"} # {}}) <= Permits

\* A call that V8 cut short in the user's code is reported under the limit it
\* ran into and not as an error of the script, a limit is reported only
\* when it was reached.
CutIsNamed ==
    \A c \in DenoCalls : phase[c] = "join" =>
        /\ cut[c] = "user_code" /\ outcome[c] = "RuntimeError" => "clock" \in flags[c]
        /\ outcome[c] = "Timeout" => age[c] = WallLimit
        /\ outcome[c] = "CpuLimitExceeded" => cpu[c] = CpuLimit
        /\ outcome[c] = "MemoryLimitExceeded" => "oom" \in flags[c]

\* Every call of execute ends and gives its permit back, whatever its script
\* does and even when nobody waits for it any more: a queued call is not left
\* behind a script that waits or runs for ever.
EveryScriptEnds ==
    \A c \in DenoCalls : phase[c] = "queued" ~> phase[c] = "done"
=============================================================================
