----------------------------- MODULE JniSession -----------------------------
(***************************************************************************)
(* The process-global native session of app/src/main/cpp/jolt_probe.c:     *)
(* the C statics that decide which thread owns the embedded Jolt/Chez      *)
(* runtime, the four JNI entry points that any Java thread may call, and   *)
(* the runtime library behind them.                                        *)
(*                                                                         *)
(* The only lock, lifecycle_lock, guards the two flags and the owner; it   *)
(* is released before the library is loaded, before an export is called    *)
(* and before the runtime is shut down.  Each of those is a step of its    *)
(* own here, so every interleaving of the callers is explored.             *)
(***************************************************************************)
EXTENDS Naturals, FiniteSets

CONSTANTS
  Threads,     \* Java threads that may enter the JNI functions
  NoThread,    \* value of owner_thread before the first claim
  Failures     \* the stages of ensure_session's initialisation that may fail

InitStages == {"dlopen", "initialization", "exports"}

ASSUME ThreadsAssumption  == NoThread \notin Threads
ASSUME FailuresAssumption == Failures \subseteq InitStages

VARIABLES
  lifecycleStarted,   \* static bool lifecycle_started
  lifecycleFinished,  \* static bool lifecycle_finished
  ownerThread,        \* static pthread_t owner_thread
  shutdownRuntime,    \* static shutdown_runtime is not NULL
  exports,            \* the export pointers (dispatch, debug_eval) not NULL
  runtime,            \* the Jolt/Chez runtime inside libjoltpoc.so
  fault,              \* the undefined call that ended the process, if any
  pc,                 \* where each thread is in the native code
  call,               \* the JNI function each thread is in
  reply,              \* the answer of each thread's last call
  initFailed          \* history: ensure_session has reported a failed load

statics == <<lifecycleStarted, lifecycleFinished, ownerThread>>
library == <<shutdownRuntime, exports, runtime, initFailed>>
vars    == <<lifecycleStarted, lifecycleFinished, ownerThread, shutdownRuntime,
             exports, runtime, fault, pc, call, reply, initFailed>>

Exports == {"dispatch", "eval"}
Calls   == Exports \union {"probe", "shutdown"}

Replies == {"none", "closed", "wrong-thread", "invalid-input", "unexpected-owner",
            "value", "no-result", "rejected", "done"} \union InitStages

Places == {"outside",   \* not in native code
           "ensure",    \* about to lock in ensure_session
           "dlopen",    \* claimed the session, lock released, loading
           "init",      \* library loaded, dlsym and jolt_library_init next
           "lookup",    \* runtime initialised, jolt_lookup of the exports next
           "enter",     \* ensure_session returned NULL
           "inside",    \* executing an export
           "lock",      \* about to lock in nativeJoltShutdown
           "stopping",  \* finished is set, shutdown_runtime() next
           "return"}    \* about to return to Java

Init ==
  /\ lifecycleStarted = FALSE
  /\ lifecycleFinished = FALSE
  /\ ownerThread = NoThread
  /\ shutdownRuntime = FALSE
  /\ exports = {}
  /\ runtime = "absent"
  /\ fault = "none"
  /\ pc = [t \in Threads |-> "outside"]
  /\ call = [t \in Threads |-> "probe"]
  /\ reply = [t \in Threads |-> "none"]
  /\ initFailed = FALSE

-----------------------------------------------------------------------------
\* A thread moves on inside native code; nothing moves in a dead process.
Step(t, from, to) ==
  /\ fault = "none"
  /\ pc[t] = from
  /\ pc' = [pc EXCEPT ![t] = to]
  /\ UNCHANGED <<call, fault>>

Answer(t, from, text) ==
  /\ Step(t, from, "return")
  /\ reply' = [reply EXCEPT ![t] = text]

\* A call through a NULL pointer or into a runtime that is not up: the
\* process dies (SIGSEGV, or SIGABRT out of Chez's S_abnormal_exit).
Die(t, from, how) ==
  /\ fault = "none"
  /\ pc[t] = from
  /\ fault' = how
  /\ UNCHANGED <<statics, library, pc, call, reply>>

Invoke(t, f) ==
  /\ fault = "none"
  /\ pc[t] = "outside"
  /\ call' = [call EXCEPT ![t] = f]
  /\ pc' = [pc EXCEPT ![t] = IF f = "shutdown" THEN "lock" ELSE "ensure"]
  /\ UNCHANGED <<statics, library, fault, reply>>

\* A null string, or an eval source over 64 KiB: refused before ensure_session.
InvokeBadInput(t, f) ==
  /\ fault = "none"
  /\ pc[t] = "outside"
  /\ f \in Exports
  /\ call' = [call EXCEPT ![t] = f]
  /\ pc' = [pc EXCEPT ![t] = "return"]
  /\ reply' = [reply EXCEPT ![t] = "invalid-input"]
  /\ UNCHANGED <<statics, library, fault>>

\* ensure_session, the four outcomes of its critical section.
RefuseClosed(t) ==
  /\ lifecycleFinished
  /\ Answer(t, "ensure", "closed")
  /\ UNCHANGED <<statics, library>>

\* Mutant: the lock is held while an export runs.
RefuseWrongThreadLockHeld(t) ==
  /\ ~lifecycleFinished
  /\ lifecycleStarted
  /\ ownerThread # t
  /\ \A u \in Threads : pc[u] # "inside"
  /\ Answer(t, "ensure", "wrong-thread")
  /\ UNCHANGED <<statics, library>>

RefuseWrongThread(t) ==
  /\ ~lifecycleFinished
  /\ lifecycleStarted
  /\ ownerThread # t
  /\ Answer(t, "ensure", "wrong-thread")
  /\ UNCHANGED <<statics, library>>

\* Mutant: the owner is not compared.
AdmitAnyThread(t) ==
  /\ ~lifecycleFinished
  /\ lifecycleStarted
  /\ Step(t, "ensure", "enter")
  /\ UNCHANGED <<statics, library, reply>>

AdmitOwner(t) ==
  /\ ~lifecycleFinished
  /\ lifecycleStarted
  /\ ownerThread = t
  /\ Step(t, "ensure", "enter")
  /\ UNCHANGED <<statics, library, reply>>

\* Mutant: lifecycle_started is left for the end of the initialisation.
ClaimWithoutFlag(t) ==
  /\ ~lifecycleFinished
  /\ ~lifecycleStarted
  /\ ownerThread' = t
  /\ Step(t, "ensure", "dlopen")
  /\ UNCHANGED <<lifecycleStarted, lifecycleFinished, library, reply>>

ClaimSession(t) ==
  /\ ~lifecycleFinished
  /\ ~lifecycleStarted
  /\ lifecycleStarted' = TRUE
  /\ ownerThread' = t
  /\ Step(t, "ensure", "dlopen")
  /\ UNCHANGED <<lifecycleFinished, library, reply>>

\* ensure_session after the unlock: load, initialise, look the exports up.
FailInit(t, from, stage) ==
  /\ stage \in Failures
  /\ Answer(t, from, stage)
  /\ initFailed' = TRUE
  /\ UNCHANGED statics

LoadLibrary(t) ==
  \/ /\ Step(t, "dlopen", "init")
     /\ UNCHANGED <<statics, library, reply>>
  \/ /\ FailInit(t, "dlopen", "dlopen")
     /\ UNCHANGED <<shutdownRuntime, exports, runtime>>

InitializeRuntime(t) ==
  \/ /\ Step(t, "init", "lookup")
     /\ shutdownRuntime' = TRUE
     /\ runtime' = "up"
     /\ UNCHANGED <<statics, exports, initFailed, reply>>
  \/ /\ FailInit(t, "init", "initialization")
     /\ shutdownRuntime' \in BOOLEAN      \* the missing symbol may be this one
     /\ UNCHANGED <<exports, runtime>>

LookUpExports(t) ==
  \/ /\ Step(t, "lookup", "enter")
     /\ exports' = Exports
     /\ UNCHANGED <<statics, shutdownRuntime, runtime, initFailed, reply>>
  \/ /\ FailInit(t, "lookup", "exports")
     /\ exports' \in SUBSET Exports \ {Exports}
     /\ runtime' = "down"                 \* shutdown_runtime() before the return
     /\ UNCHANGED shutdownRuntime

\* The JNI function after ensure_session returned NULL.
AnswerProbe(t) ==
  /\ call[t] = "probe"
  /\ Answer(t, "enter", "unexpected-owner")
  /\ UNCHANGED <<statics, library>>

CallExport(t) ==
  /\ call[t] \in Exports
  /\ \/ /\ call[t] \in exports
        /\ runtime = "up"
        /\ Step(t, "enter", "inside")
        /\ UNCHANGED <<statics, library, reply>>
     \/ /\ call[t] \notin exports
        /\ Die(t, "enter", "null-call")
     \/ /\ call[t] \in exports
        /\ runtime # "up"
        /\ Die(t, "enter", "dead-runtime")

ExportReturns(t) ==
  /\ \E text \in {"value", "no-result"} : Answer(t, "inside", text)
  /\ UNCHANGED <<statics, library>>

\* Mutants: shutdown does not compare the owner; it may be repeated.
MayShutdownFromAnywhere(t) == lifecycleStarted /\ ~lifecycleFinished
MayShutdownAgain(t) == lifecycleStarted /\ ownerThread = t

\* nativeJoltShutdown: its critical section, then shutdown_runtime() unlocked.
MayShutdown(t) == lifecycleStarted /\ ~lifecycleFinished /\ ownerThread = t

RejectShutdown(t) ==
  /\ ~MayShutdown(t)
  /\ Answer(t, "lock", "rejected")
  /\ UNCHANGED <<statics, library>>

\* Mutant: a clean shutdown rewinds the session so that it can be started anew.
AcceptShutdownReset(t) ==
  /\ MayShutdown(t)
  /\ lifecycleStarted' = FALSE
  /\ Step(t, "lock", "stopping")
  /\ UNCHANGED <<lifecycleFinished, ownerThread, library, reply>>

AcceptShutdown(t) ==
  /\ MayShutdown(t)
  /\ lifecycleFinished' = TRUE
  /\ Step(t, "lock", "stopping")
  /\ UNCHANGED <<lifecycleStarted, ownerThread, library, reply>>

StopRuntime(t) ==
  \/ /\ shutdownRuntime
     /\ runtime = "up"
     /\ runtime' = "down"
     /\ Answer(t, "stopping", "done")
     /\ UNCHANGED <<statics, shutdownRuntime, exports, initFailed>>
  \/ /\ ~shutdownRuntime
     /\ Die(t, "stopping", "null-call")
  \/ /\ shutdownRuntime
     /\ runtime # "up"
     /\ Die(t, "stopping", "dead-runtime")

Return(t) ==
  /\ Step(t, "return", "outside")
  /\ UNCHANGED <<statics, library, reply>>

-----------------------------------------------------------------------------
EnsureSession(t) ==
  \/ RefuseClosed(t) \/ RefuseWrongThread(t) \/ AdmitOwner(t) \/ ClaimSession(t)

Initialize(t) == LoadLibrary(t) \/ InitializeRuntime(t) \/ LookUpExports(t)

Shutdown(t) == RejectShutdown(t) \/ AcceptShutdown(t) \/ StopRuntime(t)

\* Every step of native code but the return of an export that is running.
NativeStep(t) ==
  \/ EnsureSession(t) \/ Initialize(t) \/ AnswerProbe(t) \/ CallExport(t)
  \/ Shutdown(t) \/ Return(t)

\* Once the process is dead it stays dead.
Dead == fault # "none" /\ UNCHANGED vars

Next ==
  \/ \E t \in Threads :
       \/ \E f \in Calls : Invoke(t, f) \/ InvokeBadInput(t, f)
       \/ NativeStep(t)
       \/ ExportReturns(t)
  \/ Dead

Spec == Init /\ [][Next]_vars

\* Threads in native code are scheduled and the lock is never held for long.
\* An export need not return: poc_debug_eval runs whatever it was sent.
FairSpec == Spec /\ \A t \in Threads : WF_vars(NativeStep(t))

-----------------------------------------------------------------------------
TypeOK ==
  /\ lifecycleStarted \in BOOLEAN
  /\ lifecycleFinished \in BOOLEAN
  /\ ownerThread \in Threads \union {NoThread}
  /\ shutdownRuntime \in BOOLEAN
  /\ exports \in SUBSET Exports
  /\ runtime \in {"absent", "up", "down"}
  /\ fault \in {"none", "null-call", "dead-runtime"}
  /\ pc \in [Threads -> Places]
  /\ call \in [Threads -> Calls]
  /\ reply \in [Threads -> Replies]
  /\ initFailed \in BOOLEAN

\* The places where a thread may touch the runtime library or its pointers.
Runtime == {"dlopen", "init", "lookup", "enter", "inside", "stopping"}

\* Only the thread that claimed the session is ever in runtime code, whatever
\* the other threads call and whenever they call it (owner_thread check of
\* ensure_session and nativeJoltShutdown); hence never two threads at once.
OwnerOnly ==
  \A t \in Threads : pc[t] \in Runtime => lifecycleStarted /\ ownerThread = t

\* While an export runs the runtime is up: no other thread's shutdown, and no
\* failed second initialisation, can pull it from under the running call.
RunsWhileUp == \A t \in Threads : pc[t] = "inside" => runtime = "up"

\* A process whose initialisation did not fail never makes an undefined call:
\* neither through a NULL pointer nor into a runtime that is shut down.
HealthyNeverFaults == ~initFailed => fault = "none"

\* The session is opened once per process: a runtime that has come down, or
\* whose session was closed, is not started again, and the thread that claimed
\* it stays its owner (lifecycle_started is never cleared).
OneSession ==
  [][/\ runtime' = "up" /\ runtime # "up" => runtime = "absent" /\ ~lifecycleFinished
     /\ ownerThread' # ownerThread => ownerThread = NoThread]_vars

\* No export call begins once nativeJoltShutdown has set lifecycle_finished,
\* although the lock is dropped between the check and the call.
NoEntryAfterFinish ==
  [][lifecycleFinished =>
       \A t \in Threads : pc'[t] = "inside" => pc[t] = "inside"]_vars

-----------------------------------------------------------------------------
(* What ties the flags, the pointers and the runtime to the place of the   *)
(* thread in runtime code: with the type and OwnerOnly it is inductive.    *)
Starting == {"dlopen", "init", "lookup"}

UnclaimedIsFresh ==
  ~lifecycleStarted =>
    /\ ownerThread = NoThread
    /\ ~lifecycleFinished
    /\ ~initFailed
    /\ runtime = "absent"

PlaceFixesPhase ==
  \A t \in Threads :
    /\ pc[t] \in Starting => ~lifecycleFinished /\ ~initFailed
    /\ pc[t] \in {"dlopen", "init"} => runtime = "absent"
    /\ pc[t] = "lookup" => shutdownRuntime /\ runtime = "up"
    /\ pc[t] \in {"enter", "inside"} => ~lifecycleFinished
    /\ pc[t] = "stopping" => lifecycleFinished

OpenIsUsable ==
  (lifecycleStarted /\ ~initFailed /\ \A t \in Threads : pc[t] \notin Starting) =>
    /\ shutdownRuntime
    /\ exports = Exports
    /\ runtime = "up" <=>
         (lifecycleFinished => \E t \in Threads : pc[t] = "stopping")

FailedIsDown == initFailed => runtime # "up"

SessionInv ==
  /\ TypeOK
  /\ OwnerOnly
  /\ UnclaimedIsFresh
  /\ PlaceFixesPhase
  /\ OpenIsUsable
  /\ FailedIsDown
  /\ RunsWhileUp
  /\ HealthyNeverFaults

\* docs/GOTCHAS.md: "Keep failed initialization terminal so queued work cannot
\* enter a shut-down Chez runtime", be it by a dispatch, an eval or a shutdown.
NoCallIntoDeadRuntime == fault # "dead-runtime"

\* A caller on a wrong thread is always answered, even while the owner is in
\* an export that never returns: no lock is held across initialisation,
\* exports or shutdown.
CallersAreAnswered ==
  \A t \in Threads : (pc[t] \in {"ensure", "lock"} /\ ownerThread \notin {t, NoThread})
                       ~> (pc[t] = "outside" \/ fault # "none")

-----------------------------------------------------------------------------
\* The session a caller sees, as SessionContract describes it.
phase ==
  IF ~lifecycleStarted THEN "fresh"
  ELSE IF initFailed THEN "failed"
  ELSE IF lifecycleFinished THEN "closed"
  ELSE IF \E t \in Threads : pc[t] \in Starting THEN "opening"
  ELSE "open"

busy == {t \in Threads : pc[t] = "inside"}

Contract == INSTANCE SessionContract
              WITH owner <- ownerThread, dead <- (fault # "none")

\* The session implements its contract: one owner, one opening, exports only
\* between opening and closing, a crash only after a failed opening.
ImplementsContract == Contract!Spec
=============================================================================
