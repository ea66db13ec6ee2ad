-------------------------- MODULE JniSessionProofs --------------------------
(***************************************************************************)
(* Proofs about the native session, for any set of threads and any set of  *)
(* initialisation stages that may fail.  SessionInv is the inductive       *)
(* invariant: OwnerOnly alone is not inductive, because that the place of  *)
(* the one thread in runtime code determines the flags and the state of    *)
(* the runtime has to be carried along with it.                            *)
(***************************************************************************)
EXTENDS JniSession, TLAPS

\* A fresh process, with all C statics zero, satisfies the invariant.
LEMMA InitSession == Init => SessionInv
  BY ThreadsAssumption DEF Init, SessionInv, TypeOK, OwnerOnly, UnclaimedIsFresh, PlaceFixesPhase,
     OpenIsUsable, FailedIsDown, RunsWhileUp, HealthyNeverFaults, Places, Runtime,
     Starting, Calls, Exports, Replies

\* Every step of every thread preserves the invariant, one step per action.
LEMMA NextSession == SessionInv /\ [Next]_vars => SessionInv'
<1> SUFFICES ASSUME SessionInv, [Next]_vars PROVE SessionInv'
    OBVIOUS
<1> USE ThreadsAssumption, FailuresAssumption
    DEF SessionInv, TypeOK, OwnerOnly, UnclaimedIsFresh, PlaceFixesPhase,
     OpenIsUsable, FailedIsDown, RunsWhileUp, HealthyNeverFaults, Places, Runtime,
     Starting, Calls, Exports, Replies, InitStages, statics, library, Step, Answer, Die
<1>1. ASSUME NEW t \in Threads, NEW f \in Calls, Invoke(t, f) PROVE SessionInv'
      BY <1>1 DEF Invoke
<1>2. ASSUME NEW t \in Threads, NEW f \in Calls, InvokeBadInput(t, f) PROVE SessionInv'
      BY <1>2 DEF InvokeBadInput
<1>3. ASSUME NEW t \in Threads, RefuseClosed(t) PROVE SessionInv'
      BY <1>3 DEF RefuseClosed
<1>4. ASSUME NEW t \in Threads, RefuseWrongThread(t) PROVE SessionInv'
      BY <1>4 DEF RefuseWrongThread
<1>5. ASSUME NEW t \in Threads, AdmitOwner(t) PROVE SessionInv'
      BY <1>5 DEF AdmitOwner
<1>6. ASSUME NEW t \in Threads, ClaimSession(t) PROVE SessionInv'
      BY <1>6 DEF ClaimSession
<1>7. ASSUME NEW t \in Threads, LoadLibrary(t) PROVE SessionInv'
  <2>1. CASE Step(t, "dlopen", "init") /\ UNCHANGED <<statics, library, reply>>
        BY <2>1
  <2>2. CASE /\ FailInit(t, "dlopen", "dlopen")
             /\ UNCHANGED <<shutdownRuntime, exports, runtime>>
        BY <2>2 DEF FailInit
  <2> QED BY <1>7, <2>1, <2>2 DEF LoadLibrary
<1>8. ASSUME NEW t \in Threads, InitializeRuntime(t) PROVE SessionInv'
  <2>1. CASE /\ Step(t, "init", "lookup")
             /\ shutdownRuntime' = TRUE
             /\ runtime' = "up"
             /\ UNCHANGED <<statics, exports, initFailed, reply>>
        BY <2>1
  <2>2. CASE /\ FailInit(t, "init", "initialization")
             /\ shutdownRuntime' \in BOOLEAN
             /\ UNCHANGED <<exports, runtime>>
        BY <2>2 DEF FailInit
  <2> QED BY <1>8, <2>1, <2>2 DEF InitializeRuntime
<1>9. ASSUME NEW t \in Threads, LookUpExports(t) PROVE SessionInv'
  <2>1. CASE /\ Step(t, "lookup", "enter")
             /\ exports' = Exports
             /\ UNCHANGED <<statics, shutdownRuntime, runtime, initFailed, reply>>
        BY <2>1
  <2>2. CASE /\ FailInit(t, "lookup", "exports")
             /\ exports' \in SUBSET Exports \ {Exports}
             /\ runtime' = "down"
             /\ UNCHANGED shutdownRuntime
        BY <2>2 DEF FailInit
  <2> QED BY <1>9, <2>1, <2>2 DEF LookUpExports
<1>10. ASSUME NEW t \in Threads, AnswerProbe(t) PROVE SessionInv'
      BY <1>10 DEF AnswerProbe
<1>11. ASSUME NEW t \in Threads, CallExport(t) PROVE SessionInv'
  <2>1. CASE /\ call[t] \in exports
             /\ runtime = "up"
             /\ Step(t, "enter", "inside")
             /\ UNCHANGED <<statics, library, reply>>
        BY <2>1
  <2>2. CASE call[t] \notin exports /\ Die(t, "enter", "null-call")
        BY <1>11, <2>2 DEF CallExport
  <2>3. CASE call[t] \in exports /\ runtime # "up" /\ Die(t, "enter", "dead-runtime")
        BY <1>11, <2>3 DEF CallExport
  <2> QED BY <1>11, <2>1, <2>2, <2>3 DEF CallExport
<1>12. ASSUME NEW t \in Threads, ExportReturns(t) PROVE SessionInv'
      BY <1>12 DEF ExportReturns
<1>13. ASSUME NEW t \in Threads, RejectShutdown(t) PROVE SessionInv'
      BY <1>13 DEF RejectShutdown
<1>14. ASSUME NEW t \in Threads, AcceptShutdown(t) PROVE SessionInv'
      BY <1>14 DEF AcceptShutdown, MayShutdown
<1>15. ASSUME NEW t \in Threads, StopRuntime(t) PROVE SessionInv'
  <2>1. CASE /\ shutdownRuntime
             /\ runtime = "up"
             /\ runtime' = "down"
             /\ Answer(t, "stopping", "done")
             /\ UNCHANGED <<statics, shutdownRuntime, exports, initFailed>>
        BY <2>1
  <2>2. CASE ~shutdownRuntime /\ Die(t, "stopping", "null-call")
        BY <2>2
  <2>3. CASE shutdownRuntime /\ runtime # "up" /\ Die(t, "stopping", "dead-runtime")
        BY <2>3
  <2> QED BY <1>15, <2>1, <2>2, <2>3 DEF StopRuntime
<1>16. ASSUME NEW t \in Threads, Return(t) PROVE SessionInv'
      BY <1>16 DEF Return
<1>17. CASE UNCHANGED vars
      BY <1>17 DEF vars
<1> QED
    BY <1>1, <1>2, <1>3, <1>4, <1>5, <1>6, <1>7, <1>8, <1>9, <1>10, <1>11, <1>12,
       <1>13, <1>14, <1>15, <1>16, <1>17
    DEF Next, NativeStep, EnsureSession, Initialize, Shutdown, Dead

\* The session's type invariant, and with it the whole inductive invariant.
THEOREM SessionInvariant == Spec => []SessionInv
  BY InitSession, NextSession, PTL DEF Spec

\* Whatever the threads call, only the claimer of the session touches the
\* runtime library (the owner_thread checks of jolt_probe.c).
THEOREM OnlyTheOwnerEnters == Spec => []OwnerOnly
<1>1. SessionInv => OwnerOnly
      BY DEF SessionInv
<1> QED BY <1>1, SessionInvariant, PTL

\* No call through a NULL pointer or into a runtime that is down unless
\* ensure_session has reported a failed load; exports run only while it is up.
THEOREM NoFaultUnlessInitFailed == Spec => [](HealthyNeverFaults /\ RunsWhileUp)
<1>1. SessionInv => HealthyNeverFaults /\ RunsWhileUp
      BY DEF SessionInv
<1> QED BY <1>1, SessionInvariant, PTL

\* If no stage of the initialisation can fail, the process never faults at all.
THEOREM NeverFailingNeverFaults == Failures = {} /\ Spec => [](fault = "none")
<1>. DEFINE Whole == SessionInv /\ ~initFailed
<1>1. Failures = {} /\ Init => Whole
      BY InitSession DEF Init
<1>2. Failures = {} /\ Whole /\ [Next]_vars => Whole'
  <2> SUFFICES ASSUME Failures = {}, Whole, [Next]_vars PROVE ~initFailed'
      BY NextSession
  <2> QED
      BY DEF Next, vars, NativeStep, EnsureSession, Initialize, Shutdown, Dead, Invoke,
         InvokeBadInput, RefuseClosed, RefuseWrongThread, AdmitOwner, ClaimSession,
         LoadLibrary, InitializeRuntime, LookUpExports, FailInit, AnswerProbe, CallExport,
         ExportReturns, RejectShutdown, AcceptShutdown, StopRuntime, Return, library, Die
<1>3. Whole => fault = "none"
      BY DEF SessionInv, HealthyNeverFaults
<1>4. (Failures = {}) => [](Failures = {})
      PROOF OBVIOUS
<1> QED BY <1>1, <1>2, <1>3, <1>4, PTL DEF Spec

\* The runtime is brought up at most once and never changes owner.
THEOREM OneSessionHolds == Spec => OneSession
<1>1. SessionInv /\ [Next]_vars =>
        [/\ runtime' = "up" /\ runtime # "up" => runtime = "absent" /\ ~lifecycleFinished
         /\ ownerThread' # ownerThread => ownerThread = NoThread]_vars
  BY DEF SessionInv, PlaceFixesPhase, UnclaimedIsFresh, TypeOK,
      Starting, Next, vars, NativeStep, EnsureSession, Initialize, Shutdown, Dead, Invoke,
         InvokeBadInput, RefuseClosed, RefuseWrongThread, AdmitOwner, ClaimSession,
         LoadLibrary, InitializeRuntime, LookUpExports, FailInit, AnswerProbe, CallExport,
         ExportReturns, RejectShutdown, AcceptShutdown, StopRuntime, Return, library, Die,
         statics, Step, Answer
<1> QED BY <1>1, SessionInvariant, PTL DEF Spec, OneSession

\* No export call begins after nativeJoltShutdown has set lifecycle_finished.
THEOREM NoEntryAfterFinishHolds == Spec => NoEntryAfterFinish
<1>1. SessionInv /\ [Next]_vars =>
        [lifecycleFinished => \A t \in Threads : pc'[t] = "inside" => pc[t] = "inside"]_vars
  BY DEF SessionInv, PlaceFixesPhase, UnclaimedIsFresh, TypeOK,
      Starting, Next, vars, NativeStep, EnsureSession, Initialize, Shutdown, Dead, Invoke,
         InvokeBadInput, RefuseClosed, RefuseWrongThread, AdmitOwner, ClaimSession,
         LoadLibrary, InitializeRuntime, LookUpExports, FailInit, AnswerProbe, CallExport,
         ExportReturns, RejectShutdown, AcceptShutdown, StopRuntime, Return, library, Die,
         statics, Step, Answer
<1> QED BY <1>1, SessionInvariant, PTL DEF Spec, NoEntryAfterFinish

-----------------------------------------------------------------------------
(* Refinement: which step of the contract each step of the session is.     *)
Stutters == UNCHANGED <<phase, ownerThread, busy, fault>>

\* A fresh process is a fresh session.
LEMMA InitContract == Init => Contract!Init
  BY DEF Init, Contract!Init, phase, busy

\* A thread in runtime code is the only one there, so its place is the phase.
LEMMA PlaceIsPhase ==
  ASSUME SessionInv, NEW t \in Threads
  PROVE  /\ pc[t] \in Starting => phase = "opening" /\ busy = {}
         /\ pc[t] = "enter" => phase = (IF initFailed THEN "failed" ELSE "open") /\ busy = {}
         /\ pc[t] = "inside" => phase = "open" /\ busy = {ownerThread}
         /\ pc[t] = "stopping" => phase = (IF initFailed THEN "failed" ELSE "closed") /\ busy = {}
         /\ pc[t] = "lock" /\ MayShutdown(t)
              => phase = (IF initFailed THEN "failed" ELSE "open") /\ busy = {}
<1> USE DEF SessionInv, TypeOK, OwnerOnly, UnclaimedIsFresh, PlaceFixesPhase, FailedIsDown,
        RunsWhileUp, Runtime, Starting, phase, busy, MayShutdown
<1>1. pc[t] \in Starting => phase = "opening" /\ busy = {}
      OBVIOUS
<1>2. pc[t] = "enter" => phase = (IF initFailed THEN "failed" ELSE "open") /\ busy = {}
      OBVIOUS
<1>3. pc[t] = "inside" => phase = "open" /\ busy = {ownerThread}
      OBVIOUS
<1>4. pc[t] = "stopping" => phase = (IF initFailed THEN "failed" ELSE "closed") /\ busy = {}
      OBVIOUS
<1>5. pc[t] = "lock" /\ MayShutdown(t)
              => phase = (IF initFailed THEN "failed" ELSE "open") /\ busy = {}
      OBVIOUS
<1> QED BY <1>1, <1>2, <1>3, <1>4, <1>5

\* Steps that move no thread into or out of runtime code change nothing the
\* contract speaks of.
LEMMA QuietSteps ==
  ASSUME SessionInv, NEW t \in Threads,
         \/ \E f \in Calls : Invoke(t, f) \/ InvokeBadInput(t, f)
         \/ RefuseClosed(t) \/ RefuseWrongThread(t) \/ AdmitOwner(t)
         \/ AnswerProbe(t) \/ RejectShutdown(t) \/ Return(t)
  PROVE  Stutters
<1>1. UNCHANGED <<lifecycleStarted, lifecycleFinished, ownerThread, fault, initFailed>>
      BY DEF Invoke, InvokeBadInput, RefuseClosed, RefuseWrongThread, AdmitOwner, AnswerProbe,
             RejectShutdown, Return, Step, Answer, statics, library
<1>2. \A u \in Threads : /\ pc'[u] \in Starting <=> pc[u] \in Starting
                         /\ pc'[u] = "inside" <=> pc[u] = "inside"
      BY DEF Invoke, InvokeBadInput, RefuseClosed, RefuseWrongThread, AdmitOwner, AnswerProbe,
             RejectShutdown, Return, Step, Answer, Starting, SessionInv, TypeOK
<1> QED BY <1>1, <1>2 DEF Stutters, phase, busy

\* Every step of the native code is a step of the contract or a stutter.
LEMMA StepContract ==
  SessionInv /\ [Next]_vars => [Contract!Next]_(Contract!contractVars)
<1> SUFFICES ASSUME SessionInv, SessionInv', [Next]_vars
             PROVE  Contract!Next \/ Stutters
    BY NextSession DEF Contract!contractVars, Stutters
<1> USE ThreadsAssumption DEF SessionInv, TypeOK, statics, library, Step, Answer
<1>1. ASSUME NEW t \in Threads, ClaimSession(t) PROVE Contract!Next
  <2>1. phase = "fresh" /\ phase' = "opening" /\ busy' = busy
        BY <1>1, PlaceIsPhase DEF ClaimSession, phase, busy, Starting, UnclaimedIsFresh
  <2> QED BY <1>1, <2>1 DEF ClaimSession, Contract!Next, Contract!Claim
<1>2. ASSUME NEW t \in Threads, LoadLibrary(t) \/ InitializeRuntime(t)
      PROVE Contract!Next \/ Stutters
  <2>1. /\ phase = "opening" /\ busy = {} /\ busy' = busy /\ UNCHANGED <<ownerThread, fault>>
        /\ fault = "none"
        BY <1>2, PlaceIsPhase
        DEF LoadLibrary, InitializeRuntime, FailInit, Starting, busy
  <2>2. CASE initFailed'
    <3>1. phase' = "failed"
          BY <1>2, <2>2 DEF LoadLibrary, InitializeRuntime, FailInit, phase, OwnerOnly,
             Runtime
    <3> QED BY <2>1, <3>1 DEF Contract!Next, Contract!Move
  <2>3. CASE ~initFailed'
    <3>1. phase' = "opening"
          BY <1>2, <2>3 DEF LoadLibrary, InitializeRuntime, FailInit, phase, OwnerOnly,
             Runtime, Starting, PlaceFixesPhase
    <3> QED BY <2>1, <3>1 DEF Stutters
  <2> QED BY <2>2, <2>3
<1>3. ASSUME NEW t \in Threads, LookUpExports(t) PROVE Contract!Next
  <2>1. /\ phase = "opening" /\ busy = {} /\ busy' = busy /\ UNCHANGED <<ownerThread, fault>>
        /\ fault = "none"
        BY <1>3, PlaceIsPhase DEF LookUpExports, FailInit, Starting, busy
  <2>2. phase' \in {"open", "failed"}
        BY <1>3 DEF LookUpExports, FailInit, phase, OwnerOnly, Runtime, Starting,
           PlaceFixesPhase
  <2> QED BY <2>1, <2>2 DEF Contract!Next, Contract!Move
<1>4. ASSUME NEW t \in Threads, CallExport(t) PROVE Contract!Next
  <2>1. /\ phase = (IF initFailed THEN "failed" ELSE "open")
        /\ busy = {} /\ ownerThread = t /\ fault = "none"
        /\ UNCHANGED <<ownerThread, initFailed>>
        BY <1>4, PlaceIsPhase DEF CallExport, Die, OwnerOnly, Runtime
  <2>2. CASE Step(t, "enter", "inside") /\ runtime = "up"
    <3>1. phase' = phase /\ phase = "open" /\ busy' = {t} /\ UNCHANGED fault
          BY <1>4, <2>1, <2>2 DEF CallExport, FailedIsDown, phase, busy, Starting, Die
    <3> QED BY <2>1, <3>1 DEF Contract!Next, Contract!Enter
  <2>3. CASE \E how \in {"null-call", "dead-runtime"} : Die(t, "enter", how)
    <3>1. UNCHANGED <<phase, busy>> /\ fault' # "none" /\ initFailed
          BY <2>3 DEF Die, phase, busy, HealthyNeverFaults
    <3> QED BY <2>1, <3>1 DEF Contract!Next, Contract!Crash
  <2> QED BY <1>4, <2>2, <2>3 DEF CallExport
<1>5. ASSUME NEW t \in Threads, ExportReturns(t) PROVE Contract!Next
  <2>1. phase = "open" /\ busy = {ownerThread} /\ ownerThread = t /\ fault = "none"
        BY <1>5, PlaceIsPhase DEF ExportReturns, OwnerOnly, Runtime
  <2>2. phase' = phase /\ busy' = {} /\ UNCHANGED <<ownerThread, fault>>
        BY <1>5, <2>1 DEF ExportReturns, phase, busy, Starting
  <2> QED BY <2>1, <2>2 DEF Contract!Next, Contract!Leave
<1>6. ASSUME NEW t \in Threads, AcceptShutdown(t) PROVE Contract!Next \/ Stutters
  <2>1. /\ phase = (IF initFailed THEN "failed" ELSE "open")
        /\ busy = {} /\ fault = "none"
        BY <1>6, PlaceIsPhase DEF AcceptShutdown
  <2>2. /\ phase' = (IF initFailed THEN "failed" ELSE "closed")
        /\ busy' = busy /\ UNCHANGED <<ownerThread, fault>>
        BY <1>6, <2>1 DEF AcceptShutdown, MayShutdown, phase, busy
  <2> QED BY <2>1, <2>2 DEF Contract!Next, Contract!Move, Stutters
<1>7. ASSUME NEW t \in Threads, StopRuntime(t) PROVE Contract!Next \/ Stutters
  <2>1. /\ phase = (IF initFailed THEN "failed" ELSE "closed")
        /\ fault = "none" /\ UNCHANGED <<ownerThread, initFailed>>
        BY <1>7, PlaceIsPhase DEF StopRuntime, Die
  <2>2. CASE Answer(t, "stopping", "done")
    <3>1. UNCHANGED <<phase, busy, fault>>
          BY <1>7, <2>2 DEF StopRuntime, phase, busy, Starting, Die
    <3> QED BY <2>1, <3>1 DEF Stutters
  <2>3. CASE \E how \in {"null-call", "dead-runtime"} : Die(t, "stopping", how)
    <3>1. UNCHANGED <<phase, busy>> /\ fault' # "none" /\ initFailed
          BY <2>3 DEF Die, phase, busy, HealthyNeverFaults
    <3> QED BY <2>1, <3>1 DEF Contract!Next, Contract!Crash
  <2> QED BY <1>7, <2>2, <2>3 DEF StopRuntime
<1>8. CASE UNCHANGED vars
      BY <1>8 DEF vars, Stutters, phase, busy
<1> QED BY <1>1, <1>2, <1>3, <1>4, <1>5, <1>6, <1>7, <1>8, QuietSteps
        DEF Next, NativeStep, EnsureSession, Initialize, Shutdown, Dead

\* The session of jolt_probe.c implements SessionContract.
THEOREM Refinement == Spec => ImplementsContract
  BY InitContract, StepContract, SessionInvariant, PTL
     DEF Spec, ImplementsContract, Contract!Spec
=============================================================================
