----------------------------- MODULE AndroidHost -----------------------------
(***************************************************************************)
(* The Compose Android host: MainActivity.kt, JoltRuntime.kt and           *)
(* DebugEvalServer.java over the native session of one process.            *)
(*                                                                         *)
(* Every Activity instance makes a JoltRuntime, that is a HandlerThread    *)
(* with a FIFO of posted tasks; the results come back through the main     *)
(* looper.  In debug builds it also makes a DebugEvalServer with a thread  *)
(* of its own, which serves one client at a time: it reads the client's    *)
(* line, posts it to the same FIFO, and waits on a latch that the main     *)
(* looper counts down.  The native session is process-global: it is        *)
(* used here through SessionContract, which JniSession implements, with    *)
(* the activities standing for their runtime threads.  Initialisation does *)
(* not fail here; JniSession explores that it does.                        *)
(***************************************************************************)
EXTENDS Reducer, FiniteSets, SequencesExt

CONSTANTS
  MaxActivities,  \* Activity instances in the life of the process
  MaxMoves,       \* bound: button presses on a resumed activity and returns of
                  \* a paused or stopped one, over the run
  MaxInputs,      \* bound: such moves and debug clients, over the run
  Buttons,        \* the event types the pressed buttons dispatch
  Requests,       \* clients of the debug server, in the order they connect,
                  \* each with one eval request
  Endless,        \* the requests whose form never returns
  Silent          \* the clients that neither send their line nor hang up

Activities == 1..MaxActivities
NoActivity == 0

ASSUME ActivitiesAssumption == MaxActivities \in Nat \ {0}
ASSUME BoundsAssumption     == MaxMoves \in Nat /\ MaxInputs \in Nat
ASSUME RequestsAssumption   ==
  Requests = 1..Cardinality(Requests) /\ Endless \subseteq Requests /\ Silent \subseteq Requests

VARIABLES
  phase, owner, busy, dead,  \* the native session (SessionContract)
  model,       \* poc.native/app-state, inside the runtime
  activity,    \* where each Activity is in its lifecycle
  taskQ,       \* the message queue of each runtime thread; the head is running
  looper,      \* each HandlerThread: "running", "quitting" or "ended"
  mainQ,       \* callbacks posted to the main looper
  joining,     \* the Activity whose onDestroy blocks the main thread in join
  prompt,      \* the permission dialog: "none", "shown" or "answered"
  serving,     \* each DebugEvalServer thread: "none", "up" or "ended"
  listening,   \* the Activities whose server socket is open
  asked,       \* how many of the clients have connected
  backlog,     \* the clients that the open server socket has not accepted yet
  reading,     \* the client whose line each server thread is reading, or 0
  waiting,     \* the request whose result each server thread awaits, or 0
  result,      \* per request, whose result its latch released (0: not yet)
  told,        \* per request, what was written to its client, or how else its
               \* connection ended
  moves,       \* presses and returns so far, for the bound
  issued,      \* history: the events each activity dispatched, in order
  refused      \* history: the activities one of whose dispatches was refused

session == <<phase, owner, busy, dead>>
server  == <<serving, listening, asked, backlog, reading, waiting, told>>
vars    == <<session, model, activity, taskQ, looper, mainQ, joining, prompt, server,
             result, moves, issued, refused>>

Session == INSTANCE SessionContract WITH Threads <- Activities, NoThread <- NoActivity

Dispatch(event) == [kind |-> "dispatch", event |-> event, request |-> 0]
Eval(request)   == [kind |-> "eval", event |-> "", request |-> request]
Close           == [kind |-> "close", event |-> "", request |-> 0]

Init ==
  /\ Session!Init
  /\ model = initialState
  /\ activity = [a \in Activities |-> "absent"]
  /\ taskQ = [a \in Activities |-> <<>>]
  /\ looper = [a \in Activities |-> "running"]
  /\ mainQ = <<>>
  /\ joining = NoActivity
  /\ serving = [a \in Activities |-> "none"]
  /\ prompt = "none"
  /\ listening = {}
  /\ asked = 0
  /\ backlog = <<>>
  /\ reading = [a \in Activities |-> 0]
  /\ waiting = [a \in Activities |-> 0]
  /\ result = [r \in Requests |-> 0]
  /\ told = [r \in Requests |-> "none"]
  /\ moves = 0
  /\ issued = [a \in Activities |-> <<>>]
  /\ refused = {}

-----------------------------------------------------------------------------
(* JoltRuntime: posting to a HandlerThread and what the thread does.       *)

\* Mutant: an event jumps the queue (postAtFrontOfQueue).
PostedInFront(a, tasks) == tasks \o taskQ[a]

\* Handler.post: dropped, with no callback, once the looper is quitting.
Posted(a, tasks) == IF looper[a] = "running" THEN taskQ[a] \o tasks ELSE taskQ[a]

PostDispatches(a, events) ==
  /\ taskQ' = [taskQ EXCEPT ![a] = Posted(a, [i \in DOMAIN events |-> Dispatch(events[i])])]
  /\ issued' = [issued EXCEPT ![a] = @ \o events]

Running(a, kinds) == taskQ[a] # <<>> /\ Head(taskQ[a]).kind \in kinds
Calls == {"dispatch", "eval"}

\* The effects that MainActivity's callback executes and that leave something
\* behind: the others are gone with the call, and so is the shown output.
Prompting(effects) ==
  \E i \in DOMAIN effects : effects[i].type = "permission/request"

\* The task is done: its callback goes to the main looper (and into the model
\* of it if it does more there than show its output).
Finish(a, effects) ==
  /\ taskQ' = [taskQ EXCEPT ![a] = Tail(@)]
  /\ LET callback == [request |-> Head(taskQ[a]).request, prompt |-> Prompting(effects)]
     IN  mainQ' = IF callback.request # 0 \/ callback.prompt
                  THEN Append(mainQ, callback) ELSE mainQ

mainState == <<activity, joining, prompt, server, result, moves, issued>>

\* Mutant: a thread that is not the owner waits for the session to be closed.
RefuseOnceClosed(a) ==
  /\ Running(a, Calls)
  /\ phase = "closed"
  /\ Finish(a, <<>>)
  /\ refused' = IF Running(a, {"dispatch"}) THEN refused \union {a} ELSE refused
  /\ UNCHANGED <<session, model, looper, mainState>>

\* ensure_session refuses: {:error :closed}, or {:error :wrong-thread}.
Refuse(a) ==
  /\ Running(a, Calls)
  /\ phase = "closed" \/ (phase \in {"opening", "open"} /\ owner # a)
  /\ Finish(a, <<>>)
  /\ refused' = IF Running(a, {"dispatch"}) THEN refused \union {a} ELSE refused
  /\ UNCHANGED <<session, model, looper, mainState>>

OpenSession(a) ==
  /\ Running(a, Calls)
  /\ \/ Session!Claim(a)
     \/ owner = a /\ Session!Move("opening", "open")
  /\ UNCHANGED <<model, taskQ, looper, mainQ, refused, mainState>>

EnterExport(a) ==
  /\ Running(a, Calls)
  /\ owner = a
  /\ Session!Enter
  /\ UNCHANGED <<model, taskQ, looper, mainQ, refused, mainState>>

\* poc.native/dispatch: step the model, reset the atom, answer the response.
DispatchReturns(a) ==
  /\ Running(a, {"dispatch"})
  /\ a \in busy
  /\ Session!Leave
  /\ LET stepped == Step(model, Event(Head(taskQ[a]).event))
     IN  model' = stepped.model /\ Finish(a, stepped.effects)
  /\ UNCHANGED <<looper, refused, mainState>>

\* poc.native/debug-eval of a form that does return.
EvalReturns(a) ==
  /\ Running(a, {"eval"})
  /\ Head(taskQ[a]).request \notin Endless
  /\ a \in busy
  /\ Session!Leave
  /\ Finish(a, <<>>)
  /\ UNCHANGED <<model, looper, refused, mainState>>

\* Mutant: the thread quits only if its shutdown was not rejected.
RunCloseAccepted(a) ==
  /\ Running(a, {"close"})
  /\ IF owner = a /\ phase = "open"
     THEN Session!Move("open", "closed") /\ looper' = [looper EXCEPT ![a] = "quitting"]
     ELSE UNCHANGED <<session, looper>>
  /\ taskQ' = [taskQ EXCEPT ![a] = Tail(@)]
  /\ UNCHANGED <<model, mainQ, refused, mainState>>

\* The task of JoltRuntime.close: nativeJoltShutdown, rejected unless this is
\* the owner of an open session, then quitSafely.
RunClose(a) ==
  /\ Running(a, {"close"})
  /\ IF owner = a /\ phase = "open" THEN Session!Move("open", "closed") ELSE UNCHANGED session
  /\ looper' = [looper EXCEPT ![a] = "quitting"]
  /\ taskQ' = [taskQ EXCEPT ![a] = Tail(@)]
  /\ UNCHANGED <<model, mainQ, refused, mainState>>

\* quitSafely lets the tasks that are already queued run first.
LooperEnds(a) ==
  /\ looper[a] = "quitting"
  /\ taskQ[a] = <<>>
  /\ looper' = [looper EXCEPT ![a] = "ended"]
  /\ UNCHANGED <<session, model, taskQ, mainQ, refused, mainState>>

-----------------------------------------------------------------------------
(* MainActivity: the main looper runs one callback at a time, and none     *)
(* while onDestroy is joining the debug server's thread.                   *)
MainFree == joining = NoActivity
runtimeState == <<session, model, looper, refused>>

\* A launch is one message of the main looper: onCreate, onStart and onResume,
\* each of which dispatches.  The debug server is skipped if its port is taken.
Launch(a) ==
  /\ MainFree
  /\ activity[a] = "absent"
  /\ \A b \in 1..(a - 1) : activity[b] \in {"paused", "stopped", "destroyed"}
  /\ activity' = [activity EXCEPT ![a] = "resumed"]
  /\ IF listening = {}
     THEN serving' = [serving EXCEPT ![a] = "up"] /\ listening' = {a}
     ELSE UNCHANGED <<serving, listening>>
  /\ PostDispatches(a, <<"lifecycle/create", "lifecycle/start", "lifecycle/resume">>)
  /\ UNCHANGED <<runtimeState, mainQ, joining, prompt, asked, backlog, reading, waiting, told,
                 result, moves>>

\* The later callbacks each dispatch their event, with those that follow it in
\* the same message.
Transition(a, from, to, events) ==
  /\ MainFree
  /\ activity[a] = from
  /\ activity' = [activity EXCEPT ![a] = to]
  /\ PostDispatches(a, events)
  /\ UNCHANGED <<runtimeState, mainQ, joining, prompt, server, result>>

OnPause(a)  == Transition(a, "resumed", "paused", <<"lifecycle/pause">>) /\ UNCHANGED moves

\* Mutant: onStop closes the runtime before it dispatches.
OnStopClosing(a) ==
  /\ MainFree
  /\ activity[a] = "paused"
  /\ activity' = [activity EXCEPT ![a] = "stopped"]
  /\ taskQ' = [taskQ EXCEPT ![a] = @ \o <<Close, Dispatch("lifecycle/stop")>>]
  /\ issued' = [issued EXCEPT ![a] = Append(@, "lifecycle/stop")]
  /\ UNCHANGED <<runtimeState, mainQ, joining, prompt, server, result, moves>>

OnStop(a) == Transition(a, "paused", "stopped", <<"lifecycle/stop">>) /\ UNCHANGED moves

MoveAllowed == moves < MaxMoves /\ moves + asked < MaxInputs

\* Only the newest activity comes to the front again.
Return(a) ==
  /\ MoveAllowed
  /\ moves' = moves + 1
  /\ \A b \in Activities : b > a => activity[b] = "absent"
  /\ \/ Transition(a, "paused", "resumed", <<"lifecycle/resume">>)
     \/ Transition(a, "stopped", "resumed", <<"lifecycle/start", "lifecycle/resume">>)

Tap(a, button) ==
  /\ MoveAllowed
  /\ moves' = moves + 1
  /\ MainFree
  /\ activity[a] = "resumed"
  /\ PostDispatches(a, <<button>>)
  /\ UNCHANGED <<runtimeState, activity, mainQ, joining, prompt, server, result>>

\* onDestroy: close the server socket and join the server's thread, if there
\* is one; then close the runtime.
PostClose(a) ==
  /\ activity' = [activity EXCEPT ![a] = "destroyed"]
  /\ taskQ' = [taskQ EXCEPT ![a] = Posted(a, <<Close>>)]

\* server.close(): the clients that were not accepted are cut off, an accepted one
\* keeps its connection.
CloseSocket(a) ==
  /\ listening' = listening \ {a}
  /\ IF a \in listening
     THEN /\ backlog' = <<>>
          /\ told' = [r \in Requests |-> IF r \in ToSet(backlog) THEN "reset" ELSE told[r]]
     ELSE UNCHANGED <<backlog, told>>

OnDestroy(a) ==
  /\ MainFree
  /\ activity[a] = "stopped"
  /\ CloseSocket(a)
  /\ IF serving[a] = "none"
     THEN PostClose(a) /\ UNCHANGED joining
     ELSE joining' = a /\ UNCHANGED <<activity, taskQ>>
  /\ UNCHANGED <<runtimeState, mainQ, prompt, serving, asked, reading, waiting, result, moves,
                 issued>>

\* thread.join(1000) returns when the thread has ended, or after a second.
JoinReturns(a) ==
  /\ joining = a
  /\ joining' = NoActivity
  /\ PostClose(a)
  /\ UNCHANGED <<runtimeState, mainQ, prompt, server, result, moves, issued>>

\* Mutant: one result slot and latch shared by all requests of the server.
StoreShared(request) ==
  [r \in Requests |-> IF \E a \in Activities : waiting[a] = r THEN request ELSE result[r]]

\* onComplete of an eval: store the result of its own request and count its
\* own latch down, even if nobody waits any more.
Store(request) == [result EXCEPT ![request] = request]

\* onComplete of a dispatch: show the output and execute the effects; of the
\* effects only the permission prompt leaves something behind.
RunCallback ==
  /\ MainFree
  /\ mainQ # <<>>
  /\ mainQ' = Tail(mainQ)
  /\ LET callback == Head(mainQ)
     IN  /\ result' = IF callback.request # 0 THEN Store(callback.request) ELSE result
         /\ prompt' = IF callback.prompt THEN "shown" ELSE prompt
  /\ UNCHANGED <<runtimeState, activity, taskQ, joining, server, moves, issued>>

\* The user answers the dialog: no onRequestPermissionsResult is overridden.
AnswerPrompt ==
  /\ MainFree
  /\ prompt = "shown"
  /\ prompt' = "answered"
  /\ UNCHANGED <<runtimeState, activity, taskQ, mainQ, joining, server, result, moves, issued>>

-----------------------------------------------------------------------------
(* DebugEvalServer: a sequential accept loop on a thread of its own.       *)
hostState == <<runtimeState, activity, mainQ, joining, prompt, result, moves, issued>>

\* A client connects; the kernel queues it at the open socket.
Connect ==
  /\ listening # {}
  /\ asked + 1 \in Requests /\ moves + asked < MaxInputs
  /\ asked' = asked + 1
  /\ backlog' = Append(backlog, asked')
  /\ UNCHANGED <<hostState, taskQ, serving, listening, reading, waiting, told>>

Accept(a) ==
  /\ serving[a] = "up"
  /\ reading[a] = 0 /\ waiting[a] = 0
  /\ a \in listening /\ backlog # <<>>
  /\ reading' = [reading EXCEPT ![a] = Head(backlog)]
  /\ backlog' = Tail(backlog)
  /\ UNCHANGED <<hostState, taskQ, serving, listening, asked, waiting, told>>

\* readLine returns and evaluate posts the form, whatever has become of the
\* socket, the activity and the looper since the client was accepted.
ReadLine(a) ==
  /\ reading[a] \notin {0} \union Silent
  /\ reading' = [reading EXCEPT ![a] = 0]
  /\ waiting' = [waiting EXCEPT ![a] = reading[a]]
  /\ taskQ' = [taskQ EXCEPT ![a] = Posted(a, <<Eval(reading[a])>>)]
  /\ UNCHANGED <<hostState, serving, listening, asked, backlog, told>>

\* The client ends its stream before a line (readLine is null, a malformed frame)
\* or breaks the connection (an exception, ignored).
HangUp(a) ==
  /\ reading[a] \notin {0} \union Silent
  /\ reading' = [reading EXCEPT ![a] = 0]
  /\ \E end \in {"malformed", "lost"} : told' = [told EXCEPT ![reading[a]] = end]
  /\ UNCHANGED <<hostState, taskQ, serving, listening, asked, backlog, waiting>>

Tell(a, answer) ==
  /\ told' = [told EXCEPT ![waiting[a]] = answer]
  /\ waiting' = [waiting EXCEPT ![a] = 0]
  /\ UNCHANGED <<hostState, taskQ, serving, listening, asked, backlog, reading>>

\* The latch was counted down in time.
AnswerRequest(a) ==
  /\ waiting[a] # 0
  /\ result[waiting[a]] # 0
  /\ Tell(a, IF result[waiting[a]] = waiting[a] THEN "own" ELSE "foreign")

\* Mutant: await() without a time limit.
TimeOutNever(a) == FALSE

\* done.await(10 s) gives up.
TimeOut(a) ==
  /\ waiting[a] # 0
  /\ result[waiting[a]] = 0
  /\ Tell(a, "timeout")

\* The closed socket ends the accept loop.
ServerEnds(a) ==
  /\ serving[a] = "up"
  /\ reading[a] = 0 /\ waiting[a] = 0
  /\ a \notin listening
  /\ serving' = [serving EXCEPT ![a] = "ended"]
  /\ UNCHANGED <<hostState, taskQ, listening, asked, backlog, reading, waiting, told>>

-----------------------------------------------------------------------------
RuntimeStep(a) ==
  \/ Refuse(a) \/ OpenSession(a) \/ EnterExport(a) \/ DispatchReturns(a)
  \/ EvalReturns(a) \/ RunClose(a) \/ LooperEnds(a)

UserStep(a) ==
  \/ Launch(a) \/ OnPause(a) \/ OnStop(a) \/ Return(a)
  \/ (\E button \in Buttons : Tap(a, button))
  \/ OnDestroy(a)

ServerStep(a) ==
  \/ Accept(a) \/ ReadLine(a) \/ HangUp(a)
  \/ AnswerRequest(a) \/ TimeOut(a) \/ ServerEnds(a)

Next ==
  \/ \E a \in Activities :
       RuntimeStep(a) \/ UserStep(a) \/ JoinReturns(a) \/ ServerStep(a)
  \/ Connect
  \/ RunCallback
  \/ AnswerPrompt

Spec == Init /\ [][Next]_vars

\* Threads and loopers are scheduled, time passes (join and await give up) and
\* the user answers a dialog; the user need not do anything else.  An endless
\* form never returns: EvalReturns is not enabled for it.  A client that is not
\* silent sends its line or hangs up; a silent one holds its server's thread.
FairSpec ==
  /\ Spec
  /\ \A a \in Activities :
       WF_vars(RuntimeStep(a)) /\ WF_vars(JoinReturns(a)) /\ WF_vars(ServerStep(a))
  /\ WF_vars(RunCallback)
  /\ WF_vars(AnswerPrompt)

-----------------------------------------------------------------------------
\* What the reducer makes of a series of events.
Replay(events) ==
  FoldLeft(LAMBDA state, event : Step(state, Event(event)).model, initialState, events)

\* How many of the first n tasks of a queue are events.
EventsIn(queue, n) == Cardinality({i \in 1..n : queue[i].kind = "dispatch"})

\* How many of its events an activity's thread has done with.
Done(a) == Len(issued[a]) - EventsIn(taskQ[a], Len(taskQ[a]))

\* The Jolt model is what the reducer makes of the owner's dispatched events,
\* in the order of dispatch, less those still queued: whatever the main
\* thread, the debug server and other activities do meanwhile, no event of
\* the owner is lost, repeated, reordered or joined by a foreign one
\* (JoltRuntime.dispatch posts, poc.native/dispatch steps).
ModelFollowsOwner ==
  owner # NoActivity => model = Replay(SubSeq(issued[owner], 1, Done(owner)))

\* The session is closed only by the owner's onDestroy, after every event of
\* the owner was applied.
ClosedAfterLastEvent ==
  phase = "closed" =>
    /\ activity[owner] = "destroyed"
    /\ \A i \in DOMAIN taskQ[owner] : taskQ[owner][i].kind # "dispatch"

\* A client is told the result of its own form or a timeout, although results
\* of requests that timed out still arrive while a later request waits.
AnswersMatchRequests == \A r \in Requests : told[r] # "foreign"

\* A client in the backlog of a server whose accepted client stays silent.
BehindSilence(r) == r \in ToSet(backlog) /\ \E a \in listening : reading[a] \in Silent

\* The sequential server gets to every client that is not silent, unless it stands
\* behind one that is: also past forms that never return, and when its socket was
\* closed, its task came to lie behind the shutdown, or a looper that is quitting
\* dropped it, since its line was awaited.
ClientsAreAnswered ==
  \A r \in Requests \ Silent : (asked >= r) ~> (told[r] # "none" \/ BehindSilence(r))

Hung(a) == Running(a, {"eval"}) /\ Head(taskQ[a]).request \in Endless /\ a \in busy

Held(a) == reading[a] \in Silent

\* Nothing of an activity goes on running once its onDestroy has begun: the main
\* thread is given back, the debug server's thread ends unless a silent client
\* holds it, the runtime thread ends unless an endless form hangs it, also if it
\* is not the owner's and its shutdown was rejected, and the owner's session is
\* closed first.
DestroyedActivitiesEnd ==
  \A a \in Activities :
    (joining = a \/ activity[a] = "destroyed") ~>
      /\ joining # a
      /\ serving[a] # "up" \/ Held(a)
      /\ Hung(a) \/ (looper[a] = "ended" /\ (owner = a => phase = "closed"))

\* Every runtime thread works off its queue unless an endless form hangs it; a
\* thread that is not the owner is not held up by the owner.
QueuesDrain == \A a \in Activities : (taskQ[a] # <<>>) ~> (taskQ[a] = <<>> \/ Hung(a))

\* docs/adr/0002-single-jolt-runtime-thread.md: one dedicated runtime thread
\* and every Jolt operation routed through its queue, so none is refused as
\* coming from a wrong thread.
OneRuntimeThread == phase # "closed" => refused = {}

\* docs/ARCHITECTURE.md: the Android adapters queue result events back through
\* JoltRuntime, so an answered permission dialog ends up in the model.
ResultEventsAreQueued == (prompt = "answered") ~> (model.permission # "nil")
=============================================================================
