-------------------------- MODULE AndroidHostProofs --------------------------
(***************************************************************************)
(* The end of the session in the Android host, the answers of its debug    *)
(* server, and its model, for any number of activities, inputs and         *)
(* requests.                                                               *)
(*                                                                         *)
(* The session may only be closed by a task that stands behind every       *)
(* event of its activity: onDestroy is the last of an activity's callbacks *)
(* and posts the close to the FIFO that the events went through.           *)
(*                                                                         *)
(* The model is what the reducer makes of the owner's events so far. The   *)
(* events of an activity are those it has issued; the ones that are still  *)
(* to be done stand in its queue, and they are the last ones, in order.    *)
(* Counting the queue's dispatches therefore tells which event is next.    *)
(***************************************************************************)
EXTENDS AndroidHost, FiniteSetTheorems, SequenceTheorems, WellFoundedInduction, TLAPS

Tasks ==
  [kind : {"dispatch", "eval", "close"},
   event : Buttons \union {"", "lifecycle/create", "lifecycle/start", "lifecycle/resume",
                           "lifecycle/pause", "lifecycle/stop"},
   request : Requests \union {0}]

Events == Buttons \union {"lifecycle/create", "lifecycle/start", "lifecycle/resume",
                          "lifecycle/pause", "lifecycle/stop"}

-----------------------------------------------------------------------------
(* A queue of tasks                                                        *)
NoClose(q)    == \A i \in 1..Len(q) : q[i].kind # "close"
NoDispatch(q) == \A i \in 1..Len(q) : q[i].kind # "dispatch"

\* No event behind a close.
Ordered(q) == \A i, j \in 1..Len(q) : i < j /\ q[i].kind = "close" => q[j].kind # "dispatch"

LEMMA TaskIsDone ==
  ASSUME NEW q \in Seq(Tasks), q # <<>>
  PROVE  /\ Tail(q) \in Seq(Tasks)
         /\ NoClose(q) => NoClose(Tail(q))
         /\ NoDispatch(q) => NoDispatch(Tail(q))
         /\ Ordered(q) => Ordered(Tail(q))
         /\ Ordered(q) /\ Head(q).kind = "close" => NoDispatch(Tail(q))
<1>1. /\ Tail(q) \in Seq(Tasks) /\ Len(Tail(q)) = Len(q) - 1 /\ Len(q) \in Nat /\ Head(q) = q[1]
      /\ \A i \in 1..Len(Tail(q)) : i + 1 \in 1..Len(q) /\ Tail(q)[i] = q[i + 1]
  OBVIOUS
<1>2. 1 \in 1..Len(q)
  OBVIOUS
<1>. QED
  BY <1>1, <1>2 DEF NoClose, NoDispatch, Ordered

LEMMA TasksAreAdded ==
  ASSUME NEW q \in Seq(Tasks), NEW t \in Seq(Tasks)
  PROVE  /\ q \o t \in Seq(Tasks)
         /\ NoClose(q) /\ NoClose(t) => NoClose(q \o t) /\ Ordered(q \o t)
         /\ Ordered(q) /\ NoDispatch(t) => Ordered(q \o t)
         /\ NoDispatch(q) /\ NoDispatch(t) => NoDispatch(q \o t)
<1>1. /\ q \o t \in Seq(Tasks) /\ Len(q \o t) = Len(q) + Len(t)
      /\ Len(q) \in Nat /\ Len(t) \in Nat
      /\ \A i \in 1..Len(q) : (q \o t)[i] = q[i]
      /\ \A i \in 1..Len(t) : (q \o t)[Len(q) + i] = t[i]
  OBVIOUS
<1>2. ASSUME NEW i \in 1..Len(q \o t), i > Len(q)
      PROVE  i - Len(q) \in 1..Len(t) /\ (q \o t)[i] = t[i - Len(q)]
  BY <1>1, <1>2
<1>3. ASSUME NEW i \in 1..Len(q \o t), ~(i > Len(q))
      PROVE  i \in 1..Len(q) /\ (q \o t)[i] = q[i]
  BY <1>1, <1>3
<1>. QED
  BY <1>1, <1>2, <1>3 DEF NoClose, NoDispatch, Ordered

LEMMA DispatchesAreTasks ==
  ASSUME NEW events \in Seq(Events)
  PROVE  LET tasks == [i \in DOMAIN events |-> Dispatch(events[i])]
         IN  tasks \in Seq(Tasks) /\ NoClose(tasks)
<1>1. \A e \in Events : Dispatch(e) \in Tasks /\ Dispatch(e).kind = "dispatch"
  BY DEF Dispatch, Tasks, Events
<1>2. DOMAIN events = 1..Len(events) /\ Len(events) \in Nat
      /\ \A i \in 1..Len(events) : events[i] \in Events
  OBVIOUS
<1> DEFINE tasks == [i \in DOMAIN events |-> Dispatch(events[i])]
<1>3. tasks \in [1..Len(events) -> Tasks]
  BY <1>1, <1>2
<1>4. tasks \in Seq(Tasks) /\ Len(tasks) = Len(events)
  BY <1>2, <1>3
<1>. QED
  BY <1>1, <1>2, <1>4 DEF NoClose

-----------------------------------------------------------------------------
(* The invariant                                                           *)
Lives == {"absent", "resumed", "paused", "stopped", "destroyed"}

\* Of an activity that is not destroyed nobody has posted the close.
QueueInOrder(a) ==
  /\ taskQ[a] \in Seq(Tasks)
  /\ Ordered(taskQ[a])
  /\ activity[a] # "destroyed" => NoClose(taskQ[a])

ClosedInv ==
  /\ activity \in [Activities -> Lives]
  /\ DOMAIN taskQ = Activities
  /\ \A a \in Activities : QueueInOrder(a)
  /\ phase # "fresh" => owner \in Activities
  /\ phase = "closed" => activity[owner] = "destroyed" /\ NoDispatch(taskQ[owner])

\* The clients that stand in line or are being read are clients.
ClientsInv ==
  /\ backlog \in Seq(Requests)
  /\ reading \in [Activities -> Requests \union {0}]

LEMMA ClientsInitially == Init => ClientsInv
  BY DEF Init, ClientsInv

LEMMA StepKeepsClients == ClientsInv /\ [Next]_vars => ClientsInv'
<1> SUFFICES ASSUME ClientsInv, [Next]_vars PROVE ClientsInv'
  OBVIOUS
<1>1. CASE Connect
  BY <1>1 DEF Connect, ClientsInv
<1>2. ASSUME NEW a \in Activities, ServerStep(a) PROVE ClientsInv'
  <2>1. CASE Accept(a)
    BY <2>1 DEF Accept, ClientsInv
  <2>2. CASE ReadLine(a) \/ HangUp(a)
    BY <2>2 DEF ReadLine, HangUp, ClientsInv
  <2>3. CASE AnswerRequest(a) \/ TimeOut(a) \/ ServerEnds(a)
    BY <2>3 DEF AnswerRequest, TimeOut, Tell, ServerEnds, ClientsInv
  <2>. QED
    BY <1>2, <2>1, <2>2, <2>3 DEF ServerStep
<1>3. ASSUME NEW a \in Activities, RuntimeStep(a) \/ JoinReturns(a) PROVE ClientsInv'
  BY <1>3 DEF RuntimeStep, Refuse, OpenSession, EnterExport, DispatchReturns, EvalReturns,
              RunClose, LooperEnds, JoinReturns, mainState, server, ClientsInv
<1>4. ASSUME NEW a \in Activities, UserStep(a) PROVE ClientsInv'
  <2>1. CASE OnDestroy(a)
    <3>1. reading' = reading /\ (backlog' = backlog \/ backlog' = <<>>)
      BY <2>1 DEF OnDestroy, CloseSocket
    <3>2. <<>> \in Seq(Requests)
      OBVIOUS
    <3>. QED
      BY <3>1, <3>2 DEF ClientsInv
  <2>2. CASE ~OnDestroy(a)
    <3>1. UNCHANGED <<backlog, reading>>
      BY <1>4, <2>2 DEF UserStep, Launch, OnPause, OnStop, Return, Transition, Tap, server
    <3>. QED
      BY <3>1 DEF ClientsInv
  <2>. QED
    BY <2>1, <2>2
<1>5. CASE RunCallback \/ AnswerPrompt \/ UNCHANGED vars
  BY <1>5 DEF RunCallback, AnswerPrompt, vars, server, ClientsInv
<1>. QED
  BY <1>1, <1>2, <1>3, <1>4, <1>5 DEF Next

LEMMA ClosedInitially == Init => ClosedInv
  BY DEF Init, Session!Init, ClosedInv, Lives, QueueInOrder, Ordered, NoClose

\* A step that takes a task from a queue, if any, and closes no session.
LEMMA ConsumingKeeps ==
  ASSUME ClosedInv, NEW a \in Activities, taskQ[a] # <<>>,
         taskQ' = [taskQ EXCEPT ![a] = Tail(@)], UNCHANGED <<activity, phase, owner>>
  PROVE  ClosedInv'
<1>1. DOMAIN taskQ = Activities /\ taskQ'[a] = Tail(taskQ[a])
      /\ \A b \in Activities \ {a} : taskQ'[b] = taskQ[b]
  BY DEF ClosedInv
<1>2. ASSUME NEW b \in Activities PROVE QueueInOrder(b)'
  BY <1>1, TaskIsDone DEF ClosedInv, QueueInOrder
<1>3. ASSUME phase = "closed" PROVE NoDispatch(taskQ'[owner])
  BY <1>1, <1>3, TaskIsDone DEF ClosedInv, QueueInOrder
<1>. QED
  BY <1>1, <1>2, <1>3 DEF ClosedInv

\* The close itself.
LEMMA RunCloseKeeps == ASSUME ClosedInv, NEW a \in Activities, RunClose(a) PROVE ClosedInv'
<1>1. /\ taskQ[a] # <<>> /\ Head(taskQ[a]).kind = "close"
      /\ taskQ' = [taskQ EXCEPT ![a] = Tail(@)] /\ UNCHANGED activity
  BY DEF RunClose, Running, mainState
<1>2. CASE UNCHANGED <<phase, owner>>
  BY <1>1, <1>2, ConsumingKeeps
<1>3. CASE owner = a /\ owner' = a /\ phase = "open" /\ phase' = "closed"
  <2>1. DOMAIN taskQ = Activities /\ taskQ'[a] = Tail(taskQ[a])
        /\ \A b \in Activities \ {a} : taskQ'[b] = taskQ[b]
    BY <1>1 DEF ClosedInv
  <2>2. ASSUME NEW b \in Activities PROVE QueueInOrder(b)'
    BY <1>1, <2>1, TaskIsDone DEF ClosedInv, QueueInOrder
  <2>3. NoDispatch(taskQ'[a])
    BY <1>1, <2>1, TaskIsDone DEF ClosedInv, QueueInOrder
  <2>4. activity[a] = "destroyed"
    <3>1. taskQ[a] \in Seq(Tasks) /\ 1 \in 1..Len(taskQ[a]) /\ Head(taskQ[a]) = taskQ[a][1]
      BY <1>1 DEF ClosedInv, QueueInOrder
    <3>2. ~NoClose(taskQ[a])
      BY <1>1, <3>1 DEF NoClose
    <3>. QED
      BY <3>2 DEF ClosedInv, QueueInOrder
  <2>. QED
    BY <1>1, <1>3, <2>1, <2>2, <2>3, <2>4 DEF ClosedInv
<1>4. UNCHANGED <<phase, owner>> \/ (owner = a /\ owner' = a /\ phase = "open" /\ phase' = "closed")
  BY DEF RunClose, session, Session!Move
<1>. QED
  BY <1>2, <1>3, <1>4

\* Posting to the queue of a live activity, from a lifecycle callback or a tap.
LEMMA PostingKeeps ==
  ASSUME ClosedInv, NEW a \in Activities, activity[a] # "destroyed",
         NEW to \in Lives \ {"destroyed"}, activity' = [activity EXCEPT ![a] = to],
         NEW events \in Seq(Events), PostDispatches(a, events), UNCHANGED <<phase, owner>>
  PROVE  ClosedInv'
<1> DEFINE tasks == [i \in DOMAIN events |-> Dispatch(events[i])]
<1>1. tasks \in Seq(Tasks) /\ NoClose(tasks)
  BY DispatchesAreTasks
<1> HIDE DEF tasks
<1>2. /\ DOMAIN taskQ = Activities
      /\ taskQ'[a] = taskQ[a] \/ taskQ'[a] = taskQ[a] \o tasks
      /\ \A b \in Activities \ {a} : taskQ'[b] = taskQ[b]
      /\ DOMAIN taskQ' = Activities
  BY DEF ClosedInv, PostDispatches, Posted, tasks
<1>3. QueueInOrder(a)'
  BY <1>1, <1>2, TasksAreAdded DEF ClosedInv, QueueInOrder
<1>4. ASSUME NEW b \in Activities, b # a PROVE QueueInOrder(b)'
  BY <1>2, <1>4 DEF ClosedInv, QueueInOrder
<1>5. phase = "closed" => owner # a
  BY DEF ClosedInv
<1>. QED
  BY <1>2, <1>3, <1>4, <1>5 DEF ClosedInv

\* What else is posted is no event; the close makes its activity destroyed.
LEMMA AddingKeeps ==
  ASSUME ClosedInv, NEW a \in Activities, NEW task \in Tasks, task.kind # "dispatch",
         taskQ' = [taskQ EXCEPT ![a] = Posted(a, <<task>>)],
         activity' = [activity EXCEPT ![a] = IF task.kind = "close" THEN "destroyed"
                                                     ELSE activity[a]],
         UNCHANGED <<phase, owner>>
  PROVE  ClosedInv'
<1> DEFINE added == <<task>>
<1>1. /\ DOMAIN taskQ = Activities /\ DOMAIN taskQ' = Activities
      /\ taskQ'[a] = taskQ[a] \/ taskQ'[a] = taskQ[a] \o added
      /\ \A b \in Activities \ {a} : taskQ'[b] = taskQ[b] /\ activity'[b] = activity[b]
      /\ activity'[a] = IF task.kind = "close" THEN "destroyed" ELSE activity[a]
  BY DEF ClosedInv, Posted
<1>2. activity' \in [Activities -> Lives]
  BY DEF ClosedInv, Lives
<1>3. added \in Seq(Tasks) /\ Len(added) = 1 /\ added[1] = task
  OBVIOUS
<1> HIDE DEF added
<1>4. NoDispatch(added) /\ (task.kind # "close" => NoClose(added))
  BY <1>3 DEF NoDispatch, NoClose
<1>5. /\ taskQ[a] \in Seq(Tasks) /\ Ordered(taskQ[a])
      /\ activity[a] # "destroyed" => NoClose(taskQ[a])
  BY DEF ClosedInv, QueueInOrder
<1>6. /\ taskQ'[a] \in Seq(Tasks) /\ Ordered(taskQ'[a])
      /\ task.kind # "close" /\ NoClose(taskQ[a]) => NoClose(taskQ'[a])
      /\ NoDispatch(taskQ[a]) => NoDispatch(taskQ'[a])
  <2>1. CASE taskQ'[a] = taskQ[a]
    BY <1>5, <2>1
  <2>2. CASE taskQ'[a] = taskQ[a] \o added
    BY <1>3, <1>4, <1>5, <2>2, TasksAreAdded
  <2>. QED
    BY <1>1, <2>1, <2>2
<1>7. QueueInOrder(a)'
  BY <1>1, <1>5, <1>6 DEF QueueInOrder
<1>8. ASSUME NEW b \in Activities, b # a PROVE QueueInOrder(b)'
  BY <1>1, <1>8 DEF ClosedInv, QueueInOrder
<1>9. ASSUME phase = "closed" PROVE activity'[owner] = "destroyed" /\ NoDispatch(taskQ'[owner])
  BY <1>1, <1>9, <1>6 DEF ClosedInv
<1>. QED
  BY <1>1, <1>2, <1>7, <1>8, <1>9 DEF ClosedInv

\* Steps that leave the queues and the activities alone.
LEMMA SessionStepKeeps ==
  ASSUME ClosedInv, UNCHANGED <<taskQ, activity>>,
         \/ UNCHANGED <<phase, owner>>
         \/ phase' \notin {"fresh", "closed"} /\ owner' \in Activities
  PROVE  ClosedInv'
<1>1. \A a \in Activities : QueueInOrder(a)' = QueueInOrder(a)
  BY DEF QueueInOrder
<1>. QED
  BY <1>1 DEF ClosedInv

-----------------------------------------------------------------------------
(* One case per action                                                     *)
LEMMA RuntimeKeepsClosed ==
  ASSUME ClosedInv, NEW a \in Activities, RuntimeStep(a)
  PROVE  ClosedInv'
<1>1. CASE Refuse(a)
  BY <1>1, ConsumingKeeps DEF Refuse, Running, Finish, session, mainState
<1>2. CASE OpenSession(a)
  BY <1>2, SessionStepKeeps
     DEF OpenSession, Session!Claim, Session!Move, mainState, ClosedInv
<1>3. CASE EnterExport(a)
  BY <1>3, SessionStepKeeps DEF EnterExport, Session!Enter, mainState
<1>4. CASE DispatchReturns(a)
  BY <1>4, ConsumingKeeps DEF DispatchReturns, Running, Session!Leave, Finish, mainState
<1>5. CASE EvalReturns(a)
  BY <1>5, ConsumingKeeps DEF EvalReturns, Running, Session!Leave, Finish, mainState
<1>6. CASE RunClose(a)
  BY <1>6, RunCloseKeeps
<1>7. CASE LooperEnds(a)
  BY <1>7, SessionStepKeeps DEF LooperEnds, session, mainState
<1>. QED
  BY <1>1, <1>2, <1>3, <1>4, <1>5, <1>6, <1>7 DEF RuntimeStep

LEMMA LifecycleEvents ==
  /\ <<"lifecycle/create", "lifecycle/start", "lifecycle/resume">> \in Seq(Events)
  /\ <<"lifecycle/pause">> \in Seq(Events) /\ <<"lifecycle/stop">> \in Seq(Events)
  /\ <<"lifecycle/resume">> \in Seq(Events)
  /\ <<"lifecycle/start", "lifecycle/resume">> \in Seq(Events)
  /\ \A button \in Buttons : <<button>> \in Seq(Events)
<1>1. /\ {"lifecycle/create", "lifecycle/start", "lifecycle/resume", "lifecycle/pause",
          "lifecycle/stop"} \subseteq Events
      /\ Buttons \subseteq Events
  BY DEF Events
<1>. QED
  BY <1>1

LEMMA TransitionKeeps ==
  ASSUME ClosedInv, NEW a \in Activities, NEW from, from # "destroyed",
         NEW to \in Lives \ {"destroyed"}, NEW events \in Seq(Events),
         Transition(a, from, to, events)
  PROVE  ClosedInv'
  BY PostingKeeps DEF Transition, runtimeState, session

LEMMA PostCloseKeeps ==
  ASSUME ClosedInv, NEW a \in Activities, PostClose(a), UNCHANGED <<phase, owner>>
  PROVE  ClosedInv'
<1>1. Close \in Tasks /\ Close.kind = "close"
  BY DEF Close, Tasks
<1>. QED
  BY <1>1, AddingKeeps DEF PostClose

LEMMA UserKeepsClosed ==
  ASSUME ClosedInv, NEW a \in Activities, UserStep(a)
  PROVE  ClosedInv'
<1>1. CASE Launch(a)
  BY <1>1, PostingKeeps, LifecycleEvents DEF Launch, runtimeState, session, Lives
<1>2. CASE OnPause(a) \/ OnStop(a) \/ Return(a)
  BY <1>2, TransitionKeeps, LifecycleEvents DEF OnPause, OnStop, Return, Lives
<1>3. CASE \E button \in Buttons : Tap(a, button)
  <2>1. PICK button \in Buttons : Tap(a, button)
    BY <1>3
  <2>2. activity' = [activity EXCEPT ![a] = "resumed"] /\ activity[a] = "resumed"
    BY <2>1 DEF Tap, ClosedInv
  <2>. QED
    BY <2>1, <2>2, PostingKeeps, LifecycleEvents DEF Tap, runtimeState, session, Lives
<1>4. CASE OnDestroy(a)
  <2>1. CASE PostClose(a)
    BY <1>4, <2>1, PostCloseKeeps DEF OnDestroy, runtimeState, session
  <2>2. CASE UNCHANGED <<activity, taskQ>>
    BY <1>4, <2>2, SessionStepKeeps DEF OnDestroy, runtimeState, session
  <2>. QED
    BY <1>4, <2>1, <2>2 DEF OnDestroy
<1>. QED
  BY <1>1, <1>2, <1>3, <1>4 DEF UserStep

LEMMA ServerKeepsClosed ==
  ASSUME ClosedInv, ClientsInv, NEW a \in Activities,
         ServerStep(a) \/ JoinReturns(a)
  PROVE  ClosedInv'
<1>1. CASE ReadLine(a)
  <2> DEFINE task == Eval(reading[a])
  <2>1. task \in Tasks /\ task.kind = "eval"
    BY <1>1 DEF ClientsInv, ReadLine, Eval, Tasks
  <2>2. activity' = [activity EXCEPT ![a] = IF task.kind = "close" THEN "destroyed"
                                            ELSE activity[a]]
    BY <1>1, <2>1 DEF ReadLine, hostState, ClosedInv
  <2>3. taskQ' = [taskQ EXCEPT ![a] = Posted(a, <<task>>)]
        /\ UNCHANGED <<session, model, looper, issued, activity>>
    BY <1>1 DEF ReadLine, hostState, runtimeState
  <2>. HIDE DEF task
  <2>. QED
    BY <2>1, <2>2, <2>3, AddingKeeps DEF session
<1>2. CASE ServerStep(a) /\ ~ReadLine(a)
  BY <1>2, SessionStepKeeps
     DEF ServerStep, Accept, HangUp, AnswerRequest, TimeOut, ServerEnds, Tell, hostState,
         runtimeState, session
<1>3. CASE JoinReturns(a)
  BY <1>3, PostCloseKeeps DEF JoinReturns, runtimeState, session
<1>. QED
  BY <1>1, <1>2, <1>3

LEMMA StepKeepsClosed == ClosedInv /\ ClientsInv /\ [Next]_vars => ClosedInv'
<1> SUFFICES ASSUME ClosedInv, ClientsInv, [Next]_vars PROVE ClosedInv'
  OBVIOUS
<1>1. CASE \E a \in Activities : RuntimeStep(a) \/ UserStep(a) \/ JoinReturns(a)
                                 \/ ServerStep(a)
  BY <1>1, RuntimeKeepsClosed, UserKeepsClosed, ServerKeepsClosed
<1>2. CASE Connect \/ RunCallback \/ AnswerPrompt
  BY <1>2, SessionStepKeeps DEF Connect, hostState, RunCallback, AnswerPrompt, runtimeState, session
<1>3. CASE UNCHANGED vars
  BY <1>3, SessionStepKeeps DEF vars, session
<1>. QED
  BY <1>1, <1>2, <1>3 DEF Next

\* The session is closed by the onDestroy of the activity that opened it, and
\* behind all of its events (JoltRuntime.close, MainActivity.onDestroy).
THEOREM SessionEndsLast == Spec => []ClosedAfterLastEvent
<1>1. ClosedInv => ClosedAfterLastEvent
  BY DEF ClosedInv, ClosedAfterLastEvent, QueueInOrder, NoDispatch
<1>. QED
  BY <1>1, ClosedInitially, StepKeepsClosed, ClientsInitially, StepKeepsClients, PTL DEF Spec

-----------------------------------------------------------------------------
(* The answers of the debug server                                         *)

\* A latch only ever gets the result of its own request.
AnswersInv ==
  /\ DOMAIN result = Requests /\ DOMAIN told = Requests
  /\ \A r \in Requests : result[r] \in {0, r} /\ told[r] # "foreign"

LEMMA StepKeepsAnswers == AnswersInv /\ [Next]_vars => AnswersInv'
<1> SUFFICES ASSUME AnswersInv, [Next]_vars PROVE AnswersInv'
  OBVIOUS
<1>1. CASE RunCallback
  <2>1. told' = told
    BY <1>1 DEF RunCallback, server
  <2>2. DOMAIN result' = Requests /\ \A r \in Requests : result'[r] \in {0, r}
    BY <1>1 DEF RunCallback, Store, AnswersInv
  <2>. QED
    BY <2>1, <2>2 DEF AnswersInv
<1>2. ASSUME NEW a \in Activities, ServerStep(a) PROVE AnswersInv'
  <2>1. CASE AnswerRequest(a)
    BY <2>1 DEF AnswerRequest, Tell, hostState, AnswersInv
  <2>2. CASE TimeOut(a)
    BY <2>2 DEF TimeOut, Tell, hostState, AnswersInv
  <2>3. CASE ServerEnds(a)
    BY <2>3 DEF ServerEnds, hostState, AnswersInv
  <2>4. CASE HangUp(a)
    BY <2>4 DEF HangUp, hostState, AnswersInv
  <2>5. CASE Accept(a) \/ ReadLine(a)
    BY <2>5 DEF Accept, ReadLine, hostState, AnswersInv
  <2>. QED
    BY <1>2, <2>1, <2>2, <2>3, <2>4, <2>5 DEF ServerStep
<1>3. ASSUME NEW a \in Activities, RuntimeStep(a) PROVE UNCHANGED <<result, told>>
  BY <1>3 DEF RuntimeStep, Refuse, OpenSession, EnterExport, DispatchReturns, EvalReturns,
              RunClose, LooperEnds, mainState, server
<1>4. ASSUME NEW a \in Activities, UserStep(a) PROVE AnswersInv'
  <2>1. CASE OnDestroy(a)
    BY <2>1 DEF OnDestroy, CloseSocket, AnswersInv
  <2>2. CASE ~OnDestroy(a)
    <3>1. UNCHANGED <<result, told>>
      BY <1>4, <2>2 DEF UserStep, Launch, OnPause, OnStop, Return, Transition, Tap, server
    <3>. QED
      BY <3>1 DEF AnswersInv
  <2>. QED
    BY <2>1, <2>2
<1>5. ASSUME (\E a \in Activities : JoinReturns(a)) \/ Connect PROVE UNCHANGED <<result, told>>
  BY <1>5 DEF JoinReturns, Connect, server, hostState
<1>6. CASE AnswerPrompt \/ UNCHANGED vars
  BY <1>6 DEF AnswerPrompt, vars, server, AnswersInv
<1>. QED
  BY <1>1, <1>2, <1>3, <1>4, <1>5, <1>6 DEF Next, AnswersInv

\* No debug client is told the result of another request, also when results of
\* requests that timed out arrive late (DebugEvalServer's latch and slot).
THEOREM AnswersStayOwn == Spec => []AnswersMatchRequests
<1>1. Init => AnswersInv
  BY DEF Init, AnswersInv
<1>2. AnswersInv => AnswersMatchRequests
  BY DEF AnswersInv, AnswersMatchRequests
<1>. QED
  BY <1>1, <1>2, StepKeepsAnswers, PTL DEF Spec

-----------------------------------------------------------------------------
(* Numbers, by induction                                                   *)
\* The naturals are well-founded, so a set of them has a least member ...
LEMMA LeastNumber ==
  ASSUME NEW T, T \subseteq Nat, T # {}
  PROVE  \E n \in T : \A m \in T : n <= m
<1> DEFINE R == OpToRel(<, Nat)
<1>1. IsWellFoundedOn(R, Nat)
  BY NatLessThanWellFounded
<1>2. \A m, n \in Nat : m < n => <<m, n>> \in R
  BY DEF OpToRel
<1> HIDE DEF R
<1>3. PICK n \in T : \A m \in T : ~(<<m, n>> \in R)
  BY <1>1, WFMin
<1>4. ASSUME NEW m \in T PROVE n <= m
  <2>1. m \in Nat /\ n \in Nat /\ ~(m < n)
    BY <1>2, <1>3
  <2>. QED
    BY <2>1
<1>. QED
  BY <1>4

\* ... and a set that holds zero and every successor holds all of them.
LEMMA Induction ==
  ASSUME NEW S, 0 \in S, \A n \in Nat : n \in S => n + 1 \in S
  PROVE  Nat \subseteq S
<1> DEFINE T == Nat \ S
<1>1. SUFFICES ASSUME T # {} PROVE FALSE
  OBVIOUS
<1>2. PICK n \in T : \A m \in T : n <= m
  <2>1. T \subseteq Nat
    OBVIOUS
  <2>. QED
    BY <1>1, <2>1, LeastNumber
<1>3. n # 0 /\ n - 1 \in Nat /\ n - 1 \notin T
  BY <1>2
<1>. QED
  BY <1>2, <1>3

-----------------------------------------------------------------------------
(* Replaying events                                                        *)

\* The model after one more event.
Stepped(state, event) == Step(state, Event(event)).model

\* f folds the events by the sets of their places, the last place outermost.
IsReplay(f, events, n) ==
  f = [s \in SUBSET (1..n) |->
         IF s = {} THEN initialState ELSE Stepped(f[s \ {Max(s)}], events[Max(s)])]

\* The community modules' fold, with its recursive function given a name.
LEMMA ReplayIsFold ==
  ASSUME NEW events, NEW n \in Nat, DOMAIN events = 1..n
  PROVE  Replay(events) = (CHOOSE f : IsReplay(f, events, n))[1..n]
  BY Zenon DEF Replay, FoldLeft, MapThenFoldSet, IsReplay, Stepped

LEMMA LastIsMax ==
  ASSUME NEW n \in Nat, NEW s \in SUBSET (1..n), n \in s
  PROVE  Max(s) = n
<1>1. \A m \in s : m \in Int /\ n >= m
  OBVIOUS
<1>2. \A m \in s : (\A k \in s : m >= k) => m = n
  BY <1>1
<1>3. \A k \in s : n >= k
  BY <1>1
<1> DEFINE greatest(m) == \A k \in s : m >= k
<1>4. greatest(n) /\ \A m \in s : greatest(m) => m = n
  BY <1>2, <1>3
<1> HIDE DEF greatest
<1>5. (CHOOSE m \in s : greatest(m)) = n
  BY <1>4
<1>. QED
  BY <1>5 DEF Max, greatest

\* The recursion defines a function, stage by stage.
LEMMA ReplaysExist ==
  ASSUME NEW events
  PROVE  \A n \in Nat : \E f : IsReplay(f, events, n)
<1> DEFINE S == {n \in Nat : \E f : IsReplay(f, events, n)}
<1>1. 0 \in S
  <2> DEFINE f == [s \in SUBSET (1..0) |-> initialState]
  <2>1. \A s \in SUBSET (1..0) : s = {}
    OBVIOUS
  <2>2. f = [s \in SUBSET (1..0) |->
              IF s = {} THEN initialState ELSE Stepped(f[s \ {Max(s)}], events[Max(s)])]
    BY <2>1
  <2>3. IsReplay(f, events, 0)
    BY <2>2 DEF IsReplay
  <2>. QED
    BY <2>3
<1>2. ASSUME NEW n \in Nat, n \in S PROVE n + 1 \in S
  <2>1. PICK f : IsReplay(f, events, n)
    BY <1>2
  <2> DEFINE g == [s \in SUBSET (1..(n + 1)) |->
                     IF n + 1 \in s THEN Stepped(f[s \ {n + 1}], events[n + 1]) ELSE f[s]]
             next(s) == IF s = {} THEN initialState ELSE Stepped(g[s \ {Max(s)}], events[Max(s)])
  <2>2. ASSUME NEW s \in SUBSET (1..(n + 1)) PROVE g[s] = next(s)
    <3>1. CASE n + 1 \in s
      <4>1. Max(s) = n + 1
        BY <3>1, LastIsMax
      <4>2. s \ {n + 1} \in SUBSET (1..(n + 1)) /\ n + 1 \notin s \ {n + 1}
        OBVIOUS
      <4>3. g[s \ {n + 1}] = f[s \ {n + 1}]
        BY <4>2
      <4>4. g[s] = Stepped(f[s \ {n + 1}], events[n + 1])
        BY <3>1
      <4>. QED
        BY <3>1, <4>1, <4>3, <4>4
    <3>2. CASE n + 1 \notin s
      <4>1. s \in SUBSET (1..n)
        BY <3>2
      <4>2. f[s] = IF s = {} THEN initialState ELSE Stepped(f[s \ {Max(s)}], events[Max(s)])
        BY <2>1, <4>1 DEF IsReplay
      <4>3. s \ {Max(s)} \in SUBSET (1..(n + 1)) /\ n + 1 \notin s \ {Max(s)}
        BY <3>2
      <4>4. g[s \ {Max(s)}] = f[s \ {Max(s)}]
        BY <4>3
      <4>5. g[s] = f[s]
        BY <3>2
      <4>. QED
        BY <4>2, <4>4, <4>5
    <3>. QED
      BY <3>1, <3>2
  <2>3. g = [s \in SUBSET (1..(n + 1)) |-> next(s)]
    <3>1. g = [s \in SUBSET (1..(n + 1)) |-> g[s]]
      OBVIOUS
    <3> HIDE DEF g, next
    <3>. QED
      BY <2>2, <3>1
  <2>4. IsReplay(g, events, n + 1)
    <3> HIDE DEF g
    <3>. QED
      BY <2>3 DEF IsReplay, next
  <2>. QED
    BY <2>4
<1> HIDE DEF S
<1>3. Nat \subseteq S
  BY <1>1, <1>2, Induction
<1>. QED
  BY <1>3 DEF S

\* The first n events are the same.
Continues(more, events, n) == \A i \in 1..n : more[i] = events[i]

\* A replay of one more event is one more step: what is replayed depends on the events alone,
\* not on those behind them.
LEMMA ReplayOfOneMore ==
  ASSUME NEW events, NEW more, NEW n \in Nat, DOMAIN events = 1..n, DOMAIN more = 1..(n + 1),
         Continues(more, events, n)
  PROVE  Replay(more) = Stepped(Replay(events), more[n + 1])
<1> DEFINE first == CHOOSE f : IsReplay(f, events, n)
           second == CHOOSE f : IsReplay(f, more, n + 1)
<1>1. IsReplay(first, events, n) /\ IsReplay(second, more, n + 1)
  <2>1. n + 1 \in Nat
    OBVIOUS
  <2>. QED
    BY <2>1, ReplaysExist, Zenon
<1>2. Replay(events) = first[1..n] /\ Replay(more) = second[1..(n + 1)]
  BY ReplayIsFold
<1> HIDE DEF first, second
<1>3. first[1..n] = second[1..n]
  <2> DEFINE S == {k \in Nat : k <= n => first[1..k] = second[1..k]}
  <2>1. 0 \in S
    <3>1. 1..0 = {} /\ {} \in SUBSET (1..n) /\ {} \in SUBSET (1..(n + 1))
      OBVIOUS
    <3>2. first[{}] = initialState /\ second[{}] = initialState
      BY <1>1, <3>1 DEF IsReplay
    <3>. QED
      BY <3>1, <3>2
  <2>2. ASSUME NEW k \in Nat, k \in S PROVE k + 1 \in S
    <3> SUFFICES ASSUME k + 1 <= n PROVE first[1..(k + 1)] = second[1..(k + 1)]
      OBVIOUS
    <3> DEFINE s == 1..(k + 1)
    <3>1. /\ s \in SUBSET (1..n) /\ s \in SUBSET (1..(n + 1)) /\ s # {}
          /\ s \ {k + 1} = 1..k /\ k + 1 \in s /\ k + 1 \in 1..n
      OBVIOUS
    <3>2. Max(s) = k + 1
      BY <3>1, LastIsMax
    <3> HIDE DEF s
    <3>3. /\ first[s] = Stepped(first[1..k], events[k + 1])
          /\ second[s] = Stepped(second[1..k], more[k + 1])
      BY <1>1, <3>1, <3>2 DEF IsReplay
    <3>. QED
      BY <2>2, <3>1, <3>3 DEF s, Continues
  <2> HIDE DEF S
  <2>3. n \in S
    BY <2>1, <2>2, Induction
  <2>. QED
    BY <2>3 DEF S
<1> DEFINE s == 1..(n + 1)
<1>4. s \in SUBSET (1..(n + 1)) /\ s # {} /\ s \ {n + 1} = 1..n /\ n + 1 \in s
  <2>1. s \ {n + 1} = 1..n
    OBVIOUS
  <2>2. n + 1 \in s
    OBVIOUS
  <2>. QED
    BY <2>1, <2>2
<1>5. Max(s) = n + 1
  BY <1>4, LastIsMax
<1> HIDE DEF s
<1>6. second[s] = Stepped(second[1..n], more[n + 1])
  BY <1>1, <1>4, <1>5 DEF IsReplay
<1>. QED
  BY <1>2, <1>3, <1>6 DEF s

LEMMA ReplayOfNone ==
  ASSUME NEW events, DOMAIN events = {}
  PROVE  Replay(events) = initialState
<1> DEFINE f == CHOOSE f : IsReplay(f, events, 0)
<1>1. 1..0 = {} /\ {} \in SUBSET (1..0)
  OBVIOUS
<1>2. Replay(events) = f[1..0]
  BY <1>1, ReplayIsFold
<1>3. IsReplay(f, events, 0)
  BY ReplaysExist
<1> HIDE DEF f
<1>. QED
  BY <1>1, <1>2, <1>3 DEF IsReplay

-----------------------------------------------------------------------------
(* The events in a queue                                                   *)
\* EventsIn counts task by task.
LEMMA EventsInFirst ==
  ASSUME NEW q
  PROVE  /\ EventsIn(q, 0) = 0
         /\ \A n \in Nat :
              /\ EventsIn(q, n) \in Nat
              /\ q[n + 1].kind # "dispatch" => EventsIn(q, n + 1) = EventsIn(q, n)
              /\ q[n + 1].kind = "dispatch" => EventsIn(q, n + 1) = EventsIn(q, n) + 1
<1> DEFINE S(n) == {i \in 1..n : q[i].kind = "dispatch"}
<1>1. EventsIn(q, 0) = 0
  <2>1. S(0) = {}
    OBVIOUS
  <2>. QED
    BY <2>1, FS_EmptySet DEF EventsIn
<1>2. ASSUME NEW n \in Nat PROVE IsFiniteSet(S(n)) /\ Cardinality(S(n)) \in Nat
  <2>1. IsFiniteSet(1..n)
    BY FS_Interval
  <2>. QED
    BY <2>1, FS_Subset, FS_CardinalityType
<1>3. ASSUME NEW n \in Nat, q[n + 1].kind # "dispatch" PROVE S(n + 1) = S(n)
  BY <1>3
<1>4. ASSUME NEW n \in Nat, q[n + 1].kind = "dispatch"
      PROVE  S(n + 1) = S(n) \union {n + 1} /\ n + 1 \notin S(n)
  BY <1>4
<1>5. \A n : EventsIn(q, n) = Cardinality(S(n))
  BY DEF EventsIn
<1> HIDE DEF S
<1>6. ASSUME NEW n \in Nat, q[n + 1].kind = "dispatch"
      PROVE  Cardinality(S(n + 1)) = Cardinality(S(n)) + 1
  <2>1. Cardinality(S(n) \union {n + 1}) =
          IF n + 1 \in S(n) THEN Cardinality(S(n)) ELSE Cardinality(S(n)) + 1
    BY <1>2, FS_AddElement
  <2>. QED
    BY <1>4, <1>6, <2>1
<1>. QED
  BY <1>1, <1>2, <1>3, <1>5, <1>6

LEMMA EventsInSame ==
  ASSUME NEW p, NEW q, NEW n \in Nat, \A i \in 1..n : p[i] = q[i]
  PROVE  EventsIn(p, n) = EventsIn(q, n)
<1>1. {i \in 1..n : p[i].kind = "dispatch"} = {i \in 1..n : q[i].kind = "dispatch"}
  OBVIOUS
<1>. QED
  BY <1>1 DEF EventsIn

\* Of q without its head, of which p is the rest.
LEMMA EventsInRest ==
  ASSUME NEW p, NEW q, NEW n \in Nat, \A i \in 1..n : p[i] = q[i + 1]
  PROVE  EventsIn(q, n + 1) = EventsIn(p, n) + EventsIn(q, 1)
<1> DEFINE S == {k \in Nat : k <= n => EventsIn(q, k + 1) = EventsIn(p, k) + EventsIn(q, 1)}
<1>1. EventsIn(q, 1) \in Nat /\ \A k \in Nat : EventsIn(p, k) \in Nat /\ EventsIn(q, k) \in Nat
  BY EventsInFirst
<1>2. 0 \in S
  BY <1>1, EventsInFirst
<1>3. ASSUME NEW k \in Nat, k \in S PROVE k + 1 \in S
  <2> SUFFICES ASSUME k + 1 <= n
               PROVE  EventsIn(q, k + 1 + 1) = EventsIn(p, k + 1) + EventsIn(q, 1)
    OBVIOUS
  <2>1. p[k + 1] = q[k + 1 + 1] /\ EventsIn(q, k + 1) = EventsIn(p, k) + EventsIn(q, 1)
    BY <1>3
  <2>2. /\ k \in Nat /\ k + 1 \in Nat
        /\ EventsIn(p, k) \in Nat /\ EventsIn(q, k + 1) \in Nat
    BY <1>1
  <2>3. /\ p[k + 1].kind # "dispatch" => EventsIn(p, k + 1) = EventsIn(p, k)
        /\ p[k + 1].kind = "dispatch" => EventsIn(p, k + 1) = EventsIn(p, k) + 1
    BY <2>2, EventsInFirst, Zenon
  <2>4. /\ q[k + 1 + 1].kind # "dispatch" => EventsIn(q, k + 1 + 1) = EventsIn(q, k + 1)
        /\ q[k + 1 + 1].kind = "dispatch" => EventsIn(q, k + 1 + 1) = EventsIn(q, k + 1) + 1
    BY <2>2, EventsInFirst, Zenon
  <2>. QED
    BY <1>1, <2>1, <2>2, <2>3, <2>4
<1> HIDE DEF S
<1>4. n \in S
  BY <1>2, <1>3, Induction
<1>. QED
  BY <1>4 DEF S

\* m events behind the first n tasks of q.
EventsBehind(p, q, n, m) ==
  /\ \A i \in 1..n : p[i] = q[i]
  /\ \A i \in 1..m : p[n + i].kind = "dispatch"

LEMMA EventsInLonger ==
  ASSUME NEW p, NEW q, NEW n \in Nat, NEW m \in Nat, EventsBehind(p, q, n, m)
  PROVE  \A j \in n..(n + m) : EventsIn(p, j) = EventsIn(q, n) + (j - n)
<1> DEFINE S == {k \in Nat : k <= m => EventsIn(p, n + k) = EventsIn(q, n) + k}
<1>1. EventsIn(q, n) \in Nat /\ EventsIn(p, n) = EventsIn(q, n)
  BY EventsInFirst, EventsInSame DEF EventsBehind
<1>2. 0 \in S
  BY <1>1
<1>3. ASSUME NEW k \in Nat, k \in S PROVE k + 1 \in S
  <2> SUFFICES ASSUME k + 1 <= m PROVE EventsIn(p, n + (k + 1)) = EventsIn(q, n) + (k + 1)
    OBVIOUS
  <2>1. p[(n + k) + 1].kind = "dispatch" /\ EventsIn(p, n + k) = EventsIn(q, n) + k
    <3>1. k + 1 \in 1..m /\ n + (k + 1) = (n + k) + 1
      OBVIOUS
    <3>. QED
      BY <1>3, <3>1 DEF EventsBehind
  <2>2. n + k \in Nat
    OBVIOUS
  <2>3. EventsIn(p, (n + k) + 1) = EventsIn(p, n + k) + 1
    BY <2>1, <2>2, EventsInFirst
  <2>4. n + (k + 1) = (n + k) + 1
    OBVIOUS
  <2>. QED
    BY <1>1, <2>1, <2>3, <2>4
<1> HIDE DEF S
<1>4. Nat \subseteq S
  BY <1>2, <1>3, Induction
<1>5. ASSUME NEW j \in n..(n + m) PROVE EventsIn(p, j) = EventsIn(q, n) + (j - n)
  <2>1. j - n \in Nat /\ j - n <= m /\ n + (j - n) = j
    OBVIOUS
  <2>. QED
    BY <1>4, <2>1 DEF S
<1>. QED
  BY <1>5

-----------------------------------------------------------------------------
(* The events of an activity, done and queued                              *)
\* How many of the events are no longer in the queue q.
DoneOf(q, events) == Len(events) - EventsIn(q, Len(q))

\* The queue holds the last of the events, in their order.
InLine(q, events) ==
  /\ events \in Seq(Events)
  /\ DoneOf(q, events) \in Nat
  /\ \A i \in 1..Len(q) : q[i].kind = "dispatch" =>
       /\ DoneOf(q, events) + EventsIn(q, i) \in 1..Len(events)
       /\ events[DoneOf(q, events) + EventsIn(q, i)] = q[i].event

\* An event at the head is the next of the line; taking the head off it, event or
\* not, leaves a line.
LEMMA HeadOfLine ==
  ASSUME NEW q \in Seq(Tasks), q # <<>>, NEW events, InLine(q, events)
  PROVE  /\ InLine(Tail(q), events)
         /\ Head(q).kind # "dispatch" => DoneOf(Tail(q), events) = DoneOf(q, events)
         /\ Head(q).kind = "dispatch" =>
              /\ DoneOf(Tail(q), events) = DoneOf(q, events) + 1
              /\ DoneOf(q, events) + 1 \in 1..Len(events)
              /\ events[DoneOf(q, events) + 1] = Head(q).event
<1> DEFINE p == Tail(q)  n == Len(p)  first == EventsIn(q, 1)  done == DoneOf(q, events)
<1>1. /\ n \in Nat /\ Len(q) = n + 1 /\ Head(q) = q[1] /\ 1 \in 1..Len(q)
      /\ \A i \in 1..n : p[i] = q[i + 1] /\ i + 1 \in 1..Len(q)
  OBVIOUS
<1> HIDE DEF p
<1>2. /\ first \in Nat /\ first = IF Head(q).kind = "dispatch" THEN 1 ELSE 0
  <2>1. 0 \in Nat /\ 0 + 1 = 1
    OBVIOUS
  <2>2. /\ EventsIn(q, 0) = 0
        /\ q[0 + 1].kind # "dispatch" => EventsIn(q, 0 + 1) = EventsIn(q, 0)
        /\ q[0 + 1].kind = "dispatch" => EventsIn(q, 0 + 1) = EventsIn(q, 0) + 1
    BY <2>1, EventsInFirst, Zenon
  <2>. QED
    BY <1>1, <2>1, <2>2
<1> HIDE DEF first
<1>3. ASSUME NEW k \in 0..n
      PROVE  EventsIn(q, k + 1) = EventsIn(p, k) + first /\ EventsIn(p, k) \in Nat
  <2>1. k \in Nat /\ \A i \in 1..k : p[i] = q[i + 1]
    BY <1>1
  <2>. QED
    <3>1. EventsIn(q, k + 1) = EventsIn(p, k) + EventsIn(q, 1)
      BY <2>1, EventsInRest, Zenon
    <3>. QED
      BY <2>1, <3>1, EventsInFirst DEF first
<1>4. events \in Seq(Events) /\ done \in Nat /\ Len(events) \in Nat
  BY DEF InLine
<1>5. DoneOf(p, events) = done + first
  <2>1. n \in 0..n
    BY <1>1
  <2>2. EventsIn(q, Len(q)) = EventsIn(p, n) + first /\ EventsIn(p, n) \in Nat
    BY <1>1, <1>3, <2>1
  <2>. QED
    BY <1>2, <1>4, <2>2 DEF DoneOf
<1>6. \A i \in 1..Len(q) : q[i].kind = "dispatch" =>
        done + EventsIn(q, i) \in 1..Len(events) /\ events[done + EventsIn(q, i)] = q[i].event
  BY DEF InLine
<1> HIDE DEF done
<1>7. ASSUME NEW i \in 1..n, p[i].kind = "dispatch"
      PROVE  /\ DoneOf(p, events) + EventsIn(p, i) \in 1..Len(events)
             /\ events[DoneOf(p, events) + EventsIn(p, i)] = p[i].event
  <2>1. EventsIn(q, i + 1) = EventsIn(p, i) + first /\ EventsIn(p, i) \in Nat
    BY <1>1, <1>3
  <2>2. DoneOf(p, events) + EventsIn(p, i) = done + EventsIn(q, i + 1)
    BY <1>2, <1>4, <1>5, <2>1
  <2>3. p[i] = q[i + 1] /\ i + 1 \in 1..Len(q)
    BY <1>1
  <2>. QED
    BY <1>6, <1>7, <2>2, <2>3
<1>8. InLine(p, events)
  BY <1>2, <1>4, <1>5, <1>7 DEF InLine
<1>9. Head(q).kind = "dispatch" => done + 1 \in 1..Len(events) /\ events[done + 1] = Head(q).event
  BY <1>1, <1>2, <1>6 DEF first
<1>. QED
  BY <1>2, <1>4, <1>5, <1>8, <1>9 DEF p, done

\* Events that are issued and posted at once join the line at its end.
LEMMA EventsInLine ==
  ASSUME NEW q \in Seq(Tasks), NEW events, InLine(q, events), NEW more \in Seq(Events)
  PROVE  LET tasks == [i \in DOMAIN more |-> Dispatch(more[i])]
         IN  /\ InLine(q \o tasks, events \o more)
             /\ DoneOf(q \o tasks, events \o more) = DoneOf(q, events)
<1> DEFINE tasks == [i \in DOMAIN more |-> Dispatch(more[i])]
           p == q \o tasks  all == events \o more  n == Len(q)  m == Len(more)
           done == DoneOf(q, events)
<1>1. /\ tasks \in Seq(Tasks) /\ m \in Nat /\ Len(tasks) = m
      /\ \A i \in 1..m : tasks[i].kind = "dispatch" /\ tasks[i].event = more[i]
  <2>1. tasks \in Seq(Tasks)
    BY DispatchesAreTasks
  <2>2. DOMAIN more = 1..m /\ m \in Nat
    OBVIOUS
  <2>. QED
    BY <2>1, <2>2 DEF Dispatch
<1> HIDE DEF tasks
<1>2. /\ n \in Nat /\ Len(p) = n + m
      /\ \A i \in 1..n : p[i] = q[i]
      /\ \A i \in 1..m : p[n + i] = tasks[i]
  BY <1>1
<1>3. events \in Seq(Events) /\ done \in Nat /\ Len(events) \in Nat
  BY DEF InLine
<1>4. /\ all \in Seq(Events) /\ Len(all) = Len(events) + m
      /\ \A i \in 1..Len(events) : all[i] = events[i]
      /\ \A i \in 1..m : all[Len(events) + i] = more[i]
  BY <1>1, <1>3
<1> HIDE DEF p, all
<1>5. EventsIn(q, n) \in Nat /\ done = Len(events) - EventsIn(q, n)
  BY <1>2, EventsInFirst DEF DoneOf
<1>6. \A i \in 1..n : q[i].kind = "dispatch" =>
        done + EventsIn(q, i) \in 1..Len(events) /\ events[done + EventsIn(q, i)] = q[i].event
  BY DEF InLine
<1> HIDE DEF n, m, done
<1>7. \A j \in n..(n + m) : EventsIn(p, j) = EventsIn(q, n) + (j - n)
  <2>1. EventsBehind(p, q, n, m)
    BY <1>1, <1>2 DEF EventsBehind
  <2>2. n \in Nat /\ m \in Nat
    BY <1>1, <1>2
  <2>. QED
    BY <2>1, <2>2, EventsInLonger
<1>8. DoneOf(p, all) = done
  <2>1. EventsIn(p, Len(p)) = EventsIn(q, n) + m
    BY <1>1, <1>2, <1>7
  <2>. QED
    BY <1>1, <1>3, <1>4, <1>5, <2>1 DEF DoneOf
<1>9. ASSUME NEW i \in 1..Len(p), p[i].kind = "dispatch"
      PROVE  done + EventsIn(p, i) \in 1..Len(all) /\ all[done + EventsIn(p, i)] = p[i].event
  <2>1. CASE i <= n
    <3>1. i \in 1..n
      BY <1>2, <2>1
    <3>2. EventsIn(p, i) = EventsIn(q, i) /\ p[i] = q[i]
      <4>1. i \in Nat /\ \A j \in 1..i : p[j] = q[j]
        BY <1>2, <3>1
      <4>. QED
        BY <1>2, <3>1, <4>1, EventsInSame
    <3>3. done + EventsIn(p, i) \in 1..Len(events) /\ events[done + EventsIn(p, i)] = p[i].event
      BY <1>6, <1>9, <3>1, <3>2
    <3>. QED
      BY <1>1, <1>3, <1>4, <3>3
  <2>2. CASE i > n
    <3>1. PICK k \in 1..m : i = n + k
      <4>1. i - n \in 1..m /\ i = n + (i - n)
        BY <1>1, <1>2, <2>2
      <4>. QED
        BY <4>1
    <3>2. EventsIn(p, i) = EventsIn(q, n) + k /\ p[i] = tasks[k]
      BY <1>1, <1>2, <1>7, <3>1
    <3>3. done + EventsIn(p, i) = Len(events) + k
      BY <1>3, <1>5, <3>2
    <3>. QED
      BY <1>1, <1>3, <1>4, <3>2, <3>3
  <2>. QED
    BY <1>2, <2>1, <2>2
<1>10. InLine(p, all)
  BY <1>3, <1>4, <1>8, <1>9 DEF InLine
<1>. QED
  BY <1>8, <1>10 DEF p, all, tasks, done

\* A debug request or a close is no part of the line.
LEMMA OtherTaskInLine ==
  ASSUME NEW q \in Seq(Tasks), NEW events, InLine(q, events),
         NEW task \in Tasks, task.kind # "dispatch"
  PROVE  /\ InLine(q \o <<task>>, events)
         /\ DoneOf(q \o <<task>>, events) = DoneOf(q, events)
<1> DEFINE p == q \o <<task>>  n == Len(q)
<1>1. /\ n \in Nat /\ Len(p) = n + 1 /\ p[n + 1] = task /\ \A i \in 1..n : p[i] = q[i]
  OBVIOUS
<1> HIDE DEF p
<1>2. ASSUME NEW k \in 0..n PROVE EventsIn(p, k) = EventsIn(q, k)
  <2>1. k \in Nat /\ \A i \in 1..k : p[i] = q[i]
    BY <1>1
  <2>. QED
    BY <2>1, EventsInSame
<1>3. EventsIn(p, n + 1) = EventsIn(q, n)
  <2>1. n \in 0..n
    BY <1>1
  <2>. QED
    BY <1>1, <1>2, <2>1, EventsInFirst
<1>4. DoneOf(p, events) = DoneOf(q, events)
  BY <1>1, <1>3 DEF DoneOf
<1>5. ASSUME NEW i \in 1..Len(p), p[i].kind = "dispatch"
      PROVE  i \in 1..Len(q) /\ p[i] = q[i] /\ EventsIn(p, i) = EventsIn(q, i)
  <2>1. i \in 1..n
    BY <1>1, <1>5
  <2>2. i \in 0..n
    BY <2>1
  <2>. QED
    BY <1>1, <1>2, <2>1, <2>2
<1>6. InLine(p, events)
  BY <1>4, <1>5 DEF InLine
<1>. QED
  BY <1>4, <1>6 DEF p

-----------------------------------------------------------------------------
(* The Jolt model and the owner's events                                   *)
\* Every queue holds the last events of its activity; only a destroyed activity's
\* looper is quitting, so that no event is dropped; a fresh session has done none.
FollowInv ==
  /\ DOMAIN issued = Activities /\ DOMAIN looper = Activities
  /\ \A a \in Activities : InLine(taskQ[a], issued[a])
  /\ \A a \in Activities : looper[a] # "running" => activity[a] = "destroyed"
  /\ phase = "fresh" =>
       /\ owner = NoActivity /\ model = initialState
       /\ \A a \in Activities : DoneOf(taskQ[a], issued[a]) = 0
  /\ phase # "fresh" =>
       model = Replay(SubSeq(issued[owner], 1, DoneOf(taskQ[owner], issued[owner])))

LEMMA NothingReplayed ==
  ASSUME NEW events \in Seq(Events)
  PROVE  Replay(SubSeq(events, 1, 0)) = initialState
<1>1. DOMAIN SubSeq(events, 1, 0) = {}
  OBVIOUS
<1>. QED
  BY <1>1, ReplayOfNone

LEMMA OneMoreReplayed ==
  ASSUME NEW events \in Seq(Events), NEW n \in Nat, n + 1 \in 1..Len(events)
  PROVE  Replay(SubSeq(events, 1, n + 1)) =
           Step(Replay(SubSeq(events, 1, n)), Event(events[n + 1])).model
<1> DEFINE few == SubSeq(events, 1, n)  more == SubSeq(events, 1, n + 1)
<1>1. /\ DOMAIN few = 1..n /\ \A i \in 1..n : few[i] = events[i]
      /\ DOMAIN more = 1..(n + 1) /\ \A i \in 1..(n + 1) : more[i] = events[i]
  OBVIOUS
<1> HIDE DEF few, more
<1>2. Continues(more, few, n) /\ more[n + 1] = events[n + 1]
  BY <1>1 DEF Continues
<1>3. Replay(more) = Stepped(Replay(few), more[n + 1])
  BY <1>1, <1>2, ReplayOfOneMore
<1>. QED
  BY <1>2, <1>3 DEF Stepped, few, more

\* What is replayed is not touched by events that are issued later.
LEMMA ReplayedBefore ==
  ASSUME NEW events \in Seq(Events), NEW more \in Seq(Events), NEW n \in 0..Len(events)
  PROVE  SubSeq(events \o more, 1, n) = SubSeq(events, 1, n)
  OBVIOUS

LEMMA DoneIsBounded ==
  ASSUME NEW q \in Seq(Tasks), NEW events, InLine(q, events)
  PROVE  DoneOf(q, events) \in 0..Len(events)
<1>1. EventsIn(q, Len(q)) \in Nat
  <2>1. Len(q) \in Nat
    OBVIOUS
  <2>. QED
    BY <2>1, EventsInFirst
<1>2. events \in Seq(Events) /\ DoneOf(q, events) \in Nat
  BY DEF InLine
<1>. QED
  BY <1>1, <1>2 DEF DoneOf

LEMMA FollowsInitially == Init => FollowInv
<1> SUFFICES ASSUME Init PROVE FollowInv
  OBVIOUS
<1>1. InLine(<<>>, <<>>) /\ DoneOf(<<>>, <<>>) = 0
  <2>1. EventsIn(<<>>, 0) = 0
    BY EventsInFirst
  <2>2. Len(<<>>) = 0
    OBVIOUS
  <2>. QED
    BY <2>1, <2>2 DEF InLine, DoneOf
<1>. QED
  BY <1>1 DEF Init, Session!Init, FollowInv

\* A task is done that was no event of the session.
LEMMA ConsumingFollows ==
  ASSUME ClosedInv, FollowInv, NEW a \in Activities, taskQ[a] # <<>>,
         taskQ' = [taskQ EXCEPT ![a] = Tail(@)],
         Head(taskQ[a]).kind # "dispatch" \/ (phase # "fresh" /\ owner # a),
         looper' = looper \/ (looper' = [looper EXCEPT ![a] = "quitting"]
                              /\ activity[a] = "destroyed"),
         UNCHANGED <<model, owner, activity, issued>>, phase' = "fresh" <=> phase = "fresh"
  PROVE  FollowInv'
<1> DEFINE q == taskQ[a]
<1>1. /\ DOMAIN taskQ' = Activities /\ taskQ'[a] = Tail(q)
      /\ \A b \in Activities \ {a} : taskQ'[b] = taskQ[b]
  BY DEF ClosedInv
<1>2. q \in Seq(Tasks) /\ InLine(q, issued[a])
  BY DEF ClosedInv, QueueInOrder, FollowInv
<1>3. /\ InLine(Tail(q), issued[a])
      /\ Head(q).kind # "dispatch" => DoneOf(Tail(q), issued[a]) = DoneOf(q, issued[a])
  BY <1>2, HeadOfLine
<1> HIDE DEF q
<1>4. \A b \in Activities : InLine(taskQ'[b], issued[b])
  BY <1>1, <1>3 DEF FollowInv
<1>5. \A b \in Activities : looper'[b] # "running" => activity[b] = "destroyed"
  BY DEF FollowInv
<1>6. ASSUME NEW b \in Activities, b # a \/ Head(q).kind # "dispatch"
      PROVE  DoneOf(taskQ'[b], issued[b]) = DoneOf(taskQ[b], issued[b])
  BY <1>1, <1>3, <1>6 DEF q
<1>7. CASE phase = "fresh"
  BY <1>4, <1>5, <1>6, <1>7 DEF FollowInv, q
<1>8. CASE phase # "fresh"
  <2>1. owner \in Activities
    BY <1>8 DEF ClosedInv
  <2>2. DoneOf(taskQ'[owner], issued[owner]) = DoneOf(taskQ[owner], issued[owner])
    BY <1>6, <2>1 DEF q
  <2>. QED
    BY <1>4, <1>5, <1>8, <2>2 DEF FollowInv
<1>. QED
  BY <1>7, <1>8

\* The first queued event of the owner is the next of its events.
LEMMA DispatchFollows ==
  ASSUME ClosedInv, FollowInv, NEW a \in Activities, DispatchReturns(a)
  PROVE  FollowInv'
<1> DEFINE q == taskQ[a]  done == DoneOf(q, issued[a])
<1>1. /\ q # <<>> /\ Head(q).kind = "dispatch" /\ phase = "open" /\ owner = a
      /\ taskQ' = [taskQ EXCEPT ![a] = Tail(@)]
      /\ model' = Step(model, Event(Head(q).event)).model
      /\ UNCHANGED <<phase, owner, looper, activity, issued>>
  BY DEF DispatchReturns, Running, Session!Leave, Finish, mainState
<1>2. /\ DOMAIN taskQ' = Activities /\ taskQ'[a] = Tail(q)
      /\ \A b \in Activities \ {a} : taskQ'[b] = taskQ[b]
  BY <1>1 DEF ClosedInv
<1>3. q \in Seq(Tasks) /\ InLine(q, issued[a])
  BY DEF ClosedInv, QueueInOrder, FollowInv
<1>4. /\ InLine(Tail(q), issued[a]) /\ DoneOf(Tail(q), issued[a]) = done + 1
      /\ done + 1 \in 1..Len(issued[a]) /\ issued[a][done + 1] = Head(q).event
  BY <1>1, <1>3, HeadOfLine
<1>5. done \in Nat /\ issued[a] \in Seq(Events)
  BY <1>3 DEF InLine
<1>6. model = Replay(SubSeq(issued[a], 1, done))
  BY <1>1 DEF FollowInv
<1> HIDE DEF q, done
<1>7. model' = Replay(SubSeq(issued[a], 1, done + 1))
  BY <1>1, <1>4, <1>5, <1>6, OneMoreReplayed
<1>8. \A b \in Activities : InLine(taskQ'[b], issued[b])
  BY <1>2, <1>4 DEF FollowInv
<1>. QED
  BY <1>1, <1>2, <1>4, <1>7, <1>8 DEF FollowInv

\* A live activity's looper takes what is posted to it.
LEMMA PostingFollows ==
  ASSUME ClosedInv, FollowInv, NEW a \in Activities, activity[a] # "destroyed",
         NEW to \in Lives \ {"destroyed"}, activity' = [activity EXCEPT ![a] = to],
         NEW events \in Seq(Events), PostDispatches(a, events),
         UNCHANGED <<phase, owner, model, looper>>
  PROVE  FollowInv'
<1> DEFINE tasks == [i \in DOMAIN events |-> Dispatch(events[i])]
<1>1. looper[a] = "running"
  BY DEF FollowInv
<1>2. /\ DOMAIN taskQ = Activities /\ DOMAIN issued = Activities
      /\ taskQ[a] \in Seq(Tasks) /\ InLine(taskQ[a], issued[a])
  BY DEF ClosedInv, QueueInOrder, FollowInv
<1>3. /\ InLine(taskQ[a] \o tasks, issued[a] \o events)
      /\ DoneOf(taskQ[a] \o tasks, issued[a] \o events) = DoneOf(taskQ[a], issued[a])
  BY <1>2, EventsInLine
<1>4. /\ taskQ' = [taskQ EXCEPT ![a] = taskQ[a] \o tasks]
      /\ issued' = [issued EXCEPT ![a] = issued[a] \o events]
  BY <1>1 DEF PostDispatches, Posted
<1> HIDE DEF tasks
<1>5. /\ DOMAIN issued' = Activities
      /\ taskQ'[a] = taskQ[a] \o tasks /\ issued'[a] = issued[a] \o events
      /\ \A b \in Activities \ {a} : taskQ'[b] = taskQ[b] /\ issued'[b] = issued[b]
  BY <1>2, <1>4
<1>6. \A b \in Activities : /\ InLine(taskQ'[b], issued'[b])
                            /\ DoneOf(taskQ'[b], issued'[b]) = DoneOf(taskQ[b], issued[b])
  BY <1>3, <1>5 DEF FollowInv
<1>7. \A b \in Activities : looper'[b] # "running" => activity'[b] = "destroyed"
  BY DEF FollowInv, ClosedInv
<1>8. CASE phase = "fresh"
  BY <1>5, <1>6, <1>7, <1>8 DEF FollowInv
<1>9. CASE phase # "fresh"
  <2> DEFINE done == DoneOf(taskQ[owner], issued[owner])
  <2>1. owner \in Activities
    BY <1>9 DEF ClosedInv
  <2>2. SubSeq(issued'[owner], 1, done) = SubSeq(issued[owner], 1, done)
    <3>1. issued[a] \in Seq(Events)
      BY <1>2 DEF InLine
    <3>2. CASE owner = a
      <4>1. done \in 0..Len(issued[a])
        BY <1>2, <3>1, <3>2, DoneIsBounded
      <4> HIDE DEF done
      <4>. QED
        BY <1>5, <3>1, <3>2, <4>1, ReplayedBefore
    <3>3. CASE owner # a
      BY <1>5, <2>1, <3>3
    <3>. QED
      BY <3>2, <3>3
  <2>3. model = Replay(SubSeq(issued[owner], 1, done))
    BY <1>9 DEF FollowInv
  <2>. QED
    BY <1>5, <1>6, <1>7, <1>9, <2>1, <2>2, <2>3 DEF FollowInv
<1>. QED
  BY <1>8, <1>9

\* What else is posted is no event.
LEMMA AddingFollows ==
  ASSUME ClosedInv, FollowInv, NEW a \in Activities, NEW task \in Tasks, task.kind # "dispatch",
         taskQ' = [taskQ EXCEPT ![a] = Posted(a, <<task>>)],
         \A b \in Activities : activity[b] = "destroyed" => activity'[b] = "destroyed",
         UNCHANGED <<phase, owner, model, looper, issued>>
  PROVE  FollowInv'
<1>1. taskQ[a] \in Seq(Tasks) /\ InLine(taskQ[a], issued[a]) /\ DOMAIN taskQ = Activities
  BY DEF ClosedInv, QueueInOrder, FollowInv
<1>2. /\ InLine(taskQ[a] \o <<task>>, issued[a])
      /\ DoneOf(taskQ[a] \o <<task>>, issued[a]) = DoneOf(taskQ[a], issued[a])
  BY <1>1, OtherTaskInLine
<1> DEFINE longer == taskQ[a] \o <<task>>
<1>3. /\ taskQ'[a] = taskQ[a] \/ taskQ'[a] = longer
      /\ \A b \in Activities \ {a} : taskQ'[b] = taskQ[b]
  BY <1>1 DEF Posted
<1> HIDE DEF longer
<1>4. \A b \in Activities : /\ InLine(taskQ'[b], issued[b])
                            /\ DoneOf(taskQ'[b], issued[b]) = DoneOf(taskQ[b], issued[b])
  BY <1>1, <1>2, <1>3 DEF FollowInv, longer
<1>5. \A b \in Activities : looper'[b] # "running" => activity'[b] = "destroyed"
  BY DEF FollowInv
<1>6. phase # "fresh" => owner \in Activities
  BY DEF ClosedInv
<1>. QED
  BY <1>4, <1>5, <1>6 DEF FollowInv

\* Steps that leave the queues, the activities and the model alone.
LEMMA SessionStepFollows ==
  ASSUME ClosedInv, FollowInv, UNCHANGED <<taskQ, activity, issued, model>>,
         \/ looper' = looper
         \/ \E a \in Activities : looper[a] # "running" /\ looper' = [looper EXCEPT ![a] = "ended"],
         \/ UNCHANGED <<phase, owner>>
         \/ phase' # "fresh" /\ phase # "fresh" /\ owner' = owner
         \/ phase = "fresh" /\ phase' # "fresh" /\ owner' \in Activities
  PROVE  FollowInv'
<1>1. DOMAIN looper' = Activities
      /\ \A a \in Activities : looper'[a] # "running" => activity'[a] = "destroyed"
  BY DEF FollowInv
<1>2. CASE UNCHANGED <<phase, owner>> \/ (phase' # "fresh" /\ phase # "fresh" /\ owner' = owner)
  BY <1>1, <1>2 DEF FollowInv
<1>3. CASE phase = "fresh" /\ phase' # "fresh" /\ owner' \in Activities
  <2>1. /\ issued[owner'] \in Seq(Events) /\ model = initialState
        /\ DoneOf(taskQ[owner'], issued[owner']) = 0
    BY <1>3 DEF FollowInv, InLine
  <2>2. Replay(SubSeq(issued[owner'], 1, 0)) = initialState
    BY <2>1, NothingReplayed
  <2>. QED
    BY <1>1, <1>3, <2>1, <2>2 DEF FollowInv
<1>. QED
  BY <1>2, <1>3

-----------------------------------------------------------------------------
(* One case per action                                                     *)
LEMMA RuntimeKeepsFollowing ==
  ASSUME ClosedInv, FollowInv, NEW a \in Activities, RuntimeStep(a)
  PROVE  FollowInv'
<1>1. CASE Refuse(a)
  <2>1. Head(taskQ[a]).kind # "dispatch" \/ (phase # "fresh" /\ owner # a)
    <3>1. CASE phase = "closed" /\ owner = a
      <4>1. taskQ[a] \in Seq(Tasks) /\ taskQ[a] # <<>> /\ NoDispatch(taskQ[a])
        BY <1>1, <3>1 DEF Refuse, Running, ClosedInv, QueueInOrder
      <4>2. 1 \in 1..Len(taskQ[a]) /\ Head(taskQ[a]) = taskQ[a][1]
        BY <4>1
      <4>. QED
        BY <4>1, <4>2 DEF NoDispatch
    <3>. QED
      BY <1>1, <3>1 DEF Refuse
  <2>. QED
    BY <1>1, <2>1, ConsumingFollows DEF Refuse, Running, Finish, session, mainState
<1>2. CASE OpenSession(a)
  BY <1>2, SessionStepFollows DEF OpenSession, Session!Claim, Session!Move, mainState
<1>3. CASE EnterExport(a)
  BY <1>3, SessionStepFollows DEF EnterExport, Session!Enter, mainState
<1>4. CASE DispatchReturns(a)
  BY <1>4, DispatchFollows
<1>5. CASE EvalReturns(a)
  BY <1>5, ConsumingFollows DEF EvalReturns, Running, Session!Leave, Finish, mainState
<1>6. CASE RunClose(a)
  <2>1. activity[a] = "destroyed"
    <3>1. taskQ[a] \in Seq(Tasks) /\ taskQ[a] # <<>> /\ Head(taskQ[a]).kind = "close"
      BY <1>6 DEF RunClose, Running, ClosedInv, QueueInOrder
    <3>2. 1 \in 1..Len(taskQ[a]) /\ Head(taskQ[a]) = taskQ[a][1]
      BY <3>1
    <3>3. ~NoClose(taskQ[a])
      BY <3>1, <3>2 DEF NoClose
    <3>. QED
      BY <3>3 DEF ClosedInv, QueueInOrder
  <2>2. owner' = owner /\ (phase' = "fresh" <=> phase = "fresh")
    BY <1>6 DEF RunClose, Session!Move, session
  <2>. QED
    BY <1>6, <2>1, <2>2, ConsumingFollows DEF RunClose, Running, mainState
<1>7. CASE LooperEnds(a)
  BY <1>7, SessionStepFollows DEF LooperEnds, session, mainState
<1>. QED
  BY <1>1, <1>2, <1>3, <1>4, <1>5, <1>6, <1>7 DEF RuntimeStep

LEMMA TransitionFollows ==
  ASSUME ClosedInv, FollowInv, NEW a \in Activities, NEW from, from # "destroyed",
         NEW to \in Lives \ {"destroyed"}, NEW events \in Seq(Events),
         Transition(a, from, to, events)
  PROVE  FollowInv'
  BY PostingFollows DEF Transition, runtimeState, session

LEMMA PostCloseFollows ==
  ASSUME ClosedInv, FollowInv, NEW a \in Activities, PostClose(a),
         UNCHANGED <<phase, owner, model, looper, issued>>
  PROVE  FollowInv'
<1>1. Close \in Tasks /\ Close.kind = "close"
  BY DEF Close, Tasks
<1>2. \A b \in Activities : activity[b] = "destroyed" => activity'[b] = "destroyed"
  BY DEF PostClose, ClosedInv
<1>. QED
  BY <1>1, <1>2, AddingFollows DEF PostClose

LEMMA UserKeepsFollowing ==
  ASSUME ClosedInv, FollowInv, NEW a \in Activities, UserStep(a)
  PROVE  FollowInv'
<1>1. CASE Launch(a)
  BY <1>1, PostingFollows, LifecycleEvents DEF Launch, runtimeState, session, Lives
<1>2. CASE OnPause(a) \/ OnStop(a) \/ Return(a)
  BY <1>2, TransitionFollows, LifecycleEvents DEF OnPause, OnStop, Return, Lives
<1>3. CASE \E button \in Buttons : Tap(a, button)
  <2>1. PICK button \in Buttons : Tap(a, button)
    BY <1>3
  <2>2. activity' = [activity EXCEPT ![a] = "resumed"] /\ activity[a] = "resumed"
    BY <2>1 DEF Tap, ClosedInv
  <2>. QED
    BY <2>1, <2>2, PostingFollows, LifecycleEvents DEF Tap, runtimeState, session, Lives
<1>4. CASE OnDestroy(a)
  <2>1. CASE PostClose(a)
    BY <1>4, <2>1, PostCloseFollows DEF OnDestroy, runtimeState, session
  <2>2. CASE UNCHANGED <<activity, taskQ>>
    BY <1>4, <2>2, SessionStepFollows DEF OnDestroy, runtimeState, session
  <2>. QED
    BY <1>4, <2>1, <2>2 DEF OnDestroy
<1>. QED
  BY <1>1, <1>2, <1>3, <1>4 DEF UserStep

LEMMA ServerKeepsFollowing ==
  ASSUME ClosedInv, ClientsInv, FollowInv, NEW a \in Activities,
         ServerStep(a) \/ JoinReturns(a)
  PROVE  FollowInv'
<1>1. CASE ReadLine(a)
  <2> DEFINE task == Eval(reading[a])
  <2>1. task \in Tasks /\ task.kind = "eval"
    BY <1>1 DEF ClientsInv, ReadLine, Eval, Tasks
  <2>2. taskQ' = [taskQ EXCEPT ![a] = Posted(a, <<task>>)]
        /\ UNCHANGED <<session, model, looper, issued, activity>>
    BY <1>1 DEF ReadLine, hostState, runtimeState
  <2>. HIDE DEF task
  <2>. QED
    BY <2>1, <2>2, AddingFollows DEF session
<1>2. CASE ServerStep(a) /\ ~ReadLine(a)
  BY <1>2, SessionStepFollows
     DEF ServerStep, Accept, HangUp, AnswerRequest, TimeOut, ServerEnds, Tell, hostState,
         runtimeState, session
<1>3. CASE JoinReturns(a)
  BY <1>3, PostCloseFollows DEF JoinReturns, runtimeState, session
<1>. QED
  BY <1>1, <1>2, <1>3

LEMMA StepKeepsFollowing == ClosedInv /\ ClientsInv /\ FollowInv /\ [Next]_vars => FollowInv'
<1> SUFFICES ASSUME ClosedInv, ClientsInv, FollowInv, [Next]_vars PROVE FollowInv'
  OBVIOUS
<1>1. CASE \E a \in Activities : RuntimeStep(a) \/ UserStep(a) \/ JoinReturns(a)
                                 \/ ServerStep(a)
  BY <1>1, RuntimeKeepsFollowing, UserKeepsFollowing, ServerKeepsFollowing
<1>2. CASE Connect \/ RunCallback \/ AnswerPrompt
  BY <1>2, SessionStepFollows
     DEF Connect, hostState, RunCallback, AnswerPrompt, runtimeState, session
<1>3. CASE UNCHANGED vars
  BY <1>3, SessionStepFollows DEF vars, session
<1>. QED
  BY <1>1, <1>2, <1>3 DEF Next

\* No event that the owning activity dispatches is lost, repeated, reordered or
\* joined by one of another activity on its way through the FIFO into the
\* reducer (JoltRuntime.dispatch, poc.native/dispatch), for any number of
\* activities, presses, returns and debug requests.
THEOREM ModelFollows == Spec => []ModelFollowsOwner
<1>1. ClosedInv /\ FollowInv => ModelFollowsOwner
  BY DEF ClosedInv, FollowInv, ModelFollowsOwner, Done, DoneOf
<1>. QED
  BY <1>1, ClosedInitially, StepKeepsClosed, ClientsInitially, StepKeepsClients,
     FollowsInitially, StepKeepsFollowing, PTL DEF Spec
=============================================================================
