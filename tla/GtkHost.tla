------------------------------- MODULE GtkHost -------------------------------
(***************************************************************************)
(* The Linux GTK host, src/linux/poc/gtk_app.jolt: dispatch! reads the     *)
(* model's atom, steps it, resets the atom, executes the effects and then  *)
(* resets the adapter's atom, each a step of its own.  GTK's main thread   *)
(* dispatches what the buttons say; in the workflow of docs/DEVELOPMENT.md *)
(* an nREPL worker calls dispatch! as well.  The window is repainted on    *)
(* the main thread after a change of either atom (Glimmer, external), and  *)
(* the counter outlives the process in a file, which every write truncates *)
(* and then writes at its own offset, with no lock: two writes under way   *)
(* at once can mix their digits.                                           *)
(***************************************************************************)
EXTENDS Reducer, FiniteSets

CONSTANTS
  Threads,        \* the threads that call dispatch!
  GtkThread,      \* the one of them that paints
  Buttons,        \* the events that the window's buttons dispatch
  Calls,          \* the events that the other threads dispatch
  Stored,         \* the texts that the file may hold before the first start
  MaxWidth,       \* bound: no counter has more digits than MaxWidth + 1
  WriteFailures,  \* what may fail of a file write: "open", "write"
  MaxDispatches,  \* bound: calls of dispatch! over the run
  MaxCrashes      \* bound: crashes and restarts

ASSUME GtkAssumption ==
  /\ GtkThread \in Threads
  /\ WriteFailures \subseteq {"open", "write"}
  /\ MaxWidth \in Nat /\ MaxDispatches \in Nat /\ MaxCrashes \in Nat

VARIABLES
  up,         \* the process runs
  app,        \* app-state
  adapter,    \* adapter-state
  file,       \* the text of the storage file
  pc,         \* where each thread is in dispatch!
  event,      \* the event of each thread's call
  stepped,    \* what the reducer made of the event and of the model that was read
  results,    \* the effect-results of each thread's call
  dirty,      \* a repaint is queued on the main loop
  painted,    \* the model and the adapter state in the window
  dispatches, crashes,   \* counters behind the bounds
  committed,  \* history: the counters app-state has held
  requested,  \* history: the payloads of the storage writes that calls requested
  replay,     \* history: the model if every committed event counted
  overlapped  \* history: two calls of dispatch! have overlapped since the start

process == <<up, crashes>>
window  == <<painted>>
history == <<committed, requested, replay, overlapped>>
vars    == <<process, app, adapter, file, pc, event, stepped, results, dirty, window,
             dispatches, history>>

-----------------------------------------------------------------------------
(* The text of the file: the number that its digits spell, and how many    *)
(* characters they are.  A text that starts with a 0 counts as its digits. *)
Magnitude(n) == IF n < 0 THEN -n ELSE n

\* pr-str of a counter: a sign if it is negative, a digit, and one for every
\* power of ten that it reaches.
Width(n) ==
  (IF n < 0 THEN 2 ELSE 1) + Cardinality({k \in 1..MaxWidth : 10^k <= Magnitude(n)})

Numeral(n) == [number |-> n, width |-> Width(n)]

\* No file, or one that was truncated and not written yet.
Empty == [number |-> 0, width |-> 0]

ASSUME StoredAssumption ==
  \A text \in Stored : text = Empty \/ (text.number \in Int /\ text = Numeral(text.number))

\* A text written from offset 0 over what another write left there: of a longer
\* one the last characters stay.
Overlay(text, under) ==
  IF under.width <= text.width
  THEN text
  ELSE LET shift == 10^(under.width - text.width)
           tail  == Magnitude(under.number) % shift
       IN  [number |-> IF text.number < 0 THEN text.number * shift - tail
                       ELSE text.number * shift + tail,
            width  |-> under.width]

\* initial-model: the stored counter if the file holds one, then the platform.
initialModel(text) ==
  LET restored == IF text # Empty
                  THEN Step(initialState, EventWith("storage/restore", text.number)).model
                  ELSE initialState
  IN  Step(restored, EventWith("platform/info", "linux")).model

initialAdapter == [lastEffects |-> <<>>, effectResults |-> <<>>]

Nothing == Keep(initialState, <<>>)

Init ==
  /\ up = TRUE
  /\ file \in Stored
  /\ app = initialModel(file)
  /\ adapter = initialAdapter
  /\ pc = [t \in Threads |-> "idle"]
  /\ event = [t \in Threads |-> "none"]
  /\ stepped = [t \in Threads |-> Nothing]
  /\ results = [t \in Threads |-> <<>>]
  /\ dirty = FALSE
  /\ painted = [model |-> app, adapter |-> adapter]
  /\ dispatches = 0
  /\ crashes = 0
  /\ committed = {app.counter}
  /\ requested = {}
  /\ replay = app
  /\ overlapped = FALSE

-----------------------------------------------------------------------------
(* dispatch!, on thread t.                                                 *)
Go(t, from, to) == up /\ pc[t] = from /\ pc' = [pc EXCEPT ![t] = to]

\* Mutant: the counter is written to the file before the model is committed.
ReadModelPersisting(t, called) ==
  /\ dispatches < MaxDispatches
  /\ dispatches' = dispatches + 1
  /\ Go(t, "idle", "commit")
  /\ event' = [event EXCEPT ![t] = called]
  /\ stepped' = [stepped EXCEPT ![t] = Step(app, called)]
  /\ overlapped' = (overlapped \/ \E u \in Threads \ {t} : pc[u] \notin {"idle", "paint"})
  /\ file' = Numeral(stepped'[t].model.counter)
  /\ UNCHANGED <<process, app, adapter, results, dirty, window, committed, requested, replay>>

ReadModel(t, called) ==
  /\ dispatches < MaxDispatches
  /\ dispatches' = dispatches + 1
  /\ Go(t, "idle", "commit")
  /\ event' = [event EXCEPT ![t] = called]
  /\ stepped' = [stepped EXCEPT ![t] = Step(app, called)]
  /\ overlapped' = (overlapped \/ \E u \in Threads \ {t} : pc[u] \notin {"idle", "paint"})
  /\ UNCHANGED <<process, app, adapter, file, results, dirty, window, committed, requested,
                 replay>>

\* The payload of the storage write that an event requests, if it does.
PayloadsOf(called) ==
  IF called.type = "platform/request-effect" /\ called.effect.type = "storage/write"
  THEN {called.effect.value}
  ELSE {}

Commit(t) ==
  /\ Go(t, "commit", "effects")
  /\ app' = stepped[t].model
  /\ dirty' = TRUE
  /\ committed' = committed \union {app'.counter}
  /\ requested' = requested \union PayloadsOf(event[t])
  /\ replay' = Step(replay, event[t]).model
  /\ UNCHANGED <<process, adapter, file, event, stepped, results, window, dispatches,
                 overlapped>>

\* The reducer emits at most one effect.
EffectOf(t) == stepped[t].effects[1]

Outcome(t, status) == results' = [results EXCEPT ![t] = <<status>>]

quiet == UNCHANGED <<process, app, adapter, event, stepped, dirty, window, dispatches, history>>

NoEffects(t) ==
  /\ stepped[t].effects = <<>>
  /\ Go(t, "effects", "report")
  /\ results' = [results EXCEPT ![t] = <<>>]
  /\ UNCHANGED file
  /\ quiet

\* Clipboard and browser answer at once, or their call throws.
OtherOutcomes ==
  [type \in EffectTypes |->
     CASE type = "platform/clipboard" -> {"unavailable", "requested", "failed"}
       [] type = "platform/open-uri"  -> {"requested", "failed"}
       [] OTHER                       -> {"unsupported"}]

ExecuteOther(t) ==
  /\ stepped[t].effects # <<>>
  /\ EffectOf(t).type # "storage/write"
  /\ Go(t, "effects", "report")
  /\ \E status \in OtherOutcomes[EffectOf(t).type] : Outcome(t, status)
  /\ UNCHANGED file
  /\ quiet

\* spit (external) opens the file, which truncates it, then writes it.
OpenFile(t) ==
  /\ stepped[t].effects # <<>>
  /\ EffectOf(t).type = "storage/write"
  /\ \/ Go(t, "effects", "write") /\ file' = Empty /\ UNCHANGED results
     \/ /\ "open" \in WriteFailures
        /\ Go(t, "effects", "report") /\ Outcome(t, "failed") /\ UNCHANGED file
  /\ quiet

\* What the file holds once a value is written from offset 0: the value, or its
\* digits before the last ones of what another call wrote since the truncation.
Written(value) == IF file = Empty THEN Numeral(value) ELSE Overlay(Numeral(value), file)

\* Mutant: the catch reports what failed as :completed.
WriteFileClaiming(t) ==
  /\ Go(t, "write", "report")
  /\ \/ file' = Written(EffectOf(t).value) /\ Outcome(t, "completed")
     \/ "write" \in WriteFailures /\ Outcome(t, "completed") /\ UNCHANGED file
  /\ quiet

WriteFile(t) ==
  /\ Go(t, "write", "report")
  /\ \/ file' = Written(EffectOf(t).value) /\ Outcome(t, "completed")
     \/ "write" \in WriteFailures /\ Outcome(t, "failed") /\ UNCHANGED file
  /\ quiet

\* The locals of a call are gone with it.
Forget(threads) ==
  /\ event' = [t \in Threads |-> IF t \in threads THEN "none" ELSE event[t]]
  /\ stepped' = [t \in Threads |-> IF t \in threads THEN Nothing ELSE stepped[t]]
  /\ results' = [t \in Threads |-> IF t \in threads THEN <<>> ELSE results[t]]

\* Mutant: a failed effect takes the model back.
ReportRollingBack(t) ==
  /\ Go(t, "report", "idle")
  /\ adapter' = [lastEffects |-> stepped[t].effects, effectResults |-> results[t]]
  /\ app' = IF results[t] = <<"failed">> THEN painted.model ELSE app
  /\ dirty' = TRUE
  /\ Forget({t})
  /\ UNCHANGED <<process, file, window, dispatches, history>>

\* Mutant: adapter-state is a plain atom that no component watches.
ReportUnwatched(t) ==
  /\ Go(t, "report", "idle")
  /\ adapter' = [lastEffects |-> stepped[t].effects, effectResults |-> results[t]]
  /\ Forget({t})
  /\ UNCHANGED <<process, app, dirty, file, window, dispatches, history>>

Report(t) ==
  /\ Go(t, "report", "idle")
  /\ adapter' = [lastEffects |-> stepped[t].effects, effectResults |-> results[t]]
  /\ dirty' = TRUE
  /\ Forget({t})
  /\ UNCHANGED <<process, app, file, window, dispatches, history>>

-----------------------------------------------------------------------------
(* app: the component reads the two atoms one after the other.             *)
PaintModel ==
  /\ dirty
  /\ Go(GtkThread, "idle", "paint")
  /\ dirty' = FALSE
  /\ painted' = [painted EXCEPT !.model = app]
  /\ UNCHANGED <<process, app, adapter, file, event, stepped, results, dispatches, history>>

PaintAdapter ==
  /\ Go(GtkThread, "paint", "idle")
  /\ painted' = [painted EXCEPT !.adapter = adapter]
  /\ UNCHANGED <<process, app, adapter, file, event, stepped, results, dirty, dispatches,
                 history>>

\* The process is killed between any two steps, and started again.
Crash ==
  /\ up
  /\ crashes < MaxCrashes
  /\ crashes' = crashes + 1
  /\ up' = FALSE
  /\ pc' = [t \in Threads |-> "idle"]
  /\ Forget(Threads)
  /\ UNCHANGED <<app, adapter, file, dirty, window, dispatches, history>>

Restart ==
  /\ ~up
  /\ up' = TRUE
  /\ app' = initialModel(file)
  /\ adapter' = initialAdapter
  /\ dirty' = FALSE
  /\ painted' = [model |-> app', adapter |-> adapter']
  /\ committed' = committed \union {app'.counter}
  /\ replay' = app'
  /\ overlapped' = FALSE
  /\ UNCHANGED <<crashes, file, pc, event, stepped, results, dispatches, requested>>

-----------------------------------------------------------------------------
DispatchStep(t) ==
  Commit(t) \/ NoEffects(t) \/ ExecuteOther(t) \/ OpenFile(t) \/ WriteFile(t) \/ Report(t)

EventsOf(t) == IF t = GtkThread THEN Buttons ELSE Calls

Paint == PaintModel \/ PaintAdapter

Next ==
  \/ \E t \in Threads : DispatchStep(t) \/ \E called \in EventsOf(t) : ReadModel(t, called)
  \/ Paint
  \/ Crash
  \/ Restart

Spec == Init /\ [][Next]_vars

\* A started dispatch! goes on, and the main loop gets to its idle queue.
FairSpec == Spec /\ WF_vars(Paint) /\ \A t \in Threads : WF_vars(DispatchStep(t))

-----------------------------------------------------------------------------
TypeOK ==
  /\ up \in BOOLEAN
  /\ app.counter \in Int
  /\ file.number \in Int /\ file.width \in Nat
  /\ pc \in [Threads -> {"idle", "commit", "effects", "write", "report", "paint"}]
  /\ dirty \in BOOLEAN
  /\ app.counter \in committed
  /\ overlapped \in BOOLEAN

Idle == up /\ \A t \in Threads : pc[t] \in {"idle", "paint"}

\* The numbers that were ever to be stored have one width.
OneWidth == \A m, n \in committed \union requested : Width(m) = Width(n)

\* What the file holds was the model's counter before, or was requested to be
\* stored: effects are executed after the commit, so neither a crash nor a failing
\* write brings back a counter that never was.  Two writes at once keep to that
\* only as long as all numbers have one width: 9 over 10 leaves 90 in the file.
PersistedWasCommitted ==
  (~overlapped \/ OneWidth) /\ file # Empty => file.number \in committed \union requested

\* As long as calls of dispatch! do not overlap, the model is what the reducer
\* makes of every dispatched event since the start, whatever effects fail: no
\* failure rolls the model back.
NoUpdateLostInSeries == ~overlapped => app = replay

WriteCompleted ==
  /\ Len(adapter.lastEffects) = 1
  /\ adapter.lastEffects[1].type = "storage/write"
  /\ adapter.effectResults = <<"completed">>

\* The reported write is on disk, and is of the counter unless it was requested.
WriteIsOnDisk ==
  LET value == adapter.lastEffects[1].value
  IN  file = Numeral(value) /\ value \in {app.counter} \union requested

\* As long as calls of dispatch! do not overlap, a :completed write is on disk.
CompletedInSeriesIsPersisted == Idle /\ ~overlapped /\ WriteCompleted => WriteIsOnDisk


\* The window ends up showing the model and the outcomes of the latest
\* dispatch, wherever it came from, although a paint that is under way may
\* show a model beside the outcomes of another.
WindowCatchesUp ==
  (up /\ painted # [model |-> app, adapter |-> adapter])
    ~> (~up \/ painted = [model |-> app, adapter |-> adapter])
=============================================================================
