---------------------------- MODULE GtkHostProofs ----------------------------
(***************************************************************************)
(* What the GTK host keeps for any threads, any events, any failures of a  *)
(* write and any number of dispatches and crashes.                         *)
(*                                                                         *)
(* A call writes a counter that the model has had, or a payload that was   *)
(* requested, because it commits before it writes.  What the file then     *)
(* holds is that number if no other call has written since the truncation, *)
(* or only numbers of the same width.  That the model is the replay of its *)
(* events, and that a completed write is on disk, needs what a call knows  *)
(* while no other is under way: what it stepped is still the model, and    *)
(* the file that it truncated is still empty.                              *)
(***************************************************************************)
EXTENDS GtkHost, FiniteSetTheorems, TLAPS

-----------------------------------------------------------------------------
(* The reducer                                                             *)
HasCounter(model) == "counter" \in DOMAIN model

LEMMA StepKeepsTheCounter ==
  ASSUME NEW state, HasCounter(state), NEW request
  PROVE  HasCounter(Step(state, request).model)
<1>1. \A key, value : HasCounter(Set(state, key, value).model)
  BY DEF HasCounter, Set, Keep
<1>2. \A effects : HasCounter(Keep(state, effects).model)
  BY DEF HasCounter, Keep
<1>3. \A type : HasCounter(CounterStep(state, type).model)
  BY DEF HasCounter, CounterStep, Keep
<1>4. \A effect : HasCounter(RequestEffect(state, effect).model)
  BY <1>1, <1>2 DEF RequestEffect
<1>. QED
  BY <1>1, <1>2, <1>3, <1>4 DEF Step

\* What an effect stores is the stepped model's counter, or was requested.
WritesOf(stepping) == stepping.effects # <<>> /\ stepping.effects[1].type = "storage/write"

Accounted(stepping, request) ==
  WritesOf(stepping) =>
    stepping.effects[1].value \in {stepping.model.counter} \union PayloadsOf(request)

LEMMA StepIsAccounted ==
  ASSUME NEW state, HasCounter(state), NEW request
  PROVE  Accounted(Step(state, request), request)
<1>1. \A key, value : Accounted(Set(state, key, value), request)
  BY DEF Accounted, WritesOf, Set, Keep
<1>2. Accounted(Keep(state, <<>>), request)
  BY DEF Accounted, WritesOf, Keep
<1>3. \A t : Accounted(Keep(state, <<Effect(t, state.counter)>>), request)
  BY DEF Accounted, WritesOf, Keep, Effect
<1>4. \A t : Accounted(CounterStep(state, t), request)
  BY DEF Accounted, WritesOf, HasCounter, CounterStep, Keep, Effect
<1>5. request.type = "platform/request-effect" =>
        Accounted(RequestEffect(state, request.effect), request)
  <2>1. request.type = "platform/request-effect" =>
          Accounted(Keep(state, <<request.effect>>), request)
    BY DEF Accounted, WritesOf, Keep, PayloadsOf
  <2>. QED
    BY <1>1, <2>1 DEF RequestEffect
<1>. QED
  BY <1>1, <1>2, <1>3, <1>4, <1>5 DEF Step

-----------------------------------------------------------------------------
(* The text of the file                                                    *)
LEMMA WidthIsANumber == ASSUME NEW n PROVE Width(n) \in Int
<1> DEFINE Powers == {k \in 1..MaxWidth : 10^k <= Magnitude(n)}
<1>1. IsFiniteSet(1..MaxWidth)
  BY FS_Interval, GtkAssumption
<1>2. IsFiniteSet(Powers)
  BY <1>1, FS_Subset
<1>3. Cardinality(Powers) \in Nat
  BY <1>2, FS_CardinalityType
<1>. HIDE DEF Powers
<1>4. (IF n < 0 THEN 2 ELSE 1) + Cardinality(Powers) \in Int
  BY <1>3
<1>. QED
  BY <1>4 DEF Width, Powers

\* A number written over one of its width leaves nothing of it.
LEMMA OverlayOfOneWidth ==
  ASSUME NEW m, NEW n, Width(m) = Width(n)
  PROVE  Overlay(Numeral(m), Numeral(n)) = Numeral(m)
<1>1. Numeral(m).width = Width(m) /\ Numeral(n).width = Width(n)
  BY DEF Numeral
<1>2. Numeral(n).width <= Numeral(m).width
  BY <1>1, WidthIsANumber
<1>. QED
  BY <1>2 DEF Overlay

\* What is to be stored, or was.
Sources == committed \union requested

\* Of one width, the file's text is that of one of them.
FileIsPlain == OneWidth => file = Empty \/ \E n \in Sources : file = Numeral(n)

-----------------------------------------------------------------------------
(* The invariant                                                           *)
Busy(t)   == pc[t] \notin {"idle", "paint"}
Writes(t) == WritesOf(stepped[t])

Places == {"idle", "commit", "effects", "write", "report", "paint"}

Shape ==
  /\ pc \in [Threads -> Places]
  /\ DOMAIN event = Threads /\ DOMAIN stepped = Threads /\ DOMAIN results = Threads
  /\ HasCounter(app)

\* What a call will write is, or was, the counter of the model, or requested.
WritesAreCommitted(t) ==
  /\ pc[t] = "commit" => HasCounter(stepped[t].model)
  /\ pc[t] = "commit" => Accounted(stepped[t], event[t])
  /\ pc[t] \in {"effects", "write"} /\ Writes(t) => EffectOf(t).value \in Sources
  /\ pc[t] = "write" => Writes(t)

\* What a call knows while no other is under way.
SeriesHolds(t) ==
  /\ Busy(t) => \A u \in Threads \ {t} : ~Busy(u)
  /\ pc[t] = "commit" => stepped[t] = Step(app, event[t])
  /\ pc[t] \in {"effects", "write", "report"} /\ Writes(t) =>
       EffectOf(t).value \in {app.counter} \union requested
  /\ pc[t] = "write" => file = Empty
  /\ pc[t] = "report" /\ Writes(t) /\ results[t] = <<"completed">> =>
       file = Numeral(EffectOf(t).value)

GtkInv ==
  /\ Shape
  /\ ~up => \A t \in Threads : pc[t] = "idle"
  /\ PersistedWasCommitted
  /\ FileIsPlain
  /\ NoUpdateLostInSeries
  /\ CompletedInSeriesIsPersisted
  /\ \A t \in Threads : WritesAreCommitted(t) /\ (~overlapped => SeriesHolds(t))

LEMMA InitialModelCounts == ASSUME NEW contents PROVE HasCounter(initialModel(contents))
  BY StepKeepsTheCounter DEF initialModel, initialState, HasCounter

LEMMA InitialModelIsStored ==
  ASSUME NEW text, text # Empty
  PROVE  initialModel(text).counter = text.number
<1> DEFINE restore  == EventWith("storage/restore", text.number)
           restored == Step(initialState, restore).model
           inform   == EventWith("platform/info", "linux")
<1>1. restored = [initialState EXCEPT !.counter = text.number]
  BY DEF Step, EventWith, Set, Keep, CounterEvents, EmittedBy, LifecycleAfter
<1>2. \A state : Step(state, inform).model = [state EXCEPT !.platform = "linux"]
  BY DEF Step, EventWith, Set, Keep, CounterEvents, EmittedBy, LifecycleAfter
<1>3. initialModel(text) = [restored EXCEPT !.platform = "linux"]
  BY <1>2 DEF initialModel
<1>. QED
  BY <1>1, <1>3 DEF initialState

LEMMA GtkInitially == Init => GtkInv
<1> SUFFICES ASSUME Init PROVE GtkInv
  OBVIOUS
<1>1. PersistedWasCommitted /\ FileIsPlain
  <2>1. file # Empty => file = Numeral(file.number)
    BY StoredAssumption DEF Init
  <2>2. file # Empty => file.number \in committed
    BY InitialModelIsStored DEF Init
  <2>. QED
    BY <2>1, <2>2 DEF PersistedWasCommitted, FileIsPlain, Sources
<1>. QED
  BY <1>1, InitialModelCounts
     DEF Init, GtkInv, Shape, Places, WritesAreCommitted, SeriesHolds, Busy, initialAdapter,
         NoUpdateLostInSeries, CompletedInSeriesIsPersisted, WriteCompleted

\* What is to be stored only grows, so nothing that was not of one width gets so.
LEMMA WidthsOnlyPart ==
  ASSUME committed \subseteq committed', requested \subseteq requested'
  PROVE  OneWidth' => OneWidth
  BY DEF OneWidth, Width

LEMMA FileStays ==
  ASSUME GtkInv, file' = file, committed \subseteq committed', requested \subseteq requested',
         overlapped => overlapped'
  PROVE  PersistedWasCommitted' /\ FileIsPlain'
<1>1. Sources \subseteq Sources'
  BY DEF Sources
<1>. QED
  BY <1>1, WidthsOnlyPart DEF GtkInv, PersistedWasCommitted, FileIsPlain, Sources

-----------------------------------------------------------------------------
(* The steps of a call                                                     *)
LEMMA ReadKeeps ==
  ASSUME GtkInv, NEW t \in Threads, NEW called, ReadModel(t, called)
  PROVE  GtkInv'
<1>1. /\ up /\ pc[t] = "idle" /\ pc' = [pc EXCEPT ![t] = "commit"]
      /\ event' = [event EXCEPT ![t] = called]
      /\ stepped' = [stepped EXCEPT ![t] = Step(app, called)]
      /\ overlapped' = (overlapped \/ \E u \in Threads \ {t} : pc[u] \notin {"idle", "paint"})
      /\ UNCHANGED <<up, app, adapter, file, results, committed, requested, replay>>
  BY DEF ReadModel, Go, process, window
<1>2. Shape'
  BY <1>1 DEF GtkInv, Shape, Places
<1>3. PersistedWasCommitted' /\ FileIsPlain' /\ NoUpdateLostInSeries'
  BY <1>1, FileStays DEF GtkInv, NoUpdateLostInSeries
<1>4. CompletedInSeriesIsPersisted'
  BY <1>1 DEF GtkInv, Shape, CompletedInSeriesIsPersisted, Idle
<1>5. ASSUME NEW u \in Threads PROVE WritesAreCommitted(u)' /\ (~overlapped' => SeriesHolds(u)')
  <2>1. CASE u = t
    <3>1. pc'[t] = "commit" /\ stepped'[t] = Step(app, called) /\ event'[t] = called
      BY <1>1 DEF GtkInv, Shape
    <3>2. ~overlapped' => \A v \in Threads \ {t} : ~Busy(v)'
      BY <1>1 DEF GtkInv, Shape, Busy
    <3>3. Accounted(stepped'[t], event'[t])
      BY <3>1, StepIsAccounted DEF GtkInv, Shape
    <3>4. HasCounter(stepped'[t].model)
      BY <3>1, StepKeepsTheCounter DEF GtkInv, Shape
    <3>. QED
      BY <1>1, <2>1, <3>1, <3>2, <3>3, <3>4 DEF WritesAreCommitted, SeriesHolds
  <2>2. CASE u # t
    <3>1. pc'[u] = pc[u] /\ stepped'[u] = stepped[u] /\ event'[u] = event[u]
      BY <1>1, <2>2 DEF GtkInv, Shape
    <3>2. WritesAreCommitted(u)'
      BY <1>1, <3>1 DEF GtkInv, WritesAreCommitted, Writes, EffectOf, Sources
    <3>3. ~overlapped' => ~Busy(u)' /\ pc'[u] \in {"idle", "paint"}
      BY <1>1, <2>2, <3>1 DEF Busy
    <3>. QED
      BY <3>2, <3>3 DEF SeriesHolds
  <2>. QED
    BY <2>1, <2>2
<1>. QED
  BY <1>1, <1>2, <1>3, <1>4, <1>5 DEF GtkInv

LEMMA OthersAreIdle ==
  ASSUME GtkInv, NEW t \in Threads, Busy(t), ~overlapped, NEW u \in Threads, u # t
  PROVE  pc[u] \in {"idle", "paint"}
  BY DEF GtkInv, SeriesHolds, Busy

LEMMA CommitKeeps == ASSUME GtkInv, NEW t \in Threads, Commit(t) PROVE GtkInv'
<1>1. /\ up /\ pc[t] = "commit" /\ pc' = [pc EXCEPT ![t] = "effects"]
      /\ app' = stepped[t].model
      /\ committed' = committed \union {app'.counter}
      /\ requested' = requested \union PayloadsOf(event[t])
      /\ replay' = Step(replay, event[t]).model
      /\ UNCHANGED <<up, adapter, file, event, stepped, results, overlapped>>
  BY DEF Commit, Go, process, window
<1>2. Shape'
  BY <1>1 DEF GtkInv, Shape, Places, WritesAreCommitted
<1>3. PersistedWasCommitted' /\ FileIsPlain'
  BY <1>1, FileStays
<1>4. NoUpdateLostInSeries'
  BY <1>1 DEF GtkInv, NoUpdateLostInSeries, SeriesHolds
<1>5. CompletedInSeriesIsPersisted'
  BY <1>1 DEF GtkInv, Shape, CompletedInSeriesIsPersisted, Idle
<1>6. ASSUME NEW u \in Threads PROVE WritesAreCommitted(u)' /\ (~overlapped' => SeriesHolds(u)')
  <2>1. CASE u = t
    <3>1. pc'[t] = "effects"
      BY <1>1 DEF GtkInv, Shape
    <3>2. Writes(t)' => EffectOf(t)'.value \in {app'.counter} \union requested'
      BY <1>1 DEF GtkInv, WritesAreCommitted, Accounted, Writes, EffectOf
    <3>3. ~overlapped' => \A v \in Threads \ {t} : ~Busy(v)'
      BY <1>1, OthersAreIdle DEF GtkInv, Shape, Busy
    <3>. QED
      BY <1>1, <2>1, <3>1, <3>2, <3>3 DEF WritesAreCommitted, SeriesHolds, Sources
  <2>2. CASE u # t
    <3>1. pc'[u] = pc[u]
      BY <1>1, <2>2 DEF GtkInv, Shape
    <3>2. WritesAreCommitted(u)'
      BY <1>1, <3>1 DEF GtkInv, WritesAreCommitted, Writes, EffectOf, Sources
    <3>3. ~overlapped' => pc'[u] \in {"idle", "paint"}
      BY <1>1, <2>2, <3>1, OthersAreIdle DEF Busy
    <3>. QED
      BY <3>2, <3>3 DEF SeriesHolds, Busy
  <2>. QED
    BY <2>1, <2>2
<1>. QED
  BY <1>1, <1>2, <1>3, <1>4, <1>5, <1>6 DEF GtkInv

\* The effects: nothing but the file, the results and the caller's place move,
\* a write that is under way has truncated the file, and one that completed has
\* written to it.
EffectStep(t) == NoEffects(t) \/ ExecuteOther(t) \/ OpenFile(t) \/ WriteFile(t)

LEMMA EffectFacts ==
  ASSUME GtkInv, NEW t \in Threads, EffectStep(t)
  PROVE  /\ pc[t] \in {"effects", "write"} /\ pc'[t] \in {"write", "report"}
         /\ pc' \in [Threads -> Places] /\ DOMAIN results' = Threads
         /\ \A u \in Threads \ {t} : pc'[u] = pc[u] /\ results'[u] = results[u]
         /\ UNCHANGED <<up, app, adapter, event, stepped, committed, requested, replay,
                        overlapped>>
         /\ pc'[t] = "write" => Writes(t) /\ file' = Empty
         /\ \/ file' = file \/ file' = Empty
            \/ pc[t] = "write" /\ Writes(t) /\ file' = Written(EffectOf(t).value)
         /\ pc'[t] = "report" /\ Writes(t) /\ results'[t] = <<"completed">> =>
              pc[t] = "write" /\ file' = Written(EffectOf(t).value)
<1>1. /\ up /\ pc \in [Threads -> Places] /\ DOMAIN results = Threads
      /\ UNCHANGED <<up, app, adapter, event, stepped, committed, requested, replay, overlapped>>
  BY DEF EffectStep, NoEffects, ExecuteOther, OpenFile, WriteFile, Go, quiet, process, window,
         history, GtkInv, Shape
<1>2. CASE NoEffects(t)
  BY <1>1, <1>2 DEF NoEffects, Go, Places, Writes, WritesOf
<1>3. CASE ExecuteOther(t)
  BY <1>1, <1>3 DEF ExecuteOther, Go, Places, Outcome, Writes, WritesOf, EffectOf
<1>4. CASE OpenFile(t)
  BY <1>1, <1>4 DEF OpenFile, Go, Places, Outcome, Writes, WritesOf, EffectOf
<1>5. CASE WriteFile(t)
  <2>1. Writes(t)
    BY <1>5 DEF WriteFile, Go, GtkInv, WritesAreCommitted
  <2>. QED
    BY <1>1, <1>5, <2>1 DEF WriteFile, Go, Places, Outcome
<1>. QED
  BY <1>2, <1>3, <1>4, <1>5 DEF EffectStep

LEMMA EffectKeeps == ASSUME GtkInv, NEW t \in Threads, EffectStep(t) PROVE GtkInv'
<1>1. Shape'
  BY EffectFacts DEF GtkInv, Shape
<1>2. up'
  BY DEF EffectStep, NoEffects, ExecuteOther, OpenFile, WriteFile, Go, quiet, process
<1>3. PersistedWasCommitted' /\ FileIsPlain'
  <2>1. CASE file' = file
    BY <2>1, EffectFacts, FileStays
  <2>2. CASE file' = Empty
    BY <2>2 DEF PersistedWasCommitted, FileIsPlain
  <2>3. CASE pc[t] = "write" /\ Writes(t) /\ file' = Written(EffectOf(t).value)
    <3>1. EffectOf(t).value \in Sources
      BY <2>3 DEF GtkInv, WritesAreCommitted
    <3>2. ~overlapped \/ OneWidth => file' = Numeral(EffectOf(t).value)
      <4>1. CASE file = Empty
        BY <2>3, <4>1 DEF Written
      <4>2. ASSUME file # Empty, OneWidth PROVE file' = Numeral(EffectOf(t).value)
        <5>1. PICK n \in Sources : file = Numeral(n)
          BY <4>2 DEF GtkInv, FileIsPlain
        <5>2. Width(EffectOf(t).value) = Width(n)
          BY <3>1, <4>2 DEF OneWidth, Sources
        <5>. QED
          BY <2>3, <4>2, <5>1, <5>2, OverlayOfOneWidth DEF Written
      <4>3. ~overlapped => file = Empty
        BY <2>3 DEF GtkInv, SeriesHolds
      <4>. QED
        BY <4>1, <4>2, <4>3
    <3>3. UNCHANGED <<committed, requested, overlapped>>
      BY EffectFacts
    <3>4. Sources' = Sources /\ (OneWidth' => OneWidth)
      BY <3>3, WidthsOnlyPart DEF Sources
    <3>. QED
      BY <3>1, <3>2, <3>3, <3>4 DEF PersistedWasCommitted, FileIsPlain, Numeral, Sources
  <2>. QED
    BY <2>1, <2>2, <2>3, EffectFacts
<1>4. NoUpdateLostInSeries'
  BY EffectFacts DEF GtkInv, NoUpdateLostInSeries
<1>5. CompletedInSeriesIsPersisted'
  BY EffectFacts DEF CompletedInSeriesIsPersisted, Idle
<1>6. ASSUME NEW u \in Threads PROVE WritesAreCommitted(u)' /\ (~overlapped' => SeriesHolds(u)')
  <2>1. Writes(u)' = Writes(u) /\ EffectOf(u)' = EffectOf(u)
    BY EffectFacts DEF Writes, EffectOf
  <2>2. WritesAreCommitted(u)'
    <3>1. CASE u = t
      BY <2>1, <3>1, EffectFacts DEF GtkInv, WritesAreCommitted, Sources
    <3>2. CASE u # t
      BY <2>1, <3>2, EffectFacts DEF GtkInv, WritesAreCommitted, Sources
    <3>. QED
      BY <3>1, <3>2
  <2>3. ASSUME ~overlapped' PROVE SeriesHolds(u)'
    <3>1. ~overlapped /\ Busy(t)
      BY <2>3, EffectFacts DEF Busy
    <3>2. CASE u = t
      <4>1. pc'[t] \in {"write", "report"}
        BY EffectFacts
      <4>2. Writes(t) => EffectOf(t).value \in {app.counter} \union requested
        BY <3>1, EffectFacts DEF GtkInv, SeriesHolds
      <4>3. \A v \in Threads \ {t} : ~Busy(v)'
        BY <3>1, EffectFacts, OthersAreIdle DEF Busy
      <4>4. pc'[t] = "report" /\ Writes(t) /\ results'[t] = <<"completed">> =>
              file' = Numeral(EffectOf(t).value)
        BY <3>1, EffectFacts DEF GtkInv, SeriesHolds, Written
      <4>. QED
        BY <2>1, <3>2, <4>1, <4>2, <4>3, <4>4, EffectFacts DEF SeriesHolds
    <3>3. CASE u # t
      <4>1. pc'[u] \in {"idle", "paint"}
        BY <3>1, <3>3, EffectFacts, OthersAreIdle
      <4>. QED
        BY <4>1 DEF SeriesHolds, Busy
    <3>. QED
      BY <3>2, <3>3
  <2>. QED
    BY <2>2, <2>3
<1>. QED
  BY <1>1, <1>2, <1>3, <1>4, <1>5, <1>6 DEF GtkInv

\* What a call leaves behind is what it knew.
LEMMA ReportKeeps == ASSUME GtkInv, NEW t \in Threads, Report(t) PROVE GtkInv'
<1>1. /\ up /\ pc[t] = "report" /\ pc' = [pc EXCEPT ![t] = "idle"]
      /\ adapter' = [lastEffects |-> stepped[t].effects, effectResults |-> results[t]]
      /\ UNCHANGED <<up, app, file, committed, requested, replay, overlapped>>
      /\ DOMAIN event' = Threads /\ DOMAIN stepped' = Threads /\ DOMAIN results' = Threads
      /\ \A u \in Threads \ {t} :
           event'[u] = event[u] /\ stepped'[u] = stepped[u] /\ results'[u] = results[u]
  BY DEF Report, Go, Forget, process, window, history
<1>2. Shape'
  BY <1>1 DEF GtkInv, Shape, Places
<1>3. PersistedWasCommitted' /\ FileIsPlain' /\ NoUpdateLostInSeries'
  BY <1>1, FileStays DEF GtkInv, NoUpdateLostInSeries
<1>4. CompletedInSeriesIsPersisted'
  <2>1. SUFFICES ASSUME ~overlapped, WriteCompleted'
                 PROVE  /\ file = Numeral(stepped[t].effects[1].value)
                        /\ stepped[t].effects[1].value \in {app.counter} \union requested
    BY <1>1 DEF CompletedInSeriesIsPersisted, WriteIsOnDisk
  <2>2. results[t] = <<"completed">> /\ Len(stepped[t].effects) = 1
        /\ stepped[t].effects[1].type = "storage/write"
    BY <1>1, <2>1 DEF WriteCompleted
  <2>3. Writes(t)
    BY <2>2 DEF Writes, WritesOf
  <2>. QED
    BY <1>1, <2>1, <2>2, <2>3 DEF GtkInv, SeriesHolds, EffectOf
<1>5. ASSUME NEW u \in Threads PROVE WritesAreCommitted(u)' /\ (~overlapped' => SeriesHolds(u)')
  <2>1. CASE u = t
    <3>1. pc'[t] = "idle"
      BY <1>1 DEF GtkInv, Shape
    <3>. QED
      BY <2>1, <3>1 DEF WritesAreCommitted, SeriesHolds, Busy
  <2>2. CASE u # t
    <3>1. pc'[u] = pc[u] /\ stepped'[u] = stepped[u]
      BY <1>1, <2>2 DEF GtkInv, Shape
    <3>2. WritesAreCommitted(u)'
      BY <1>1, <3>1 DEF GtkInv, WritesAreCommitted, Writes, EffectOf, Sources
    <3>3. ~overlapped' => pc'[u] \in {"idle", "paint"}
      BY <1>1, <2>2, <3>1, OthersAreIdle DEF Busy
    <3>. QED
      BY <3>2, <3>3 DEF SeriesHolds, Busy
  <2>. QED
    BY <2>1, <2>2
<1>. QED
  BY <1>1, <1>2, <1>3, <1>4, <1>5 DEF GtkInv

-----------------------------------------------------------------------------
(* Painting, and the life of the process                                   *)
LEMMA PaintKeeps == ASSUME GtkInv, Paint PROVE GtkInv'
<1>1. /\ up /\ pc[GtkThread] \in {"idle", "paint"} /\ pc' \in [Threads -> Places]
      /\ pc'[GtkThread] \in {"idle", "paint"}
      /\ \A u \in Threads \ {GtkThread} : pc'[u] = pc[u]
      /\ UNCHANGED <<up, app, adapter, file, event, stepped, results, committed, requested,
                     replay, overlapped>>
  <2>1. pc \in [Threads -> Places] /\ GtkThread \in Threads
    BY GtkAssumption DEF GtkInv, Shape
  <2>2. CASE PaintModel
    BY <2>1, <2>2 DEF PaintModel, Go, Places, process, history
  <2>3. CASE PaintAdapter
    BY <2>1, <2>3 DEF PaintAdapter, Go, Places, process, history
  <2>. QED
    BY <2>2, <2>3 DEF Paint
<1>2. \A u \in Threads : /\ Busy(u)' = Busy(u)
                         /\ pc'[u] \in {"commit", "effects", "write", "report"} => pc'[u] = pc[u]
  BY <1>1 DEF Busy
<1>3. Shape'
  BY <1>1 DEF GtkInv, Shape
<1>4. PersistedWasCommitted' /\ FileIsPlain' /\ NoUpdateLostInSeries'
  BY <1>1, FileStays DEF GtkInv, NoUpdateLostInSeries
<1>5. CompletedInSeriesIsPersisted'
  <2>1. Idle' => Idle
    BY <1>1 DEF Idle
  <2>. QED
    BY <1>1, <2>1 DEF GtkInv, CompletedInSeriesIsPersisted, WriteCompleted, WriteIsOnDisk
<1>6. ASSUME NEW u \in Threads PROVE WritesAreCommitted(u)' /\ (~overlapped' => SeriesHolds(u)')
  BY <1>1, <1>2 DEF GtkInv, WritesAreCommitted, SeriesHolds, Writes, EffectOf, Sources
<1>. QED
  BY <1>1, <1>3, <1>4, <1>5, <1>6 DEF GtkInv

\* The calls under way are gone with the process.
LEMMA CrashKeeps == ASSUME GtkInv, Crash PROVE GtkInv'
<1>1. /\ ~up' /\ pc' = [u \in Threads |-> "idle"]
      /\ DOMAIN event' = Threads /\ DOMAIN stepped' = Threads /\ DOMAIN results' = Threads
      /\ UNCHANGED <<app, adapter, file, committed, requested, replay, overlapped>>
  BY DEF Crash, Forget, window, history
<1>2. Shape'
  BY <1>1 DEF GtkInv, Shape, Places
<1>3. /\ PersistedWasCommitted' /\ FileIsPlain'
      /\ NoUpdateLostInSeries' /\ CompletedInSeriesIsPersisted'
  BY <1>1, FileStays DEF GtkInv, NoUpdateLostInSeries, CompletedInSeriesIsPersisted, Idle
<1>4. ASSUME NEW u \in Threads PROVE WritesAreCommitted(u)' /\ SeriesHolds(u)'
  BY <1>1 DEF WritesAreCommitted, SeriesHolds, Busy
<1>. QED
  BY <1>1, <1>2, <1>3, <1>4 DEF GtkInv

LEMMA RestartKeeps == ASSUME GtkInv, Restart PROVE GtkInv'
<1>1. /\ ~up /\ up' /\ app' = initialModel(file) /\ adapter' = initialAdapter
      /\ committed' = committed \union {app'.counter}
      /\ replay' = app'
      /\ UNCHANGED <<file, pc, event, stepped, results, requested>>
  BY DEF Restart
<1>2. \A u \in Threads : pc'[u] = "idle"
  BY <1>1 DEF GtkInv
<1>3. Shape'
  BY <1>1, InitialModelCounts DEF GtkInv, Shape
<1>4. PersistedWasCommitted' /\ FileIsPlain' /\ NoUpdateLostInSeries'
  <2>1. file' # Empty => file'.number \in committed'
    BY <1>1, InitialModelIsStored
  <2>2. (OneWidth' => OneWidth) /\ Sources \subseteq Sources'
    BY <1>1, WidthsOnlyPart DEF Sources
  <2>3. FileIsPlain'
    BY <1>1, <2>2 DEF GtkInv, FileIsPlain
  <2>. QED
    BY <1>1, <2>1, <2>3 DEF PersistedWasCommitted, NoUpdateLostInSeries
<1>5. CompletedInSeriesIsPersisted'
  BY <1>1 DEF CompletedInSeriesIsPersisted, WriteCompleted, initialAdapter
<1>6. ASSUME NEW u \in Threads PROVE WritesAreCommitted(u)' /\ SeriesHolds(u)'
  BY <1>2 DEF WritesAreCommitted, SeriesHolds, Busy
<1>. QED
  BY <1>1, <1>2, <1>3, <1>4, <1>5, <1>6 DEF GtkInv

-----------------------------------------------------------------------------
LEMMA StepKeepsGtkInv == GtkInv /\ [Next]_vars => GtkInv'
<1> SUFFICES ASSUME GtkInv, [Next]_vars PROVE GtkInv'
  OBVIOUS
<1>1. CASE \E t \in Threads : \E called \in EventsOf(t) : ReadModel(t, called)
  BY <1>1, ReadKeeps
<1>2. CASE \E t \in Threads : DispatchStep(t)
  BY <1>2, CommitKeeps, EffectKeeps, ReportKeeps DEF DispatchStep, EffectStep
<1>3. CASE Paint
  BY <1>3, PaintKeeps
<1>4. CASE Crash \/ Restart
  BY <1>4, CrashKeeps, RestartKeeps
<1>5. CASE UNCHANGED vars
  <2>1. UNCHANGED <<up, app, adapter, file, pc, event, stepped, results, committed, requested,
                    replay, overlapped>>
    BY <1>5 DEF vars, process, history
  <2>2. \A u \in Threads : WritesAreCommitted(u)' = WritesAreCommitted(u)
                           /\ SeriesHolds(u)' = SeriesHolds(u)
    BY <2>1 DEF WritesAreCommitted, SeriesHolds, Writes, EffectOf, Busy, Sources
  <2>. QED
    BY <2>1, <2>2, FileStays DEF GtkInv, Shape, NoUpdateLostInSeries,
         CompletedInSeriesIsPersisted, Idle, WriteCompleted, WriteIsOnDisk
<1>. QED
  BY <1>1, <1>2, <1>3, <1>4, <1>5 DEF Next

LEMMA GtkInvariant == Spec => []GtkInv
  BY GtkInitially, StepKeepsGtkInv, PTL DEF Spec

\* No crash and no failing write puts a number into the file that the model never
\* had and nobody asked to store (dispatch!, execute-effect!, initial-model); no
\* order of the threads does either, while all of these numbers have one width.
THEOREM FileHoldsWhatWasStored == Spec => []PersistedWasCommitted
  BY GtkInvariant, PTL DEF GtkInv

\* Calls of dispatch! that do not overlap lose no event, whatever fails.
THEOREM SeriesLoseNothing == Spec => []NoUpdateLostInSeries
  BY GtkInvariant, PTL DEF GtkInv

\* After calls that do not overlap, a :completed write is on disk.
THEOREM CompletedSeriesIsOnDisk == Spec => []CompletedInSeriesIsPersisted
  BY GtkInvariant, PTL DEF GtkInv
==============================================================================
