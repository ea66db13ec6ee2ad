--------------------------- MODULE GalleryInput ---------------------------
(***************************************************************************)
(* The frames of the Raylib gallery from what Raylib reports: poll-input   *)
(* and advance-gallery of loop.clj, normalize-input of diagnostics.cljc,   *)
(* counter-event of app.cljc, gallery.cljc, and the scenes' own states.    *)
(* GalleryUI says what a pixel hits; Gallery is what a frame amounts to.   *)
(*                                                                         *)
(* Left out: Flappy Bird's state (FlappyBird), the frame counter of the    *)
(* placeholder scene, the ids of touches, the pupils of the eyes, which    *)
(* are drawn from the target, and the counters that only the log shows.    *)
(***************************************************************************)
EXTENDS Reducer, GalleryUI, SequencesExt

CONSTANTS
  Screens,      \* the sizes of the framebuffer, as <<width, height>>
  Points,       \* bound: the pixels a pointer may be at
  MaxTouches,   \* bound: the touches at once
  Gestures,     \* the gesture codes Raylib reports, with 0 for none
  MaxCounter,   \* bound: of the counter, either way
  maxPoints,    \* touch_trail.cljc: 64
  maxLog        \* gesture_diagnostics.cljc: 20

\* On smaller screens cards shrink to a pixel, and the counter's controls reach
\* up to the Back target.
ASSUME ScreensAssumption ==
  \A s \in Screens : /\ s \in (Nat \ 0..199) \X (Nat \ 0..199)
                     /\ s = screenMetrics(s[1], s[2])

ASSUME InputAssumption ==
  /\ Points \subseteq Int \X Int
  /\ MaxTouches \in Nat
  /\ 0 \in Gestures
  /\ maxPoints \in Nat \ {0} /\ maxLog \in Nat

VARIABLES
  gallery,   \* gallery-state
  app,       \* app-state
  opener     \* history: the input that opened the scene

vars == <<gallery, app, opener>>

SceneIds == <<"following-eyes", "touch-trail", "flappy-bird", "virtual-controls",
              "touch-diagnostics", "gesture-diagnostics">>

-----------------------------------------------------------------------------
(* diagnostics.cljc, loop.clj: from a sample of Raylib to a frame's input  *)
pointerPhase(raw) ==
  IF raw.pressed THEN "press"
  ELSE IF raw.released THEN "release"
  ELSE IF raw.down THEN "down"
  ELSE "idle"

\* A point is there if anything touches or the button changed or is down.
normalizeInput(raw) ==
  LET point == IF raw.touches > 0 \/ raw.pressed \/ raw.down \/ raw.released
               THEN raw.at ELSE <<>>
  IN  [screen |-> raw.screen, phase |-> pointerPhase(raw), point |-> point,
       touches |-> raw.touches, code |-> raw.code, activate |-> raw.enter,
       previous |-> raw.left, back |-> raw.back \/ raw.escape]

PointsOn(screen) == {p \in Points : p[1] < screen[1] /\ p[2] < screen[2]}

\* What Raylib may report: a touch counts as the button being down.
Samples(screen) ==
  {raw \in [screen : {screen}, touches : 0..MaxTouches, at : PointsOn(screen), pressed : BOOLEAN,
            down : BOOLEAN, released : BOOLEAN, code : Gestures, enter : BOOLEAN, left : BOOLEAN,
            escape : BOOLEAN, back : BOOLEAN] : raw.touches > 0 => raw.down}

pollInput(screen) == {normalizeInput(raw) : raw \in Samples(screen)}

\* Evaluated once.
InputsOf == [screen \in Screens |-> pollInput(screen)]

-----------------------------------------------------------------------------
(* The scenes: the state :init makes and what :update makes of it.         *)
NoState == [nil |-> TRUE]

touchView(input) ==
  [count |-> input.touches, pointZero |-> input.point,
   coordinates |-> IF input.point = <<>> THEN "none" ELSE "point-0", phase |-> input.phase]

placeholder(input) == [lastPhase |-> input.phase, lastPosition |-> input.point]

\* :neutral is the centre of the screen.
sceneInit(scene, input) ==
  CASE scene = "following-eyes"      ->
         [target |-> <<input.screen[1] \div 2, input.screen[2] \div 2>>, phase |-> "idle"]
    [] scene = "touch-trail"         -> [points |-> <<>>]
    [] scene = "flappy-bird"         -> [game |-> "flappy"]
    [] scene = "virtual-controls"    -> placeholder(input)
    [] scene = "touch-diagnostics"   -> touchView(input)
    [] scene = "gesture-diagnostics" -> [lastCode |-> 0, point |-> <<>>, log |-> <<>>]

takeLast(n, seq) == SubSeq(seq, larger(1, Len(seq) - n + 1), Len(seq))

updateEyes(state, input) ==
  [target |-> IF input.phase \in {"press", "down"} THEN input.point ELSE state.target,
   phase |-> input.phase]

trailStep(state, input) ==
  CASE input.phase = "press" -> [points |-> IF input.point = <<>> THEN <<>> ELSE <<input.point>>]
    [] input.phase = "down" /\ input.point # <<>> ->
         [points |-> takeLast(maxPoints, Append(state.points, input.point))]
    [] OTHER -> state

\* Mutant: the log is cut at its other end only once it is too long.
gestureStepUncut(state, input) ==
  LET new == input.code # 0 /\ input.code # state.lastCode
  IN  [lastCode |-> input.code, point |-> input.point,
       log |-> IF new THEN Append(takeLast(maxLog, state.log), input.code) ELSE state.log]

\* A gesture is logged when the code changes to it.
gestureStep(state, input) ==
  LET new == input.code # 0 /\ input.code # state.lastCode
  IN  [lastCode |-> input.code, point |-> input.point,
       log |-> IF new THEN takeLast(maxLog, Append(state.log, input.code)) ELSE state.log]

sceneUpdate(scene, state, input) ==
  CASE scene = "following-eyes"      -> updateEyes(state, input)
    [] scene = "touch-trail"         -> trailStep(state, input)
    [] scene = "flappy-bird"         -> state
    [] scene = "virtual-controls"    -> placeholder(input)
    [] scene = "touch-diagnostics"   -> touchView(input)
    [] scene = "gesture-diagnostics" -> gestureStep(state, input)

-----------------------------------------------------------------------------
(* gallery.cljc, and advance-gallery of loop.clj                           *)
openScene(state, scene, input) ==
  [state EXCEPT !.mode = "scene", !.active = scene, !.sceneState = sceneInit(scene, input),
                !.live[scene] = @ + 1, !.closeRequested = FALSE]

back(state) ==
  IF state.mode = "scene"
  THEN [state EXCEPT !.mode = "gallery", !.active = "nil", !.sceneState = NoState,
                     !.live[state.active] = @ - 1]
  ELSE [state EXCEPT !.closeRequested = TRUE]

\* A scene's :draw returns the state it was given.
runFrame(state, input) ==
  IF input.back THEN back(state)
  ELSE IF state.mode = "scene"
       THEN [state EXCEPT !.sceneState = sceneUpdate(state.active, @, input)]
       ELSE state

hitOf(state, input) == hitTest(input.screen, SceneIds, input.point, state.mode)

\* Mutant: the canvas Back target needs a press.
canvasBackPressed(state, input) ==
  state.mode = "scene" /\ hitOf(state, input) = "back" /\ input.phase = "press"

\* The Back target of a scene acts on a pointer in any phase.
canvasBack(state, input) == state.mode = "scene" /\ hitOf(state, input) = "back"

\* A card is opened by a press.
advanceGallery(state, polled) ==
  LET input == [polled EXCEPT !.back = @ \/ canvasBack(state, polled)]
      hit   == hitOf(state, input)
  IN  IF state.mode = "gallery" /\ ~input.back /\ input.phase = "press" /\ hit # "none"
      THEN openScene(state, hit, input)
      ELSE runFrame(state, input)

-----------------------------------------------------------------------------
(* app.cljc                                                                *)
\* Mutant: the mode the frame ends in.
modeAfter(state, input) == advanceGallery(state, input).mode

modeOf(state, input) == state.mode

controlAction(input) ==
  IF input.phase = "press" /\ input.point # <<>>
  THEN hitTestControls(input.screen, input.point) ELSE "none"

counterEvent(mode, input) ==
  LET action == controlAction(input)
  IN  IF mode # "scene" THEN "none"
      ELSE CASE action = "increment" -> "counter/inc"
             [] action = "decrement" -> "counter/dec"
             [] action = "reset"     -> "counter/reset"
             [] OTHER -> IF input.activate THEN "counter/inc"
                         ELSE IF input.previous THEN "counter/dec"
                         ELSE "none"

appStep(model, event) == IF event = "none" THEN model ELSE Step(model, Event(event)).model

-----------------------------------------------------------------------------
Nobody == [screen |-> <<>>, point |-> <<>>]

Init ==
  /\ gallery = [mode |-> "gallery", active |-> "nil", sceneState |-> NoState,
                live |-> [s \in ToSet(SceneIds) |-> 0], closeRequested |-> FALSE]
  /\ app = initialState
  /\ opener = Nobody

\* The screen may turn between any two frames.
Frame(input) ==
  /\ ~gallery.closeRequested
  /\ app' = appStep(app, counterEvent(modeOf(gallery, input), input))
  /\ app'.counter \in -MaxCounter..MaxCounter
  /\ gallery' = advanceGallery(gallery, input)
  /\ opener' = CASE gallery'.mode = "gallery" -> Nobody
                 [] gallery.mode = "gallery" /\ gallery'.mode = "scene" ->
                      [screen |-> input.screen, point |-> input.point]
                 [] OTHER -> opener

Next == \E screen \in Screens : \E input \in InputsOf[screen] : Frame(input)

Spec == Init /\ [][Next]_vars

-----------------------------------------------------------------------------
Pixels == Points \union {<<>>}
Phases == {"press", "release", "down", "idle"}

SceneStates(scene) ==
  CASE scene = "following-eyes"      ->
         [target : Points \union {<<s[1] \div 2, s[2] \div 2>> : s \in Screens}, phase : Phases]
    [] scene = "touch-trail"         -> [points : BoundedSeq(Points, maxPoints)]
    [] scene = "flappy-bird"         -> [game : {"flappy"}]
    [] scene = "virtual-controls"    -> [lastPhase : Phases, lastPosition : Pixels]
    [] scene = "touch-diagnostics"   -> [count : 0..MaxTouches, pointZero : Pixels,
                                         coordinates : {"none", "point-0"}, phase : Phases]
    [] scene = "gesture-diagnostics" -> [lastCode : Gestures, point : Pixels,
                                         log : BoundedSeq(Gestures \ {0}, maxLog)]

\* The state on the screen is one of the active scene, and within its bounds:
\* an eye always has a point to look at, a trail holds at most maxPoints and
\* the log at most maxLog, whatever is touched, turned and left.
SceneStateFits ==
  IF gallery.mode = "scene"
  THEN gallery.sceneState \in SceneStates(gallery.active)
  ELSE gallery.active = "nil" /\ gallery.sceneState = NoState

\* A finger that stays where it opened a scene does not leave it again,
\* although the canvas Back target needs no press (loop.clj:417-418): no card
\* lies where the scene has that target.
PressedSceneStays ==
  gallery.mode = "scene" =>
    \A input \in InputsOf[opener.screen] :
      input.point = opener.point /\ ~input.back =>
        advanceGallery(gallery, input).mode = "scene"

\* No point of the trail lies under the Back target, also after turning the
\* screen: a finger dragged onto it leaves before the scene is updated.
TrailKeepsClearOfBack ==
  gallery.active = "touch-trail" =>
    \A point \in ToSet(gallery.sceneState.points), screen \in Screens :
      ~containsPoint(BackTarget(screen), point)

\* A press on a card or a control means one thing only, on every screen: cards and
\* controls are on it, and clear of each other, of the margins, of the footer and of
\* the Back target, and the cards of the header.  Nothing is said of where the
\* Back target itself ends, nor of the lines of text in the placeholder.
LayoutIsSound ==
  \A screen \in Screens :
    IF gallery.mode = "gallery" THEN CardsAreSound(screen, Len(SceneIds))
    ELSE ControlsAreSound(screen)

-----------------------------------------------------------------------------
(* Each frame of pixels is one frame of Gallery.                           *)
SceneOf(state) ==
  IF state = NoState THEN "nil"
  ELSE CHOOSE scene \in ToSet(SceneIds) :
         DOMAIN state = DOMAIN sceneInit(scene, [screen |-> <<1, 1>>, point |-> <<>>,
                                                 phase |-> "idle", touches |-> 0])

Abstract == INSTANCE Gallery WITH
  Scenes  <- ToSet(SceneIds),
  gallery <- [gallery EXCEPT !.sceneState = SceneOf(gallery.sceneState)]

\* A press does one thing: it opens the scene of one card, or leaves a scene, or
\* counts.  One in the gallery, also where a scene would have a control, and
\* one that opens a scene does not count as well.
ImplementsGallery == Abstract!GallerySpec
=============================================================================
