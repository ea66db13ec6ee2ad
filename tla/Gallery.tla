------------------------------ MODULE Gallery ------------------------------
(***************************************************************************)
(* The gallery of the Raylib app as its host loop sees it: the scene       *)
(* lifecycle of gallery.cljc, the counter events of app.cljc and what      *)
(* advance-gallery (loop.clj) makes of one frame's input.  Where a press   *)
(* goes is part of the input; GalleryInput computes it from pixels and     *)
(* implements GallerySpec, RaylibHost puts the frames into the life of the *)
(* process.                                                                *)
(***************************************************************************)
EXTENDS Reducer

CONSTANT Scenes      \* the scene ids of the registry

ASSUME ScenesAssumption == "nil" \notin Scenes

VARIABLES
  gallery,   \* gallery-state
  app        \* app-state, the reducer's model

galleryVars == <<gallery, app>>

-----------------------------------------------------------------------------
(* Of :scene-events the model keeps, per scene, its :init events less its  *)
(* :dispose events; a scene's state is the scene that made it.             *)
initialGalleryState ==
  [mode |-> "gallery", active |-> "nil", sceneState |-> "nil",
   live |-> [s \in Scenes |-> 0], closeRequested |-> FALSE]

\* A frame's input: the Back key, what the pointer hits, and the keyboard's
\* counter key.  Cards and controls are hit by a press only, the Back target
\* of a scene by a pointer in any phase.
Controls == {"increment", "decrement", "reset"}
Inputs   == [back : BOOLEAN, hit : {"none", "back"} \union Controls \union Scenes,
             key : {"none", "activate", "previous"}]

openScene(state, scene) ==
  [state EXCEPT !.mode = "scene", !.active = scene, !.sceneState = scene,
                !.live[scene] = @ + 1, !.closeRequested = FALSE]

\* Mutant: Back leaves the scene without its :dispose.
backWithoutDispose(state) ==
  IF state.mode = "scene"
  THEN [state EXCEPT !.mode = "gallery", !.active = "nil", !.sceneState = "nil"]
  ELSE [state EXCEPT !.closeRequested = TRUE]

\* Mutant: Back asks the host to close from wherever it is pressed.
backCloses(state) == [state EXCEPT !.closeRequested = TRUE]

back(state) ==
  IF state.mode = "scene"
  THEN [state EXCEPT !.mode = "gallery", !.active = "nil", !.sceneState = "nil",
                     !.live[state.active] = @ - 1]
  ELSE [state EXCEPT !.closeRequested = TRUE]

\* advance-gallery: the Back key, or the canvas Back target of a scene, goes
\* before everything else; a press on a card opens its scene.
WantsBack(state, input) == input.back \/ (state.mode = "scene" /\ input.hit = "back")

advanceGallery(state, input) ==
  IF WantsBack(state, input) THEN back(state)
  ELSE IF state.mode = "gallery" /\ input.hit \in Scenes THEN openScene(state, input.hit)
  ELSE state

-----------------------------------------------------------------------------
(* app.cljc: the counter event of a frame, in the mode the frame began in. *)
ControlEvent(input) ==
  CASE input.hit = "increment" -> "counter/inc"
    [] input.hit = "decrement" -> "counter/dec"
    [] input.hit = "reset"     -> "counter/reset"
    [] OTHER -> CASE input.key = "activate" -> "counter/inc"
                  [] input.key = "previous" -> "counter/dec"
                  [] OTHER                  -> "none"

counterEvent(mode, input) == IF mode = "scene" THEN ControlEvent(input) ELSE "none"

appStep(model, event) == IF event = "none" THEN model ELSE Step(model, Event(event)).model

-----------------------------------------------------------------------------
GalleryInit == gallery = initialGalleryState /\ app = initialState

\* The pure part of a frame: the counter, then the gallery.
Frame(input) ==
  /\ app' = appStep(app, counterEvent(gallery.mode, input))
  /\ gallery' = advanceGallery(gallery, input)

GalleryNext == \E input \in Inputs : Frame(input)

GallerySpec == GalleryInit /\ [][GalleryNext]_galleryVars

-----------------------------------------------------------------------------
GalleryTypeOK ==
  gallery \in [mode : {"gallery", "scene"}, active : Scenes \union {"nil"},
               sceneState : Scenes \union {"nil"}, live : [Scenes -> Int],
               closeRequested : BOOLEAN]

\* The scene on the screen is the one scene that was initialised and not yet
\* disposed, and its update is never given the state of another: any series of
\* cards, canvas Backs and Back keys, also several in one frame, keeps :init
\* and :dispose paired (open-scene, back, advance-gallery).
ScenesArePaired ==
  \A s \in Scenes :
    gallery.live[s] = IF gallery.mode = "scene" /\ gallery.active = s /\ gallery.sceneState = s
                      THEN 1 ELSE 0
=============================================================================
