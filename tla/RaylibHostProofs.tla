-------------------------- MODULE RaylibHostProofs --------------------------
(***************************************************************************)
(* Scenes are paired in every frame of the gallery, for any set of scenes, *)
(* a loop that was left by Back left none alive, and every native program  *)
(* acquires and releases its layers in order and ends clean, for any       *)
(* bounds.                                                                 *)
(*                                                                         *)
(* Two invariants carry the first part: what the gallery's state is        *)
(* between frames, and that no native program enters the loop a second     *)
(* time: what is left to do after it, or after a failure, holds no loop.   *)
(*                                                                         *)
(* In the second part a program goes well from where it stands if each     *)
(* step it may still take is allowed on the layers it then holds and each  *)
(* end it may reach is clean.  That is shown once for each program, from   *)
(* its last step to its first; the invariant says that the process always  *)
(* goes well from where it stands, and a step of the process is a step of  *)
(* the program.                                                            *)
(***************************************************************************)
EXTENDS RaylibHost, SequenceTheorems, TLAPS

GalleryStates ==
  [mode : {"gallery", "scene"}, active : Scenes \union {"nil"},
   sceneState : Scenes \union {"nil"}, live : [Scenes -> Int], closeRequested : BOOLEAN]

\* What the gallery's state is between any two frames: a scene on the screen is
\* the one that is alive and no close was asked for in it.
Settled(state) ==
  /\ state \in GalleryStates
  /\ state.mode = "gallery" => \A s \in Scenes : state.live[s] = 0
  /\ state.mode = "scene" =>
       /\ state.active \in Scenes
       /\ state.sceneState = state.active
       /\ ~state.closeRequested
       /\ \A s \in Scenes : state.live[s] = IF s = state.active THEN 1 ELSE 0

LEMMA SettledInitially == Settled(initialGalleryState)
  BY DEF Settled, initialGalleryState, GalleryStates

LEMMA OpenSettles ==
  ASSUME NEW state, Settled(state), state.mode = "gallery", NEW scene \in Scenes
  PROVE  Settled(openScene(state, scene))
<1> DEFINE opened == openScene(state, scene)
           live   == [state.live EXCEPT ![scene] = state.live[scene] + 1]
<1>1. opened \in [mode : {"scene"}, active : {scene}, sceneState : {scene}, live : {live},
                  closeRequested : {FALSE}]
  <2>1. state \in [mode : {"gallery", "scene"}, active : Scenes \union {"nil"},
                   sceneState : Scenes \union {"nil"}, live : [Scenes -> Int],
                   closeRequested : BOOLEAN]
    BY DEF Settled, GalleryStates
  <2>. QED
    BY <2>1 DEF openScene
<1>2. live \in [Scenes -> Int]
  BY DEF Settled, GalleryStates
<1>3. \A s \in Scenes : live[s] = IF s = scene THEN 1 ELSE 0
  BY DEF Settled, GalleryStates
<1> HIDE DEF opened, live
<1>4. Settled(opened)
  BY <1>1, <1>2, <1>3 DEF Settled, GalleryStates
<1>. QED
  BY <1>4 DEF opened

LEMMA BackSettles ==
  ASSUME NEW state, Settled(state)
  PROVE  Settled(back(state))
<1> DEFINE left == back(state)
<1>1. CASE state.mode = "scene"
  <2> DEFINE live == [state.live EXCEPT ![state.active] = state.live[state.active] - 1]
  <2>0. left = [mode |-> "gallery", active |-> "nil", sceneState |-> "nil", live |-> live,
                closeRequested |-> state.closeRequested]
    BY <1>1 DEF Settled, GalleryStates, back
  <2>1. left \in GalleryStates
    <3>1. live \in [Scenes -> Int]
      BY <1>1 DEF Settled, GalleryStates
    <3>. QED
      BY <2>0, <3>1 DEF Settled, GalleryStates
  <2>2. left.mode = "gallery"
    BY <1>1 DEF Settled, GalleryStates, back
  <2>3. left.live = [state.live EXCEPT ![state.active] = state.live[state.active] - 1]
    BY <1>1 DEF Settled, GalleryStates, back
  <2>4. \A s \in Scenes : left.live[s] = 0
    BY <1>1, <2>3 DEF Settled, GalleryStates
  <2>. QED
    BY <2>1, <2>2, <2>4 DEF Settled
<1>2. CASE state.mode = "gallery"
  BY <1>2 DEF Settled, GalleryStates, back
<1>. QED
  BY <1>1, <1>2 DEF Settled, GalleryStates

LEMMA FrameSettles ==
  ASSUME NEW state, Settled(state), NEW input
  PROVE  Settled(advanceGallery(state, input))
  BY OpenSettles, BackSettles DEF advanceGallery

LEMMA SettledIsPaired == Settled(gallery) => ScenesArePaired /\ GalleryTypeOK
  BY DEF Settled, GalleryStates, ScenesArePaired, GalleryTypeOK

-----------------------------------------------------------------------------
(* The gallery alone                                                       *)

\* Any series of frames, with any inputs, keeps the :init and :dispose events
\* of the scenes paired (gallery.cljc open-scene and back).
THEOREM GalleryKeepsScenesPaired == GallerySpec => []ScenesArePaired
<1>1. GalleryInit => Settled(gallery)
  BY SettledInitially DEF GalleryInit
<1>2. Settled(gallery) /\ [GalleryNext]_galleryVars => Settled(gallery)'
  BY FrameSettles DEF GalleryNext, Frame, galleryVars
<1>. QED
  BY <1>1, <1>2, SettledIsPaired, PTL DEF GallerySpec

-----------------------------------------------------------------------------
(* The process                                                             *)

LEMMA OtherStepsKeepTheGallery ==
  [Next]_vars => UNCHANGED galleryVars \/ \E input \in Inputs : Frame(input)
  BY DEF Next, vars, frameVars, OwnerStep, StepMain, EnterLoop, StartNrepl, OpenWindow,
         SkipOwnerWork, StartOwnerWork, FinishOwnerWork, UpdateFrame, FrameThrows,
         CloseWindow, StopNrepl, ReturnToMain, Abort, SubmitOwnerWork, galleryVars

\* The gallery is settled in the whole life of the process, between any steps.
LEMMA GalleryIsSettled == Spec => []Settled(gallery)
<1>1. Init => Settled(gallery)
  BY SettledInitially DEF Init, GalleryInit
<1>2. Settled(gallery) /\ [Next]_vars => Settled(gallery)'
  BY OtherStepsKeepTheGallery, FrameSettles DEF Frame, galleryVars
<1>. QED
  BY <1>1, <1>2, PTL DEF Spec

\* In the whole process, with its owner work, exceptions and time limit, the
\* scene on the screen is the one that was initialised and not disposed.
THEOREM ScenesStayPaired == Spec => []ScenesArePaired
  BY GalleryIsSettled, SettledIsPaired, PTL

-----------------------------------------------------------------------------
(* The ending by Back                                                      *)

IsSequence(s) == \E S : s \in Seq(S)

\* Steps that cannot fail, and are not the loop.
Flat(s) == IsSequence(s) /\ \A i \in 1..Len(s) : s[i].does # "loop" /\ s[i].orElse = <<>>

\* No loop is ahead, whatever fails.
NoLoop(s) == IsSequence(s) /\ \A i \in 1..Len(s) : s[i].does # "loop" /\ Flat(s[i].orElse)

\* At most one loop is ahead, and none after a failure.
OneLoop(s) ==
  /\ IsSequence(s)
  /\ \A i \in 1..Len(s) : Flat(s[i].orElse)
  /\ \A i, j \in 1..Len(s) : i < j /\ s[i].does = "loop" => s[j].does # "loop"

LEMMA EmptyIsFlat == Flat(<<>>)
<1>1. <<>> \in Seq({})
  OBVIOUS
<1>. QED
  BY <1>1 DEF Flat, IsSequence

LEMMA FlatIsNoLoop == ASSUME NEW s, Flat(s) PROVE NoLoop(s)
  BY EmptyIsFlat DEF NoLoop, Flat

LEMMA NoLoopIsOneLoop == ASSUME NEW s, NoLoop(s) PROVE OneLoop(s)
  BY DEF NoLoop, OneLoop

LEMMA TuplesAreSequences ==
  ASSUME NEW a, NEW b, NEW c
  PROVE  IsSequence(<<a>>) /\ IsSequence(<<a, b>>) /\ IsSequence(<<a, b, c>>)
<1>1. <<a>> \in Seq({a}) /\ <<a, b>> \in Seq({a, b}) /\ <<a, b, c>> \in Seq({a, b, c})
  OBVIOUS
<1>2. IsSequence(<<a>>)
  <2>1. \E S : <<a>> \in Seq(S)
    BY <1>1, Zenon
  <2>. QED
    BY <2>1, Zenon DEF IsSequence
<1>3. IsSequence(<<a, b, c>>)
  <2>1. \E S : <<a, b, c>> \in Seq(S)
    BY <1>1, Zenon
  <2>. QED
    BY <2>1, Zenon DEF IsSequence
<1>4. IsSequence(<<a, b>>)
  <2>1. \E S : <<a, b>> \in Seq(S)
    BY <1>1, Zenon
  <2>. QED
    BY <2>1, Zenon DEF IsSequence
<1>. QED
  BY <1>2, <1>3, <1>4

LEMMA UndoIsFlat == ASSUME NEW code PROVE Flat(Undo(code))
<1> DEFINE first == Do("shutdown")  second == Do("dlclose")  third == Return(code)
<1>1. /\ first.does = "shutdown" /\ first.orElse = <<>>
      /\ second.does = "dlclose" /\ second.orElse = <<>>
      /\ third.does = "return" /\ third.orElse = <<>>
  BY DEF Do, Try, Return
<1>2. Undo(code) = <<first, second, third>>
  BY DEF Undo
<1> HIDE DEF first, second, third
<1>3. \A i \in 1..Len(<<first, second, third>>) :
        LET step == <<first, second, third>>[i] IN step.does # "loop" /\ step.orElse = <<>>
  BY <1>1
<1>. QED
  BY <1>2, <1>3, TuplesAreSequences DEF Flat

LEMMA ReturnIsFlat == ASSUME NEW code PROVE Flat(<<Return(code)>>)
<1> DEFINE only == Return(code)
<1>1. only.does = "return" /\ only.orElse = <<>>
  BY DEF Return
<1> HIDE DEF only
<1>2. \A i \in 1..Len(<<only>>) : <<only>>[i].does # "loop" /\ <<only>>[i].orElse = <<>>
  BY <1>1
<1>3. Flat(<<only>>)
  BY <1>2, TuplesAreSequences DEF Flat
<1>. QED
  BY <1>3 DEF only

LEMMA Joined ==
  ASSUME NEW s, NEW t, IsSequence(s), IsSequence(t)
  PROVE  IsSequence(s \o t)
<1>1. PICK S, T : s \in Seq(S) /\ t \in Seq(T)
  BY DEF IsSequence
<1>2. s \in Seq(S \union T) /\ t \in Seq(S \union T)
  BY <1>1
<1>. QED
  BY <1>2 DEF IsSequence

LEMMA NoLoopJoined ==
  ASSUME NEW s, NEW t, NoLoop(s), NoLoop(t)
  PROVE  NoLoop(s \o t)
<1>1. PICK S, T : s \in Seq(S) /\ t \in Seq(T)
  BY DEF NoLoop, IsSequence
<1>2. s \in Seq(S \union T) /\ t \in Seq(S \union T)
  BY <1>1
<1>. QED
  BY <1>2, Joined DEF NoLoop

LEMMA LoopJoined ==
  ASSUME NEW s, NEW t, NoLoop(s), NoLoop(t), NEW orElse, Flat(orElse)
  PROVE  OneLoop((s \o <<Try("loop", orElse)>>) \o t)
<1> DEFINE step == Try("loop", orElse)
           all  == (s \o <<step>>) \o t
<1>1. PICK S, T : s \in Seq(S) /\ t \in Seq(T)
  BY DEF NoLoop, IsSequence
<1> DEFINE U == (S \union T) \union {step}
<1>2. s \in Seq(U) /\ t \in Seq(U) /\ step \in U
  BY <1>1
<1>3. step.orElse = orElse
  BY DEF Try
<1> HIDE DEF U, step
<1>4. all \in Seq(U) /\ Len(all) = Len(s) + 1 + Len(t)
  BY <1>2
<1>5. \A i \in 1..Len(s) : all[i] = s[i]
  BY <1>2
<1>6. all[Len(s) + 1] = step
  BY <1>2
<1>7. \A j \in 1..Len(t) : all[Len(s) + 1 + j] = t[j]
  BY <1>2
<1>8. \A i \in 1..Len(all) :
        \/ i \in 1..Len(s)
        \/ i = Len(s) + 1
        \/ \E j \in 1..Len(t) : i = Len(s) + 1 + j
  <2>1. TAKE i \in 1..Len(all)
  <2>2. CASE i > Len(s) + 1
    <3>1. i - (Len(s) + 1) \in 1..Len(t)
      BY <1>2, <1>4, <2>2
    <3>2. i = Len(s) + 1 + (i - (Len(s) + 1))
      BY <1>2
    <3>. QED
      BY <3>1, <3>2
  <2>. QED
    BY <1>2, <2>2
<1> HIDE DEF all
<1>9. \A i \in 1..Len(all) : Flat(all[i].orElse)
  BY <1>3, <1>5, <1>6, <1>7, <1>8 DEF NoLoop
<1>10. \A i \in 1..Len(all) : all[i].does = "loop" => i = Len(s) + 1
  BY <1>5, <1>7, <1>8 DEF NoLoop
<1>. QED
  BY <1>4, <1>9, <1>10 DEF OneLoop, IsSequence, all, step

LEMMA TryIsNoLoop ==
  ASSUME NEW does, does # "loop", NEW orElse, Flat(orElse)
  PROVE  NoLoop(<<Try(does, orElse)>>)
<1> DEFINE only == Try(does, orElse)
<1>1. only.does = does /\ only.orElse = orElse
  BY DEF Try
<1> HIDE DEF only
<1>2. \A i \in 1..Len(<<only>>) : <<only>>[i].does # "loop" /\ Flat(<<only>>[i].orElse)
  BY <1>1
<1>3. NoLoop(<<only>>)
  BY <1>2, TuplesAreSequences DEF NoLoop
<1>. QED
  BY <1>3 DEF only

LEMMA ThreeTriesAreNoLoop ==
  ASSUME NEW a, a # "loop", NEW f, Flat(f), NEW b, b # "loop", NEW g, Flat(g),
         NEW c, c # "loop", NEW h, Flat(h)
  PROVE  NoLoop(<<Try(a, f), Try(b, g), Try(c, h)>>)
<1> DEFINE first == Try(a, f)  second == Try(b, g)  third == Try(c, h)
<1>1. /\ first.does = a /\ first.orElse = f
      /\ second.does = b /\ second.orElse = g
      /\ third.does = c /\ third.orElse = h
  BY DEF Try
<1> HIDE DEF first, second, third
<1>2. \A i \in 1..Len(<<first, second, third>>) :
        LET step == <<first, second, third>>[i] IN step.does # "loop" /\ Flat(step.orElse)
  BY <1>1
<1>3. NoLoop(<<first, second, third>>)
  BY <1>2, TuplesAreSequences DEF NoLoop
<1>. QED
  BY <1>3 DEF first, second, third

LEMMA CloseAndReturnIsFlat == ASSUME NEW code PROVE Flat(<<Do("dlclose"), Return(code)>>)
<1> DEFINE first == Do("dlclose")  second == Return(code)
<1>1. /\ first.does = "dlclose" /\ first.orElse = <<>>
      /\ second.does = "return" /\ second.orElse = <<>>
  BY DEF Do, Try, Return
<1> HIDE DEF first, second
<1>2. \A i \in 1..Len(<<first, second>>) :
        LET step == <<first, second>>[i] IN step.does # "loop" /\ step.orElse = <<>>
  BY <1>1
<1>3. Flat(<<first, second>>)
  BY <1>2, TuplesAreSequences DEF Flat
<1>. QED
  BY <1>3 DEF first, second

\* Neither gallery has a second loop, or one on the path of a failure.
LEMMA GalleriesHaveOneLoop == ASSUME NEW d \in BOOLEAN PROVE OneLoop(GalleryMain(d))
<1> DEFINE socket   == <<Do("probeSocket")>>
           lookups  == <<Try("lookupProbes", Undo(4)), Try("lookupVerify", Undo(4)),
                         Try("verify", <<Return(Aborted)>>)>>
           noDebug  == IF d THEN <<>> ELSE <<Try("missDebugLoop", Undo(6))>>
           lookup   == <<Try("lookup", Undo(4))>>
           loop     == <<Try("loop", Undo(5))>>
<1>1. NoLoop(socket)
  BY EmptyIsFlat, TryIsNoLoop DEF Do
<1>2. NoLoop(BringUp)
  BY ThreeTriesAreNoLoop, ReturnIsFlat, CloseAndReturnIsFlat DEF BringUp
<1>3. NoLoop(lookups)
  BY ThreeTriesAreNoLoop, ReturnIsFlat, UndoIsFlat
<1>4. NoLoop(noDebug)
  BY TryIsNoLoop, UndoIsFlat, EmptyIsFlat, FlatIsNoLoop
<1>5. NoLoop(lookup)
  BY TryIsNoLoop, UndoIsFlat
<1>6. NoLoop(Undo(0))
  BY UndoIsFlat, FlatIsNoLoop
<1>7. GalleryMain(d) = ((((((socket \o BringUp) \o lookups) \o noDebug) \o lookup) \o loop) \o Undo(0))
  BY DEF GalleryMain
<1> HIDE DEF socket, lookups, noDebug, lookup
<1>8. NoLoop((((socket \o BringUp) \o lookups) \o noDebug) \o lookup)
  BY <1>1, <1>2, <1>3, <1>4, <1>5, NoLoopJoined
<1>. QED
  BY <1>6, <1>7, <1>8, LoopJoined, UndoIsFlat

LEMMA InitiallyOneLoop == BootstrapInit /\ program \in Galleries => OneLoop(todo)
  BY GalleriesHaveOneLoop DEF BootstrapInit, StepsOf, Galleries

\* One step on, in a program with a loop ahead and in one without.
LEMMA HeadAndTail ==
  ASSUME NEW s, IsSequence(s), s # <<>>
  PROVE  /\ Len(s) \in Nat /\ 1 \in 1..Len(s) /\ Head(s) = s[1]
         /\ IsSequence(Tail(s)) /\ Len(Tail(s)) = Len(s) - 1
         /\ \A i \in 1..Len(Tail(s)) : i + 1 \in 1..Len(s) /\ Tail(s)[i] = s[i + 1]
<1>1. PICK S : s \in Seq(S)
  BY DEF IsSequence
<1>2. Tail(s) \in Seq(S)
  BY <1>1
<1>3. IsSequence(Tail(s))
  BY <1>2 DEF IsSequence
<1>. QED
  BY <1>1, <1>3

LEMMA OneLoopGoesOn ==
  ASSUME NEW s, OneLoop(s), s # <<>>
  PROVE  /\ OneLoop(Tail(s)) /\ Flat(Head(s).orElse)
         /\ Head(s).does = "loop" => NoLoop(Tail(s))
<1>1. IsSequence(s)
  BY DEF OneLoop
<1>2. \A i \in 1..Len(Tail(s)) : Flat(Tail(s)[i].orElse)
  BY <1>1, HeadAndTail DEF OneLoop
<1>3. \A i, j \in 1..Len(Tail(s)) :
        i < j /\ Tail(s)[i].does = "loop" => Tail(s)[j].does # "loop"
  BY <1>1, HeadAndTail DEF OneLoop
<1>4. Flat(Head(s).orElse)
  BY <1>1, HeadAndTail DEF OneLoop
<1>5. ASSUME Head(s).does = "loop"
      PROVE  \A i \in 1..Len(Tail(s)) : Tail(s)[i].does # "loop"
  BY <1>1, <1>5, HeadAndTail DEF OneLoop
<1>. QED
  BY <1>1, <1>2, <1>3, <1>4, <1>5, HeadAndTail DEF OneLoop, NoLoop

LEMMA NoLoopGoesOn ==
  ASSUME NEW s, NoLoop(s), s # <<>>
  PROVE  NoLoop(Tail(s)) /\ Flat(Head(s).orElse) /\ Head(s).does # "loop"
<1>1. IsSequence(s)
  BY DEF NoLoop
<1>. QED
  BY <1>1, HeadAndTail DEF NoLoop

\* What the places know of the way the loop was left.
Once ==
  /\ program \in Galleries => OneLoop(todo)
  /\ at # "main" => program \in Galleries /\ Doing("loop")
  /\ ending # "none" => at \in {"finally", "stop", "returned", "main"}
  /\ ending # "none" /\ at = "main" => program \in Galleries /\ NoLoop(todo)
  /\ ending = "close" => gallery.mode = "gallery"

LEMMA OnceInitially == Init => Once
  BY InitiallyOneLoop DEF Init, Once

LEMMA MainKeepsOnce == ASSUME Once, StepMain PROVE Once'
<1>1. at = "main" /\ UNCHANGED <<at, program, ending, gallery>>
  BY DEF StepMain, BootstrapStep, Succeed, Fail, ReturnFromMain, frameVars, galleryVars
<1>2. ASSUME program \in Galleries PROVE OneLoop(todo')
  <2>0. OneLoop(todo)
    BY <1>2 DEF Once
  <2>1. CASE Succeed
    BY <2>0, <2>1, OneLoopGoesOn DEF Succeed
  <2>2. CASE Fail
    BY <2>0, <2>2, OneLoopGoesOn, FlatIsNoLoop, NoLoopIsOneLoop DEF Fail
  <2>3. CASE ReturnFromMain
    BY <2>3, EmptyIsFlat, FlatIsNoLoop, NoLoopIsOneLoop DEF ReturnFromMain
  <2>. QED
    BY <2>1, <2>2, <2>3 DEF StepMain, BootstrapStep
<1>3. ASSUME ending # "none" PROVE program \in Galleries /\ NoLoop(todo')
  <2>0. program \in Galleries /\ NoLoop(todo)
    BY <1>1, <1>3 DEF Once
  <2>1. CASE Succeed
    BY <2>0, <2>1, NoLoopGoesOn DEF Succeed
  <2>2. CASE Fail
    BY <2>0, <2>2, NoLoopGoesOn, FlatIsNoLoop DEF Fail
  <2>3. CASE ReturnFromMain
    BY <2>0, <2>3, EmptyIsFlat, FlatIsNoLoop DEF ReturnFromMain
  <2>. QED
    BY <2>0, <2>1, <2>2, <2>3 DEF StepMain, BootstrapStep
<1>. QED
  BY <1>1, <1>2, <1>3 DEF Once

\* A program that stands before its loop has not been through it.
LEMMA EnteringKeepsOnce == ASSUME Once, EnterLoop PROVE Once'
<1>1. ending = "none"
  BY NoLoopGoesOn DEF Once, EnterLoop, Doing
<1>. QED
  BY <1>1 DEF Once, EnterLoop, Doing, bootstrapVars, frameVars, galleryVars, debug

LEMMA ReturningKeepsOnce == ASSUME Once, ReturnToMain \/ Abort PROVE Once'
<1>1. at = "returned" /\ at' = "main" /\ UNCHANGED <<program, ending, gallery>>
  BY DEF ReturnToMain, Abort, frameVars, galleryVars
<1>2. program \in Galleries /\ OneLoop(todo) /\ Doing("loop")
  BY <1>1 DEF Once
<1>3. NoLoop(todo')
  <2>1. CASE ReturnToMain
    BY <1>2, <2>1, OneLoopGoesOn, FlatIsNoLoop DEF ReturnToMain, Doing
  <2>2. CASE Abort
    BY <2>2, ReturnIsFlat, FlatIsNoLoop DEF Abort
  <2>. QED
    BY <2>1, <2>2
<1>. QED
  BY <1>1, <1>2, <1>3, NoLoopIsOneLoop DEF Once

\* Back asks for the close in the gallery only.
LEMMA UpdateKeepsOnce ==
  ASSUME Once, Settled(gallery), NEW input \in Inputs, UpdateFrame(input)
  PROVE  Once'
<1>1. Settled(gallery')
  BY FrameSettles DEF UpdateFrame, Frame
<1>2. at = "update" /\ at' \in {"owner", "finally"} /\ UNCHANGED <<program, todo>>
  BY DEF UpdateFrame, bootstrapVars
<1>3. ending = "none"
  BY <1>2 DEF Once
<1>4. ending' # "none" => at' = "finally"
  BY <1>3 DEF UpdateFrame
<1>5. ending' = "close" => gallery'.mode = "gallery"
  BY <1>1, <1>3 DEF UpdateFrame, Settled, GalleryStates
<1>. QED
  BY <1>2, <1>4, <1>5 DEF Once, Doing

LEMMA StepKeepsOnce == Once /\ Settled(gallery) /\ [Next]_vars => Once'
<1> SUFFICES ASSUME Once, Settled(gallery), [Next]_vars
             PROVE  Once'
  OBVIOUS
<1>1. CASE StepMain
  BY <1>1, MainKeepsOnce
<1>2. CASE EnterLoop
  BY <1>2, EnteringKeepsOnce
<1>3. CASE ReturnToMain \/ Abort
  BY <1>3, ReturningKeepsOnce
<1>4. CASE \E input \in Inputs : UpdateFrame(input)
  BY <1>4, UpdateKeepsOnce
<1>5. CASE StartNrepl \/ OpenWindow
  BY <1>5 DEF Once, StartNrepl, OpenWindow, bootstrapVars, frameVars, galleryVars, Doing
<1>6. CASE SkipOwnerWork \/ StartOwnerWork \/ FinishOwnerWork \/ SubmitOwnerWork
  BY <1>6 DEF Once, SkipOwnerWork, StartOwnerWork, FinishOwnerWork, SubmitOwnerWork,
              bootstrapVars, frameVars, galleryVars, Doing
<1>7. CASE FrameThrows
  BY <1>7 DEF Once, FrameThrows, bootstrapVars, galleryVars, Doing
<1>8. CASE CloseWindow \/ StopNrepl
  BY <1>8 DEF Once, CloseWindow, StopNrepl, bootstrapVars, frameVars, galleryVars, Doing
<1>9. CASE UNCHANGED vars
  BY <1>9 DEF Once, vars, bootstrapVars, frameVars, galleryVars, Doing
<1>. QED
  BY <1>1, <1>2, <1>3, <1>4, <1>5, <1>6, <1>7, <1>8, <1>9 DEF Next, OwnerStep

\* A loop that was left by Back has disposed of every scene that it had
\* initialised, whatever was thrown, submitted or slow before (run-loop).
THEOREM BackDisposes == Spec => []OrderlyCloseDisposes
<1>1. Once /\ Settled(gallery) => OrderlyCloseDisposes
  BY DEF Once, Settled, OrderlyCloseDisposes
<1>. QED
  BY <1>1, OnceInitially, StepKeepsOnce, GalleryIsSettled, PTL DEF Spec


-----------------------------------------------------------------------------
(* Programs that go well                                                   *)

\* The layers that are held after a step.
After(does, held) ==
  IF does \in DOMAIN Acquires THEN held \union {Acquires[does]}
  ELSE IF does \in DOMAIN Releases THEN held \ {Releases[does]}
  ELSE held

\* Nothing is acquired twice, nothing released that is not held.
Allowed(does, held) ==
  /\ does \in DOMAIN Acquires => Acquires[does] \notin held
  /\ does \in DOMAIN Releases => Releases[does] \in held

\* LayersAreNested; and the window of a gallery is its loop's business.
Nested(p, held) ==
  /\ held \subseteq Layers
  /\ "window" \in held /\ p # "plain" => "runtime" \in held
  /\ "runtime" \in held /\ p # "chez answer" => "library" \in held
  /\ p \in Galleries => "window" \notin held

\* EndIsClean, of a program that returns code; shown is 1 if the loop had a frame.
CleanEnd(p, code, held, shown) ==
  /\ code \in -1..6 \union {42, Aborted}
  /\ "window" \notin held
  /\ code # Aborted /\ p \in TidyMains => held = {}
  /\ code = 0 => "runtime" \notin held /\ (p \in Galleries => shown = 1)
  /\ code = 42 => "petite path" \notin held /\ "scheme path" \notin held

InTheLoop == {"library", "runtime"}

\* A situation is <<what is left to do, the layers held, shown>>.  The next step
\* from it is right, and leads to a situation in G.
StepIsRight(p, s, held, shown, G) ==
  /\ IsSequence(s)
  /\ Nested(p, held)
  /\ s # <<>> =>
       /\ Head(s).does = "return" =>
            Head(s).orElse = <<>> /\ CleanEnd(p, Head(s).code, held, shown)
       /\ Head(s).does = "loop" =>
            /\ p \in Galleries
            /\ held = InTheLoop
            /\ <<Tail(s), held, 1>> \in G
            /\ <<Head(s).orElse, held, 0>> \in G
       /\ Head(s).does \notin {"return", "loop"} =>
            /\ Allowed(Head(s).does, held)
            /\ <<Tail(s), After(Head(s).does, held), shown>> \in G
            /\ Head(s).orElse # <<>> => <<Head(s).orElse, held, shown>> \in G

Closed(p, G) == \A s, held, shown : <<s, held, shown>> \in G => StepIsRight(p, s, held, shown, G)

GoesWell(p, s, held, shown) == \E G : <<s, held, shown>> \in G /\ Closed(p, G)

\* What goes well goes well after its next step.
LEMMA GoesOnWell ==
  ASSUME NEW p, NEW s, NEW held, NEW shown, GoesWell(p, s, held, shown)
  PROVE  /\ IsSequence(s) /\ Nested(p, held)
         /\ s # <<>> =>
              /\ Head(s).does = "return" =>
                   Head(s).orElse = <<>> /\ CleanEnd(p, Head(s).code, held, shown)
              /\ Head(s).does = "loop" =>
                   /\ p \in Galleries
                   /\ held = InTheLoop
                   /\ GoesWell(p, Tail(s), held, 1)
                   /\ GoesWell(p, Head(s).orElse, held, 0)
              /\ Head(s).does \notin {"return", "loop"} =>
                   /\ Allowed(Head(s).does, held)
                   /\ GoesWell(p, Tail(s), After(Head(s).does, held), shown)
                   /\ Head(s).orElse # <<>> => GoesWell(p, Head(s).orElse, held, shown)
<1>1. PICK G : <<s, held, shown>> \in G /\ Closed(p, G)
  BY DEF GoesWell
<1>2. StepIsRight(p, s, held, shown, G)
  BY <1>1 DEF Closed
<1>3. \A t, h, f : <<t, h, f>> \in G => GoesWell(p, t, h, f)
  BY <1>1 DEF GoesWell
<1>. QED
  BY <1>2, <1>3 DEF StepIsRight

\* Situations may be added to those that go well.
LEMMA RightInMore ==
  ASSUME NEW p, NEW s, NEW held, NEW shown, NEW G, NEW H, G \subseteq H,
         StepIsRight(p, s, held, shown, G)
  PROVE  StepIsRight(p, s, held, shown, H)
  BY DEF StepIsRight

LEMMA ClosedTogether ==
  ASSUME NEW p, NEW G, NEW H, Closed(p, G), Closed(p, H)
  PROVE  Closed(p, G \union H)
  BY RightInMore DEF Closed

\* A step goes well before what goes well.
LEMMA WellBefore ==
  ASSUME NEW p, NEW s, NEW held, NEW shown, NEW G,
         Closed(p, G), StepIsRight(p, s, held, shown, G)
  PROVE  GoesWell(p, s, held, shown)
<1> DEFINE H == G \union {<<s, held, shown>>}
<1>1. Closed(p, H)
  <2> SUFFICES ASSUME NEW t, NEW h, NEW f, <<t, h, f>> \in H
               PROVE  StepIsRight(p, t, h, f, H)
    BY DEF Closed
  <2>1. StepIsRight(p, t, h, f, G)
    BY DEF Closed
  <2>. QED
    BY <2>1, RightInMore
<1>. QED
  BY <1>1 DEF GoesWell

\* One step, then the rest: the form in which programs are taken apart.
Then(step, rest) == <<step>> \o rest

LEMMA OneThenRest ==
  ASSUME NEW step, NEW rest, IsSequence(rest)
  PROVE  /\ IsSequence(Then(step, rest)) /\ Then(step, rest) # <<>>
         /\ Head(Then(step, rest)) = step /\ Tail(Then(step, rest)) = rest
<1>1. PICK S : rest \in Seq(S)
  BY DEF IsSequence
<1> DEFINE T == S \union {step}
<1>2. rest \in Seq(T) /\ <<step>> \in Seq(T)
  BY <1>1
<1>3. IsSequence(<<step>> \o rest)
  BY Joined, TuplesAreSequences
<1>. QED
  BY <1>2, <1>3 DEF Then

\* A step that may fail goes well before what goes well, if its failure does.
LEMMA TryGoesWell ==
  ASSUME NEW p, NEW held, NEW shown, Nested(p, held),
         NEW does, does \notin {"return", "loop"}, Allowed(does, held),
         NEW orElse, GoesWell(p, orElse, held, shown),
         NEW next, After(does, held) = next,
         NEW rest, GoesWell(p, rest, next, shown)
  PROVE  GoesWell(p, Then(Try(does, orElse), rest), held, shown)
<1> DEFINE s == Then(Try(does, orElse), rest)
<1>1. IsSequence(rest)
  BY GoesOnWell
<1>2. IsSequence(s) /\ s # <<>> /\ Head(s) = Try(does, orElse) /\ Tail(s) = rest
  BY <1>1, OneThenRest
<1>3. Head(s).does = does /\ Head(s).orElse = orElse
  BY <1>2 DEF Try
<1> HIDE DEF s
<1>4. PICK G : <<rest, next, shown>> \in G /\ Closed(p, G)
  BY DEF GoesWell
<1>5. PICK H : <<orElse, held, shown>> \in H /\ Closed(p, H)
  BY DEF GoesWell
<1>6. Closed(p, G \union H)
  BY <1>4, <1>5, ClosedTogether
<1>7. StepIsRight(p, s, held, shown, G \union H)
  BY <1>2, <1>3, <1>4, <1>5 DEF StepIsRight
<1>8. GoesWell(p, s, held, shown)
  BY <1>6, <1>7, WellBefore
<1>. QED
  BY <1>8 DEF s

\* A step that cannot fail.
LEMMA DoGoesWell ==
  ASSUME NEW p, NEW held, NEW shown, Nested(p, held),
         NEW does, does \notin {"return", "loop"}, Allowed(does, held),
         NEW next, After(does, held) = next,
         NEW rest, GoesWell(p, rest, next, shown)
  PROVE  GoesWell(p, Then(Do(does), rest), held, shown)
<1> DEFINE s == Then(Do(does), rest)
<1>1. IsSequence(rest)
  BY GoesOnWell
<1>2. IsSequence(s) /\ s # <<>> /\ Head(s) = Do(does) /\ Tail(s) = rest
  BY <1>1, OneThenRest
<1>3. Head(s).does = does /\ Head(s).orElse = <<>>
  BY <1>2 DEF Do, Try
<1> HIDE DEF s
<1>4. PICK G : <<rest, next, shown>> \in G /\ Closed(p, G)
  BY DEF GoesWell
<1>5. StepIsRight(p, s, held, shown, G)
  BY <1>2, <1>3, <1>4 DEF StepIsRight
<1>6. GoesWell(p, s, held, shown)
  BY <1>4, <1>5, WellBefore
<1>. QED
  BY <1>6 DEF s

LEMMA LoopGoesWell ==
  ASSUME NEW p \in Galleries, NEW shown, Nested(p, InTheLoop),
         NEW orElse, GoesWell(p, orElse, InTheLoop, 0),
         NEW rest, GoesWell(p, rest, InTheLoop, 1)
  PROVE  GoesWell(p, Then(Try("loop", orElse), rest), InTheLoop, shown)
<1> DEFINE s == Then(Try("loop", orElse), rest)
<1>1. IsSequence(rest)
  BY GoesOnWell
<1>2. IsSequence(s) /\ s # <<>> /\ Head(s) = Try("loop", orElse) /\ Tail(s) = rest
  BY <1>1, OneThenRest
<1>3. Head(s).does = "loop" /\ Head(s).orElse = orElse
  BY <1>2 DEF Try
<1> HIDE DEF s
<1>4. PICK G : <<rest, InTheLoop, 1>> \in G /\ Closed(p, G)
  BY DEF GoesWell
<1>5. PICK H : <<orElse, InTheLoop, 0>> \in H /\ Closed(p, H)
  BY DEF GoesWell
<1>6. Closed(p, G \union H)
  BY <1>4, <1>5, ClosedTogether
<1>7. StepIsRight(p, s, InTheLoop, shown, G \union H)
  BY <1>2, <1>3, <1>4, <1>5 DEF StepIsRight
<1>8. GoesWell(p, s, InTheLoop, shown)
  BY <1>6, <1>7, WellBefore
<1>. QED
  BY <1>8 DEF s

LEMMA ReturnGoesWell ==
  ASSUME NEW p, NEW held, NEW shown, Nested(p, held),
         NEW code, CleanEnd(p, code, held, shown)
  PROVE  GoesWell(p, <<Return(code)>>, held, shown)
<1> DEFINE step == Return(code)
           s    == <<step>>
<1>0. IsSequence(s)
  BY TuplesAreSequences
<1> HIDE DEF step
<1>1. IsSequence(s) /\ s # <<>> /\ Head(s) = step
  BY <1>0
<1>2. Head(s).does = "return" /\ Head(s).orElse = <<>> /\ Head(s).code = code
  BY <1>1 DEF Return, step
<1> HIDE DEF s
<1>3. Closed(p, {})
  BY DEF Closed
<1>4. StepIsRight(p, s, held, shown, {})
  BY <1>1, <1>2 DEF StepIsRight
<1>5. GoesWell(p, s, held, shown)
  BY <1>3, <1>4, WellBefore
<1>. QED
  BY <1>5 DEF s, step

-----------------------------------------------------------------------------
(* The steps of the programs                                               *)

\* Steps that neither acquire nor release.
Passive == {"symbols", "lookup", "answer", "directWidth", "frames", "unwind", "probeSocket",
            "lookupProbes", "lookupVerify", "verify", "missDebugLoop", "usage", "allocate",
            "registerBootFiles", "buildHeap", "call"}

LEMMA PassiveLeavesTheLayers ==
  ASSUME NEW does, does \in Passive, NEW held
  PROVE  /\ does \notin {"return", "loop"}
         /\ After(does, held) = held /\ Allowed(does, held)
  BY DEF Passive, After, Allowed, Acquires, Releases

LEMMA PassiveTryGoesWell ==
  ASSUME NEW p, NEW held, NEW shown, NEW does, does \in Passive,
         NEW orElse, GoesWell(p, orElse, held, shown),
         NEW rest, GoesWell(p, rest, held, shown)
  PROVE  GoesWell(p, Then(Try(does, orElse), rest), held, shown)
  BY PassiveLeavesTheLayers, TryGoesWell, GoesOnWell

LEMMA PassiveDoGoesWell ==
  ASSUME NEW p, NEW held, NEW shown, NEW does, does \in Passive,
         NEW rest, GoesWell(p, rest, held, shown)
  PROVE  GoesWell(p, Then(Do(does), rest), held, shown)
  BY PassiveLeavesTheLayers, DoGoesWell, GoesOnWell

LEMMA ActiveSteps ==
  ASSUME NEW held
  PROVE  /\ After("dlopen", held) = held \union {"library"}
         /\ After("init", held) = held \union {"runtime"}
         /\ After("initWindow", held) = held \union {"window"}
         /\ After("petitePath", held) = held \union {"petite path"}
         /\ After("schemePath", held) = held \union {"scheme path"}
         /\ After("dlclose", held) = held \ {"library"}
         /\ After("shutdown", held) = held \ {"runtime"}
         /\ After("closeWindow", held) = held \ {"window"}
         /\ After("releasePetite", held) = held \ {"petite path"}
         /\ After("releaseScheme", held) = held \ {"scheme path"}
         /\ Allowed("dlopen", held) <=> "library" \notin held
         /\ Allowed("init", held) <=> "runtime" \notin held
         /\ Allowed("initWindow", held) <=> "window" \notin held
         /\ Allowed("petitePath", held) <=> "petite path" \notin held
         /\ Allowed("schemePath", held) <=> "scheme path" \notin held
         /\ Allowed("dlclose", held) <=> "library" \in held
         /\ Allowed("shutdown", held) <=> "runtime" \in held
         /\ Allowed("closeWindow", held) <=> "window" \in held
         /\ Allowed("releasePetite", held) <=> "petite path" \in held
         /\ Allowed("releaseScheme", held) <=> "scheme path" \in held
  BY DEF After, Allowed, Acquires, Releases

\* Joining is associative, and a tuple is joined from its steps.
\* Joining in two orders gives the same sequence.
JoinsTwice(s, t, u) == (s \o t) \o u = s \o (t \o u)

LEMMA JoinedTwice ==
  ASSUME NEW s, NEW t, NEW u, IsSequence(s), IsSequence(t), IsSequence(u)
  PROVE  JoinsTwice(s, t, u)
<1>1. PICK S, T, U : s \in Seq(S) /\ t \in Seq(T) /\ u \in Seq(U)
  BY DEF IsSequence
<1> DEFINE V == S \union T \union U
<1>2. s \in Seq(V) /\ t \in Seq(V) /\ u \in Seq(V)
  BY <1>1
<1>. QED
  BY <1>2 DEF JoinsTwice

LEMMA TwoSteps == ASSUME NEW a, NEW b PROVE <<a, b>> = Then(a, <<b>>)
<1>1. <<a>> \in Seq({a, b}) /\ b \in {a, b} /\ <<a, b>> = Append(<<a>>, b)
  OBVIOUS
<1>. QED
  BY <1>1, AppendIsConcat DEF Then

LEMMA ThreeSteps == ASSUME NEW a, NEW b, NEW c PROVE <<a, b, c>> = Then(a, Then(b, <<c>>))
<1>1. <<b, c>> = Then(b, <<c>>)
  BY TwoSteps
<1>2. <<a, b, c>> = <<a>> \o <<b, c>>
  OBVIOUS
<1>. QED
  BY ONLY <1>1, <1>2, Zenon DEF Then

LEMMA JoinedAfterOne ==
  ASSUME NEW a, NEW s, NEW t, IsSequence(s), IsSequence(t)
  PROVE  Then(a, s) \o t = Then(a, s \o t)
<1> DEFINE one == <<a>>
<1>1. IsSequence(one)
  BY TuplesAreSequences
<1> HIDE DEF one
<1>2. JoinsTwice(one, s, t)
  BY <1>1, JoinedTwice, Zenon
<1>. QED
  BY <1>2, Zenon DEF JoinsTwice, Then, one

LEMMA TwoStepsJoined ==
  ASSUME NEW a, NEW b, NEW rest, IsSequence(rest)
  PROVE  <<a, b>> \o rest = Then(a, Then(b, rest))
<1> DEFINE last == <<b>>
<1>1. IsSequence(last)
  BY TuplesAreSequences
<1>2. last \o rest = Then(b, rest)
  BY DEF Then
<1>3. <<a, b>> = Then(a, last)
  BY TwoSteps
<1> HIDE DEF last
<1>4. Then(a, last) \o rest = Then(a, last \o rest)
  BY <1>1, JoinedAfterOne
<1>. QED
  BY <1>2, <1>3, <1>4, Zenon

LEMMA ThreeStepsJoined ==
  ASSUME NEW a, NEW b, NEW c, NEW rest, IsSequence(rest)
  PROVE  <<a, b, c>> \o rest = Then(a, Then(b, Then(c, rest)))
<1> DEFINE last == <<b, c>>
<1>1. IsSequence(last)
  BY TuplesAreSequences
<1>2. last \o rest = Then(b, Then(c, rest))
  BY TwoStepsJoined
<1>3. <<a, b, c>> = Then(a, last)
  BY DEF Then
<1> HIDE DEF last
<1>4. Then(a, last) \o rest = Then(a, last \o rest)
  BY <1>1, JoinedAfterOne
<1>. QED
  BY <1>2, <1>3, <1>4, Zenon

-----------------------------------------------------------------------------
(* The programs that run Jolt in the app                                   *)

JoltMains == Galleries \union {"noop", "topology", "frame"}

LEMMA LayersOfTheMains ==
  ASSUME NEW p \in JoltMains
  PROVE  /\ Nested(p, {}) /\ Nested(p, {"library"}) /\ Nested(p, InTheLoop)
         /\ After("dlopen", {}) = {"library"} /\ Allowed("dlopen", {})
         /\ After("init", {"library"}) = InTheLoop /\ Allowed("init", {"library"})
         /\ After("shutdown", InTheLoop) = {"library"} /\ Allowed("shutdown", InTheLoop)
         /\ After("dlclose", {"library"}) = {} /\ Allowed("dlclose", {"library"})
<1>1. Nested(p, {}) /\ Nested(p, {"library"}) /\ Nested(p, InTheLoop)
  BY DEF Nested, InTheLoop, Layers
<1>2. {} \union {"library"} = {"library"} /\ {"library"} \union {"runtime"} = InTheLoop
  BY DEF InTheLoop
<1>3. InTheLoop \ {"runtime"} = {"library"} /\ {"library"} \ {"library"} = {}
  BY DEF InTheLoop
<1>4. "runtime" \notin {"library"} /\ "runtime" \in InTheLoop
  BY DEF InTheLoop
<1>. QED
  BY <1>1, <1>2, <1>3, <1>4, ActiveSteps, Zenon

LEMMA UndoGoesWell ==
  ASSUME NEW p \in JoltMains, NEW code \in 0..6, NEW shown,
         code = 0 /\ p \in Galleries => shown = 1
  PROVE  GoesWell(p, Undo(code), InTheLoop, shown)
<1> DEFINE last  == <<Return(code)>>
           close == Then(Do("dlclose"), last)
           all   == Then(Do("shutdown"), close)
<1>1. CleanEnd(p, code, {}, shown)
  BY DEF CleanEnd
<1>2. GoesWell(p, last, {}, shown)
  BY <1>1, LayersOfTheMains, ReturnGoesWell
<1>3. Undo(code) = all
  BY ThreeSteps DEF Undo
<1> HIDE DEF last
<1>4. GoesWell(p, close, {"library"}, shown)
  BY <1>2, LayersOfTheMains, DoGoesWell
<1> HIDE DEF close
<1>5. GoesWell(p, all, InTheLoop, shown)
  BY <1>4, LayersOfTheMains, DoGoesWell
<1>. QED
  BY <1>3, <1>5, Zenon

LEMMA UndoIsASequence == ASSUME NEW code PROVE IsSequence(Undo(code))
  BY TuplesAreSequences DEF Undo

LEMMA BringUpGoesWell ==
  ASSUME NEW p \in JoltMains, NEW shown, NEW rest, GoesWell(p, rest, InTheLoop, shown)
  PROVE  GoesWell(p, BringUp \o rest, {}, shown)
<1> DEFINE give1   == <<Return(1)>>
           close2  == <<Do("dlclose"), Return(2)>>
           close3  == <<Do("dlclose"), Return(3)>>
           init    == Then(Try("init", close3), rest)
           symbols == Then(Try("symbols", close2), init)
           all     == Then(Try("dlopen", give1), symbols)
<1>1. BringUp \o rest = all
  <2>1. IsSequence(rest)
    BY GoesOnWell
  <2>. QED
    <3> DEFINE a == Try("dlopen", give1)  b == Try("symbols", close2)  c == Try("init", close3)
    <3>1. BringUp = <<a, b, c>>
      BY DEF BringUp
    <3> HIDE DEF a, b, c
    <3>2. <<a, b, c>> \o rest = Then(a, Then(b, Then(c, rest)))
      BY <2>1, ThreeStepsJoined
    <3>. QED
      BY <3>1, <3>2, Zenon DEF a, b, c
<1>2. \A code \in 1..3 : CleanEnd(p, code, {}, shown)
  BY DEF CleanEnd
<1>3. \A code \in 1..3 : GoesWell(p, <<Return(code)>>, {}, shown)
  BY <1>2, LayersOfTheMains, ReturnGoesWell
<1>4. ASSUME NEW code \in 1..3
      PROVE  GoesWell(p, <<Do("dlclose"), Return(code)>>, {"library"}, shown)
  <2> DEFINE last == <<Return(code)>>
  <2>1. GoesWell(p, last, {}, shown)
    BY <1>3
  <2>2. <<Do("dlclose"), Return(code)>> = Then(Do("dlclose"), last)
    BY TwoSteps
  <2> HIDE DEF last
  <2>3. GoesWell(p, Then(Do("dlclose"), last), {"library"}, shown)
    BY <2>1, LayersOfTheMains, DoGoesWell
  <2>. QED
    BY <2>2, <2>3, Zenon
<1>5. /\ GoesWell(p, give1, {}, shown) /\ GoesWell(p, close2, {"library"}, shown)
      /\ GoesWell(p, close3, {"library"}, shown)
  BY <1>3, <1>4
<1>6. "symbols" \in Passive
  BY DEF Passive
<1> HIDE DEF give1, close2, close3
<1>7. GoesWell(p, init, {"library"}, shown)
  BY <1>5, LayersOfTheMains, TryGoesWell
<1> HIDE DEF init
<1>8. GoesWell(p, symbols, {"library"}, shown)
  BY <1>5, <1>6, <1>7, PassiveTryGoesWell
<1> HIDE DEF symbols
<1>9. GoesWell(p, all, {}, shown)
  BY <1>5, <1>8, LayersOfTheMains, TryGoesWell
<1>. QED
  BY <1>1, <1>9, Zenon

LEMMA BringUpIsASequence == IsSequence(BringUp)
  BY TuplesAreSequences DEF BringUp

\* The mains that only call one export after bringing Jolt up.
CallMain == (BringUp \o <<Try("lookup", Undo(4)), Try("answer", Undo(5))>>) \o Undo(0)

LEMMA CallGoesWell ==
  ASSUME NEW p \in {"noop", "topology"}, NEW shown
  PROVE  GoesWell(p, CallMain, {}, shown) /\ IsSequence(CallMain)
<1>1. p \in JoltMains /\ p \notin Galleries
  BY DEF JoltMains, Galleries
<1>2. \A code \in 0..6 : GoesWell(p, Undo(code), InTheLoop, shown)
  BY <1>1, UndoGoesWell
<1> DEFINE calls  == <<Try("lookup", Undo(4)), Try("answer", Undo(5))>>
           answer == Then(Try("answer", Undo(5)), Undo(0))
           lookup == Then(Try("lookup", Undo(4)), answer)
<1>3. "lookup" \in Passive /\ "answer" \in Passive
  BY DEF Passive
<1>4. calls \o Undo(0) = lookup
  BY UndoIsASequence, TwoStepsJoined
<1>5. IsSequence(calls)
  BY TuplesAreSequences
<1>6. GoesWell(p, answer, InTheLoop, shown)
  BY <1>2, <1>3, PassiveTryGoesWell
<1> HIDE DEF answer
<1>7. GoesWell(p, lookup, InTheLoop, shown)
  BY <1>2, <1>3, <1>6, PassiveTryGoesWell
<1>8. CallMain = (BringUp \o calls) \o Undo(0)
  BY DEF CallMain
<1> HIDE DEF lookup, calls
<1>9. JoinsTwice(BringUp, calls, Undo(0))
  BY <1>5, UndoIsASequence, BringUpIsASequence, JoinedTwice, Zenon
<1>10. GoesWell(p, BringUp \o lookup, {}, shown)
  BY <1>1, <1>7, BringUpGoesWell
<1>11. GoesWell(p, CallMain, {}, shown)
  BY <1>4, <1>8, <1>9, <1>10, Zenon DEF JoinsTwice
<1>. QED
  BY <1>11, GoesOnWell

LEMMA NoopGoesWell == ASSUME NEW shown PROVE GoesWell("noop", NoopMain, {}, shown)
  BY CallGoesWell DEF NoopMain, CallMain

LEMMA TopologyGoesWell == ASSUME NEW shown PROVE GoesWell("topology", TopologyMain, {}, shown)
<1> DEFINE first == <<Do("directWidth")>>
           calls == <<Try("lookup", Undo(4)), Try("answer", Undo(5))>>
           last  == Undo(0)
<1>1. GoesWell("topology", CallMain, {}, shown) /\ "directWidth" \in Passive
  BY CallGoesWell DEF Passive
<1>2. GoesWell("topology", Then(Do("directWidth"), CallMain), {}, shown)
  BY <1>1, PassiveDoGoesWell
<1>3. IsSequence(first) /\ IsSequence(calls) /\ IsSequence(last)
  BY TuplesAreSequences, UndoIsASequence
<1>4. TopologyMain = ((first \o BringUp) \o calls) \o last /\ CallMain = (BringUp \o calls) \o last
  BY DEF TopologyMain, CallMain
<1>5. first \o CallMain = Then(Do("directWidth"), CallMain)
  BY DEF Then
<1> HIDE DEF first, calls, last
<1>6. JoinsTwice(first, BringUp, calls)
  BY <1>3, BringUpIsASequence, JoinedTwice, Zenon
<1>7. IsSequence(BringUp \o calls)
  BY <1>3, BringUpIsASequence, Joined
<1>8. JoinsTwice(first, BringUp \o calls, last)
  BY <1>3, <1>7, JoinedTwice, Zenon
<1>. QED
  BY <1>2, <1>4, <1>5, <1>6, <1>8, Zenon DEF JoinsTwice

\* The window of the first-frame experiment is closed on both paths.
LEMMA FrameGoesWell ==
  ASSUME NEW shown
  PROVE  GoesWell("frame", FrameMain, {}, shown)
<1> DEFINE p      == "frame"
           window == {"library", "runtime", "window"}
<1>1. p \in JoltMains /\ p \notin Galleries
  BY DEF JoltMains, Galleries
<1>2. \A code \in 0..6 : GoesWell(p, Undo(code), InTheLoop, shown)
  BY <1>1, UndoGoesWell
<1>3. {"lookup", "frames", "unwind", "answer"} \subseteq Passive
  BY DEF Passive
<1>4. Nested(p, window) /\ Nested(p, InTheLoop) /\ CleanEnd(p, Aborted, InTheLoop, shown)
  BY <1>1, LayersOfTheMains DEF Nested, CleanEnd, Layers, InTheLoop, Aborted
<1>5. /\ After("initWindow", InTheLoop) = window /\ Allowed("initWindow", InTheLoop)
      /\ After("closeWindow", window) = InTheLoop /\ Allowed("closeWindow", window)
  <2>1. /\ InTheLoop \union {"window"} = window /\ "window" \notin InTheLoop
        /\ window \ {"window"} = InTheLoop /\ "window" \in window
    BY DEF InTheLoop
  <2>. QED
    BY <2>1, ActiveSteps, Zenon
<1> DEFINE aborted == <<Return(Aborted)>>
           answer  == Then(Try("answer", Undo(5)), Undo(0))
           unwind  == Then(Try("unwind", aborted), answer)
           failed  == Then(Do("closeWindow"), unwind)
           close   == Then(Do("closeWindow"), Undo(0))
           frames  == Then(Try("frames", failed), close)
           shows   == Then(Do("initWindow"), frames)
           lookup  == Then(Try("lookup", Undo(4)), shows)
<1>6. FrameMain = BringUp \o lookup
  <2> DEFINE a == Do("initWindow")  b == Try("frames", failed)  c == Do("closeWindow")
             d == Try("unwind", aborted)  e == Try("answer", Undo(5))
             f == Try("lookup", Undo(4))  last == Undo(0)
  <2>1. FrameMain = ((BringUp \o <<f>>) \o <<a, Try("frames", <<c, d, e>> \o last), c>>) \o last
    BY DEF FrameMain, firstFrame
  <2>2. IsSequence(last)
    BY UndoIsASequence
  <2>3. /\ failed = Then(c, Then(d, Then(e, last))) /\ b = Try("frames", failed)
        /\ lookup = Then(f, Then(a, Then(b, Then(c, last))))
    OBVIOUS
  <2> HIDE DEF a, b, c, d, e, f, last, failed, lookup
  <2>4. <<c, d, e>> \o last = Then(c, Then(d, Then(e, last)))
    BY <2>2, ThreeStepsJoined
  <2>5. FrameMain = ((BringUp \o <<f>>) \o <<a, b, c>>) \o last
    BY <2>1, <2>3, <2>4, Zenon
  <2>6. <<a, b, c>> \o last = Then(a, Then(b, Then(c, last)))
    BY <2>2, ThreeStepsJoined
  <2> DEFINE one == <<f>>  three == <<a, b, c>>
  <2>7. IsSequence(one) /\ IsSequence(three) /\ FrameMain = ((BringUp \o one) \o three) \o last
    BY <2>5, TuplesAreSequences
  <2>8. one \o (three \o last) = lookup
    BY <2>3, <2>6, Zenon DEF Then
  <2> HIDE DEF one, three
  <2>9. IsSequence(BringUp \o one) /\ IsSequence(three \o last)
    BY <2>2, <2>7, BringUpIsASequence, Joined, Zenon
  <2>10. JoinsTwice(BringUp \o one, three, last)
    BY <2>2, <2>7, <2>9, JoinedTwice, Zenon
  <2>11. JoinsTwice(BringUp, one, three \o last)
    BY <2>7, <2>9, BringUpIsASequence, JoinedTwice, Zenon
  <2>. QED
    BY <2>7, <2>8, <2>10, <2>11, Zenon DEF JoinsTwice
<1>7. GoesWell(p, aborted, InTheLoop, shown)
  BY <1>4, ReturnGoesWell
<1> HIDE DEF aborted, p, window
<1>8. GoesWell(p, answer, InTheLoop, shown)
  BY <1>2, <1>3, PassiveTryGoesWell
<1> HIDE DEF answer
<1>9. GoesWell(p, unwind, InTheLoop, shown)
  BY <1>3, <1>7, <1>8, PassiveTryGoesWell
<1> HIDE DEF unwind
<1>10. GoesWell(p, failed, window, shown)
  BY <1>4, <1>5, <1>9, DoGoesWell
<1>11. GoesWell(p, close, window, shown)
  BY <1>2, <1>4, <1>5, DoGoesWell
<1> HIDE DEF failed, close
<1>12. GoesWell(p, frames, window, shown)
  BY <1>3, <1>10, <1>11, PassiveTryGoesWell
<1> HIDE DEF frames
<1>13. GoesWell(p, shows, InTheLoop, shown)
  BY <1>4, <1>5, <1>12, DoGoesWell
<1> HIDE DEF shows
<1>14. GoesWell(p, lookup, InTheLoop, shown)
  BY <1>2, <1>3, <1>13, PassiveTryGoesWell
<1> HIDE DEF lookup
<1>15. GoesWell(p, BringUp \o lookup, {}, shown)
  BY <1>1, <1>14, BringUpGoesWell
<1>. QED
  BY <1>6, <1>15, Zenon DEF p

\* The gallery's own loop, its probes and its verification.
LEMMA GalleryGoesWell ==
  ASSUME NEW d \in BOOLEAN, NEW p \in Galleries
  PROVE  GoesWell(p, GalleryMain(d), {}, 0)
<1> DEFINE socket   == <<Do("probeSocket")>>
           aborted  == <<Return(Aborted)>>
           lookups  == <<Try("lookupProbes", Undo(4)), Try("lookupVerify", Undo(4)),
                         Try("verify", aborted)>>
           noDebug  == IF d THEN <<>> ELSE <<Try("missDebugLoop", Undo(6))>>
           lookup   == <<Try("lookup", Undo(4))>>
           loop     == <<Try("loop", Undo(5))>>
           last     == Undo(0)
           looping  == loop \o last
           looked   == lookup \o looping
           released == noDebug \o looked
           probed   == lookups \o released
           started  == BringUp \o probed
<1>1. p \in JoltMains
  BY DEF JoltMains
<1>2. \A code \in 1..6 : GoesWell(p, Undo(code), InTheLoop, 0)
  BY <1>1, UndoGoesWell
<1>3. GoesWell(p, last, InTheLoop, 1)
  BY <1>1, UndoGoesWell
<1>4. {"probeSocket", "lookupProbes", "lookupVerify", "verify", "missDebugLoop", "lookup"}
        \subseteq Passive
  BY DEF Passive
<1>5. Nested(p, InTheLoop) /\ CleanEnd(p, Aborted, InTheLoop, 0)
  BY <1>1, LayersOfTheMains DEF CleanEnd, InTheLoop, Aborted
<1>6. GoesWell(p, aborted, InTheLoop, 0)
  BY <1>5, ReturnGoesWell
<1>7. /\ IsSequence(socket) /\ IsSequence(lookups) /\ IsSequence(noDebug) /\ IsSequence(lookup)
      /\ IsSequence(loop) /\ IsSequence(last)
  BY TuplesAreSequences, UndoIsASequence, EmptyIsFlat DEF Flat
<1>8. GoesWell(p, looping, InTheLoop, 0)
  <2>1. looping = Then(Try("loop", Undo(5)), last)
    BY DEF Then
  <2> HIDE DEF last, looping
  <2>2. GoesWell(p, Then(Try("loop", Undo(5)), last), InTheLoop, 0)
    BY <1>2, <1>3, <1>5, LoopGoesWell
  <2>. QED
    BY <2>1, <2>2, Zenon
<1>9. GoesWell(p, looked, InTheLoop, 0)
  <2>1. looked = Then(Try("lookup", Undo(4)), looping)
    BY DEF Then
  <2> HIDE DEF looping, looked
  <2>2. GoesWell(p, Then(Try("lookup", Undo(4)), looping), InTheLoop, 0)
    BY <1>2, <1>4, <1>8, PassiveTryGoesWell
  <2>. QED
    BY <2>1, <2>2, Zenon
<1>10. GoesWell(p, released, InTheLoop, 0)
  <2> HIDE DEF looked
  <2>1. CASE d
    <3>1. IsSequence(looked)
      BY <1>9, GoesOnWell
    <3>2. released = looked
      BY <2>1, <3>1 DEF IsSequence
    <3>. QED
      BY <1>9, <3>2, Zenon
  <2>2. CASE ~d
    <3>1. released = Then(Try("missDebugLoop", Undo(6)), looked)
      BY <2>2 DEF Then
    <3> HIDE DEF released
    <3>2. GoesWell(p, Then(Try("missDebugLoop", Undo(6)), looked), InTheLoop, 0)
      BY <1>2, <1>4, <1>9, PassiveTryGoesWell
    <3>. QED
      BY <3>1, <3>2, Zenon
  <2>. QED
    BY <2>1, <2>2
<1>11. GoesWell(p, probed, InTheLoop, 0)
  <2> DEFINE a == Try("lookupProbes", Undo(4))  b == Try("lookupVerify", Undo(4))
             c == Try("verify", aborted)
             third == Then(c, released)  second == Then(b, third)  first == Then(a, second)
  <2>1. IsSequence(released)
    BY <1>10, GoesOnWell
  <2> HIDE DEF released, aborted
  <2>2. GoesWell(p, third, InTheLoop, 0)
    BY <1>4, <1>6, <1>10, PassiveTryGoesWell
  <2> HIDE DEF third
  <2>3. GoesWell(p, second, InTheLoop, 0)
    BY <1>2, <1>4, <2>2, PassiveTryGoesWell
  <2> HIDE DEF second
  <2>4. GoesWell(p, first, InTheLoop, 0)
    BY <1>2, <1>4, <2>3, PassiveTryGoesWell
  <2> HIDE DEF a, b, c
  <2>5. <<a, b, c>> \o released = Then(a, Then(b, Then(c, released)))
    BY <2>1, ThreeStepsJoined
  <2>. QED
    BY <2>4, <2>5, Zenon DEF a, b, c, second, third
<1>12. GoesWell(p, started, {}, 0)
  <2> HIDE DEF probed
  <2>. QED
    BY <1>1, <1>11, BringUpGoesWell
<1>13. GoesWell(p, socket \o started, {}, 0)
  <2>1. socket \o started = Then(Do("probeSocket"), started)
    BY DEF Then
  <2> HIDE DEF started
  <2>2. GoesWell(p, Then(Do("probeSocket"), started), {}, 0)
    BY <1>4, <1>12, PassiveDoGoesWell
  <2>. QED
    BY <2>1, <2>2, Zenon
<1>14. GalleryMain(d) = socket \o started
  <2>1. GalleryMain(d) =
          (((((socket \o BringUp) \o lookups) \o noDebug) \o lookup) \o loop) \o last
    BY DEF GalleryMain
  <2>2. /\ looping = loop \o last /\ looked = lookup \o looping
        /\ released = noDebug \o looked /\ probed = lookups \o released
        /\ started = BringUp \o probed
    OBVIOUS
  <2>3. /\ IsSequence(looping) /\ IsSequence(looked) /\ IsSequence(released)
        /\ IsSequence(probed) /\ IsSequence(started)
    BY <1>8, <1>9, <1>10, <1>11, <1>12, GoesOnWell
  <2> HIDE DEF socket, lookups, noDebug, lookup, loop, last,
               looping, looked, released, probed, started
  <2> DEFINE one   == socket \o BringUp
             two   == one \o lookups
             three == two \o noDebug
             four  == three \o lookup
  <2>4. IsSequence(one)
    BY <1>7, BringUpIsASequence, Joined
  <2>5. IsSequence(two)
    BY <1>7, <2>4, Joined
  <2>6. IsSequence(three)
    BY <1>7, <2>5, Joined
  <2>7. IsSequence(four)
    BY <1>7, <2>6, Joined
  <2>8. JoinsTwice(socket, BringUp, probed)
    <3>1. IsSequence(socket) /\ IsSequence(BringUp) /\ IsSequence(probed)
      BY <1>7, <2>3, BringUpIsASequence
    <3>. QED
      BY <3>1, JoinedTwice, Zenon
  <2> HIDE DEF one
  <2>9. JoinsTwice(one, lookups, released)
    <3>1. IsSequence(one) /\ IsSequence(lookups) /\ IsSequence(released)
      BY <1>7, <2>3, <2>4
    <3>. QED
      BY <3>1, JoinedTwice, Zenon
  <2> HIDE DEF two
  <2>10. JoinsTwice(two, noDebug, looked)
    <3>1. IsSequence(two) /\ IsSequence(noDebug) /\ IsSequence(looked)
      BY <1>7, <2>3, <2>5
    <3>. QED
      BY <3>1, JoinedTwice, Zenon
  <2> HIDE DEF three
  <2>11. JoinsTwice(three, lookup, looping)
    <3>1. IsSequence(three) /\ IsSequence(lookup) /\ IsSequence(looping)
      BY <1>7, <2>3, <2>6
    <3>. QED
      BY <3>1, JoinedTwice, Zenon
  <2> HIDE DEF four
  <2>12. JoinsTwice(four, loop, last)
    BY <1>7, <2>7, JoinedTwice, Zenon
  <2>. QED
    BY <2>1, <2>2, <2>8, <2>9, <2>10, <2>11, <2>12, Zenon DEF JoinsTwice, one, two, three, four
<1>. QED
  BY <1>13, <1>14, Zenon

-----------------------------------------------------------------------------
(* The other programs                                                      *)

\* No library and no runtime: only the window.
LEMMA PlainGoesWell == ASSUME NEW shown PROVE GoesWell("plain", PlainMain, {}, shown)
<1> DEFINE p      == "plain"
           last   == <<Return(0)>>
           close  == Then(Do("closeWindow"), last)
           frames == Then(Do("frames"), close)
           all    == Then(Do("initWindow"), frames)
<1>1. /\ "frames" \in Passive
      /\ Nested(p, {}) /\ Nested(p, {"window"})
      /\ CleanEnd(p, 0, {}, shown)
  BY DEF Passive, Nested, CleanEnd, Layers, Galleries
<1>2. /\ After("initWindow", {}) = {"window"} /\ Allowed("initWindow", {})
      /\ After("closeWindow", {"window"}) = {} /\ Allowed("closeWindow", {"window"})
  <2>1. /\ {} \union {"window"} = {"window"} /\ {"window"} \ {"window"} = {}
        /\ "window" \notin {} /\ "window" \in {"window"}
    OBVIOUS
  <2>. QED
    BY <2>1, ActiveSteps, Zenon
<1>3. PlainMain = all
  <2> DEFINE a == Do("initWindow")  b == Do("frames")  c == Do("closeWindow")  d == Return(0)
             half == <<c, d>>
  <2>1. PlainMain = <<a, b, c, d>>
    BY DEF PlainMain
  <2>2. all = Then(a, Then(b, Then(c, <<d>>)))
    OBVIOUS
  <2> HIDE DEF a, b, c, d, all
  <2>3. <<a, b, c, d>> = <<a, b>> \o half
    OBVIOUS
  <2>4. half = Then(c, <<d>>) /\ IsSequence(half)
    BY TwoSteps, TuplesAreSequences
  <2> HIDE DEF half
  <2>5. <<a, b>> \o half = Then(a, Then(b, half))
    BY <2>4, TwoStepsJoined
  <2>. QED
    BY <2>1, <2>2, <2>3, <2>4, <2>5, Zenon
<1> HIDE DEF p
<1>4. GoesWell(p, last, {}, shown)
  BY <1>1, ReturnGoesWell
<1> HIDE DEF last
<1>5. GoesWell(p, close, {"window"}, shown)
  BY <1>1, <1>2, <1>4, DoGoesWell
<1> HIDE DEF close
<1>6. GoesWell(p, frames, {"window"}, shown)
  BY <1>1, <1>5, PassiveDoGoesWell
<1> HIDE DEF frames
<1>7. GoesWell(p, all, {}, shown)
  BY <1>1, <1>2, <1>6, DoGoesWell
<1>. QED
  BY <1>3, <1>7, Zenon DEF p

\* What the harnesses have in common, with the codes they return on failures.
HarnessStart(sym) ==
  <<Try("usage", <<Return(2)>>), Try("dlopen", <<Return(1)>>), Try("symbols", <<Return(sym)>>)>>
HarnessCalls(sym, use) ==
  <<Try("init", <<Return(sym)>>), Try("lookup", <<Return(use)>>), Try("answer", <<Return(use)>>)>>

LEMMA HarnessGoesWell ==
  ASSUME NEW p \in Harnesses, NEW sym \in 1..4, NEW use \in 1..4, NEW shown,
         NEW rest, GoesWell(p, rest, InTheLoop, shown)
  PROVE  GoesWell(p, HarnessStart(sym) \o (HarnessCalls(sym, use) \o rest), {}, shown)
<1>1. /\ Nested(p, {}) /\ Nested(p, {"library"}) /\ Nested(p, InTheLoop)
      /\ p \notin Galleries /\ p \notin TidyMains
  BY DEF Harnesses, Nested, InTheLoop, Layers, TidyMains, Galleries
<1>2. \A code \in 1..4 : /\ CleanEnd(p, code, {}, shown)
                         /\ CleanEnd(p, code, {"library"}, shown)
                         /\ CleanEnd(p, code, InTheLoop, shown)
  BY <1>1 DEF CleanEnd, InTheLoop
<1>3. \A code \in 1..4 : /\ GoesWell(p, <<Return(code)>>, {}, shown)
                         /\ GoesWell(p, <<Return(code)>>, {"library"}, shown)
                         /\ GoesWell(p, <<Return(code)>>, InTheLoop, shown)
  BY <1>1, <1>2, ReturnGoesWell
<1>4. "usage" \in Passive /\ "symbols" \in Passive /\ "lookup" \in Passive /\ "answer" \in Passive
  BY DEF Passive
<1>5. /\ After("dlopen", {}) = {"library"} /\ Allowed("dlopen", {})
      /\ After("init", {"library"}) = InTheLoop /\ Allowed("init", {"library"})
  <2>1. "noop" \in JoltMains
    BY DEF JoltMains
  <2>. QED
    BY <2>1, LayersOfTheMains
<1> DEFINE one == <<Return(1)>>  two == <<Return(2)>>  syms == <<Return(sym)>>
           uses == <<Return(use)>>
           answer  == Then(Try("answer", uses), rest)
           lookup  == Then(Try("lookup", uses), answer)
           init    == Then(Try("init", syms), lookup)
           symbols == Then(Try("symbols", syms), init)
           open    == Then(Try("dlopen", one), symbols)
           all     == Then(Try("usage", two), open)
<1>6. /\ GoesWell(p, one, {}, shown) /\ GoesWell(p, two, {}, shown)
      /\ GoesWell(p, syms, {"library"}, shown) /\ GoesWell(p, uses, InTheLoop, shown)
  BY <1>3
<1>7. HarnessCalls(sym, use) \o rest = init
  <2> DEFINE a == Try("init", syms)  b == Try("lookup", uses)  c == Try("answer", uses)
  <2>1. HarnessCalls(sym, use) = <<a, b, c>>
    BY DEF HarnessCalls
  <2>2. IsSequence(rest)
    BY GoesOnWell
  <2> HIDE DEF a, b, c
  <2>3. <<a, b, c>> \o rest = Then(a, Then(b, Then(c, rest)))
    BY <2>2, ThreeStepsJoined
  <2>. QED
    BY <2>1, <2>3, Zenon DEF a, b, c
<1> HIDE DEF one, two, syms, uses
<1>8. GoesWell(p, answer, InTheLoop, shown)
  BY <1>4, <1>6, PassiveTryGoesWell
<1> HIDE DEF answer
<1>9. GoesWell(p, lookup, InTheLoop, shown)
  BY <1>4, <1>6, <1>8, PassiveTryGoesWell
<1> HIDE DEF lookup
<1>10. GoesWell(p, init, {"library"}, shown)
  BY <1>1, <1>5, <1>6, <1>9, TryGoesWell
<1> HIDE DEF init
<1>11. GoesWell(p, symbols, {"library"}, shown)
  BY <1>4, <1>6, <1>10, PassiveTryGoesWell
<1>12. HarnessStart(sym) \o init = all
  <2> DEFINE a == Try("usage", two)  b == Try("dlopen", one)  c == Try("symbols", syms)
  <2>1. HarnessStart(sym) = <<a, b, c>>
    BY DEF HarnessStart, one, two, syms
  <2>2. IsSequence(init)
    BY <1>10, GoesOnWell
  <2> HIDE DEF a, b, c
  <2>3. <<a, b, c>> \o init = Then(a, Then(b, Then(c, init)))
    BY <2>2, ThreeStepsJoined
  <2>. QED
    BY <2>1, <2>3, Zenon DEF a, b, c
<1> HIDE DEF symbols
<1>13. GoesWell(p, open, {}, shown)
  BY <1>1, <1>5, <1>6, <1>11, TryGoesWell
<1> HIDE DEF open
<1>14. GoesWell(p, all, {}, shown)
  BY <1>4, <1>6, <1>13, PassiveTryGoesWell
<1>. QED
  BY <1>7, <1>12, <1>14, Zenon

\* The end of both: the runtime is shut down, the library stays open.
LEMMA HarnessEndGoesWell ==
  ASSUME NEW p \in Harnesses, NEW shown
  PROVE  GoesWell(p, <<Do("shutdown"), Return(0)>>, InTheLoop, shown)
<1> DEFINE last == <<Return(0)>>
<1>0. p \notin Galleries /\ p \notin TidyMains
  BY DEF Harnesses, TidyMains, Galleries
<1>1. Nested(p, InTheLoop) /\ Nested(p, {"library"}) /\ CleanEnd(p, 0, {"library"}, shown)
  BY <1>0 DEF Nested, CleanEnd, InTheLoop, Layers
<1>2. GoesWell(p, last, {"library"}, shown)
  BY <1>1, ReturnGoesWell
<1>3. After("shutdown", InTheLoop) = {"library"} /\ Allowed("shutdown", InTheLoop)
  <2>1. "noop" \in JoltMains
    BY DEF JoltMains
  <2>. QED
    BY <2>1, LayersOfTheMains
<1>4. <<Do("shutdown"), Return(0)>> = Then(Do("shutdown"), last)
  BY TwoSteps
<1> HIDE DEF last
<1>5. GoesWell(p, Then(Do("shutdown"), last), InTheLoop, shown)
  BY <1>1, <1>2, <1>3, DoGoesWell
<1>. QED
  BY <1>4, <1>5, Zenon

LEMMA RaylibHarnessGoesWell ==
  ASSUME NEW shown PROVE GoesWell("raylib harness", RaylibHarness, {}, shown)
<1> DEFINE p == "raylib harness"
           rest == <<Do("shutdown"), Return(0)>>
           calls == HarnessCalls(3, 4)
           start == HarnessStart(3)
<1>1. p \in Harnesses
  BY DEF Harnesses
<1>2. GoesWell(p, rest, InTheLoop, shown)
  BY <1>1, HarnessEndGoesWell
<1>3. RaylibHarness = start \o (calls \o rest)
  <2> DEFINE a == Try("usage", <<Return(2)>>)  b == Try("dlopen", <<Return(1)>>)
             c == Try("symbols", <<Return(3)>>)  d == Try("init", <<Return(3)>>)
             e == Try("lookup", <<Return(4)>>)  f == Try("answer", <<Return(4)>>)
             g == Do("shutdown")  h == Return(0)
  <2>1. /\ start = <<a, b, c>> /\ calls = <<d, e, f>> /\ rest = <<g, h>>
        /\ RaylibHarness = <<a, b, c, d, e, f, g, h>>
    BY DEF RaylibHarness, HarnessStart, HarnessCalls
  <2> HIDE DEF a, b, c, d, e, f, g, h, rest, calls, start
  <2>2. <<a, b, c, d, e, f, g, h>> = <<a, b, c>> \o (<<d, e, f>> \o <<g, h>>)
    OBVIOUS
  <2>. QED
    BY <2>1, <2>2, Zenon
<1> HIDE DEF p, rest
<1>4. GoesWell(p, start \o (calls \o rest), {}, shown)
  BY <1>1, <1>2, HarnessGoesWell
<1>. QED
  BY <1>3, <1>4, Zenon DEF p

LEMMA LibraryHarnessGoesWell ==
  ASSUME NEW shown PROVE GoesWell("library harness", LibraryHarness, {}, shown)
<1> DEFINE p == "library harness"
           last == <<Do("shutdown"), Return(0)>>
           one  == <<Return(1)>>
           rest == <<Try("allocate", one), Do("shutdown"), Return(0)>>
           calls == HarnessCalls(1, 1)
           start == HarnessStart(1)
<1>1. p \in Harnesses
  BY DEF Harnesses
<1>2. GoesWell(p, last, InTheLoop, shown)
  BY <1>1, HarnessEndGoesWell
<1>3. GoesWell(p, one, InTheLoop, shown)
  <2>1. Nested(p, InTheLoop) /\ CleanEnd(p, 1, InTheLoop, shown)
    BY DEF Nested, CleanEnd, InTheLoop, Layers, TidyMains, Galleries
  <2>. QED
    BY <2>1, ReturnGoesWell
<1>4. rest = Then(Try("allocate", one), last)
  BY DEF Then
<1>5. LibraryHarness = start \o (calls \o rest)
  <2> DEFINE a == Try("usage", <<Return(2)>>)  b == Try("dlopen", <<Return(1)>>)
             c == Try("symbols", <<Return(1)>>)  d == Try("init", <<Return(1)>>)
             e == Try("lookup", <<Return(1)>>)  f == Try("answer", <<Return(1)>>)
             g == Try("allocate", <<Return(1)>>)  h == Do("shutdown")  i == Return(0)
  <2>1. /\ start = <<a, b, c>> /\ calls = <<d, e, f>> /\ rest = <<g, h, i>>
        /\ LibraryHarness = <<a, b, c, d, e, f, g, h, i>>
    BY DEF LibraryHarness, HarnessStart, HarnessCalls
  <2> HIDE DEF a, b, c, d, e, f, g, h, i, rest, calls, start
  <2>2. <<a, b, c, d, e, f, g, h, i>> = <<a, b, c>> \o (<<d, e, f>> \o <<g, h, i>>)
    OBVIOUS
  <2>. QED
    BY <2>1, <2>2, Zenon
<1>6. "allocate" \in Passive
  BY DEF Passive
<1> HIDE DEF p, last, one, rest
<1>7. GoesWell(p, Then(Try("allocate", one), last), InTheLoop, shown)
  BY <1>2, <1>3, <1>6, PassiveTryGoesWell
<1>8. GoesWell(p, rest, InTheLoop, shown)
  BY <1>4, <1>7, Zenon
<1>9. GoesWell(p, start \o (calls \o rest), {}, shown)
  BY <1>1, <1>8, HarnessGoesWell
<1>. QED
  BY <1>5, <1>9, Zenon DEF p

\* The probe of the bare runtime: both paths are released before it returns the
\* sum, and none is when one of them is missing.
LEMMA ChezCallGoesWell ==
  ASSUME NEW shown
  PROVE  GoesWell("chez answer", chezCall, {"petite path", "scheme path"}, shown)
<1> DEFINE p     == "chez answer"
           paths == {"petite path", "scheme path"}
           built == {"petite path", "scheme path", "runtime"}
           half  == {"scheme path", "runtime"}
           up    == {"runtime"}
<1>1. /\ Nested(p, paths) /\ Nested(p, built) /\ Nested(p, half) /\ Nested(p, up)
      /\ {"registerBootFiles", "buildHeap", "call"} \subseteq Passive
  BY DEF Nested, Layers, Galleries, Passive
<1>2. CleanEnd(p, Aborted, built, shown) /\ CleanEnd(p, 42, up, shown)
  BY DEF CleanEnd, Aborted, TidyMains, Galleries
<1>3. /\ After("init", paths) = built /\ Allowed("init", paths)
      /\ After("releasePetite", built) = half /\ Allowed("releasePetite", built)
      /\ After("releaseScheme", half) = up /\ Allowed("releaseScheme", half)
  <2>1. /\ paths \union {"runtime"} = built /\ "runtime" \notin paths
        /\ built \ {"petite path"} = half /\ "petite path" \in built
        /\ half \ {"scheme path"} = up /\ "scheme path" \in half
    OBVIOUS
  <2> HIDE DEF paths, built, half, up
  <2>. QED
    BY <2>1, ActiveSteps, Zenon
<1> DEFINE aborted  == <<Return(Aborted)>>
           last     == <<Return(42)>>
           scheme   == Then(Do("releaseScheme"), last)
           petite   == Then(Do("releasePetite"), scheme)
           called   == Then(Do("call"), petite)
           heap     == Then(Try("buildHeap", aborted), called)
           register == Then(Do("registerBootFiles"), heap)
           all      == Then(Do("init"), register)
<1>4. chezCall = all
  <2> DEFINE a == Do("init")  b == Do("registerBootFiles")  c == Try("buildHeap", aborted)
             d == Do("call")  e == Do("releasePetite")  f == Do("releaseScheme")
             g == Return(42)  end == <<e, f, g>>
  <2>1. chezCall = <<a, b, c, d, e, f, g>>
    BY DEF chezCall
  <2>2. /\ all = Then(a, Then(b, Then(c, called))) /\ called = Then(d, petite)
        /\ petite = Then(e, Then(f, <<g>>))
    OBVIOUS
  <2> HIDE DEF a, b, c, d, e, f, g, all, called, petite
  <2>3. end = petite /\ IsSequence(end)
    BY <2>2, ThreeSteps, TuplesAreSequences
  <2>4. <<d, e, f, g>> = <<d>> \o end
    OBVIOUS
  <2>5. <<d, e, f, g>> = called
    BY <2>2, <2>3, <2>4, Zenon DEF Then
  <2>6. IsSequence(<<d, e, f, g>>)
    <3>1. <<d, e, f, g>> \in Seq({d, e, f, g})
      OBVIOUS
    <3>. QED
      BY <3>1, Zenon DEF IsSequence
  <2>7. <<a, b, c, d, e, f, g>> = <<a, b, c>> \o <<d, e, f, g>>
    OBVIOUS
  <2>8. IsSequence(called)
    BY <2>5, <2>6, Zenon
  <2>9. <<a, b, c>> \o called = Then(a, Then(b, Then(c, called)))
    BY <2>8, ThreeStepsJoined
  <2>. QED
    BY <2>1, <2>2, <2>5, <2>7, <2>9, Zenon
<1> HIDE DEF p, paths, built, half, up
<1>5. GoesWell(p, last, up, shown) /\ GoesWell(p, aborted, built, shown)
  BY <1>1, <1>2, ReturnGoesWell
<1> HIDE DEF last, aborted
<1>6. GoesWell(p, scheme, half, shown)
  BY <1>1, <1>3, <1>5, DoGoesWell
<1> HIDE DEF scheme
<1>7. GoesWell(p, petite, built, shown)
  BY <1>1, <1>3, <1>6, DoGoesWell
<1> HIDE DEF petite
<1>8. GoesWell(p, called, built, shown)
  BY <1>1, <1>7, PassiveDoGoesWell
<1> HIDE DEF called
<1>9. GoesWell(p, heap, built, shown)
  BY <1>1, <1>5, <1>8, PassiveTryGoesWell
<1> HIDE DEF heap
<1>10. GoesWell(p, register, built, shown)
  BY <1>1, <1>9, PassiveDoGoesWell
<1> HIDE DEF register
<1>11. GoesWell(p, all, paths, shown)
  BY <1>1, <1>3, <1>10, DoGoesWell
<1>. QED
  BY <1>4, <1>11, Zenon DEF p, paths

LEMMA ChezAnswerGoesWell ==
  ASSUME NEW shown PROVE GoesWell("chez answer", ChezAnswer, {}, shown)
<1> DEFINE p      == "chez answer"
           petite == {"petite path"}
           scheme == {"scheme path"}
           paths  == {"petite path", "scheme path"}
<1>1. /\ Nested(p, {}) /\ Nested(p, petite) /\ Nested(p, scheme)
      /\ CleanEnd(p, -1, {}, shown) /\ CleanEnd(p, -1, petite, shown)
      /\ CleanEnd(p, -1, scheme, shown)
  BY DEF Nested, CleanEnd, Layers, Aborted, TidyMains, Galleries
<1>2. /\ After("petitePath", {}) = petite /\ Allowed("petitePath", {})
      /\ After("schemePath", {}) = scheme /\ Allowed("schemePath", {})
      /\ After("schemePath", petite) = paths /\ Allowed("schemePath", petite)
  <2>1. /\ {} \union {"petite path"} = petite /\ "petite path" \notin {}
        /\ {} \union {"scheme path"} = scheme /\ "scheme path" \notin {}
        /\ petite \union {"scheme path"} = paths /\ "scheme path" \notin petite
    OBVIOUS
  <2> HIDE DEF petite, scheme, paths
  <2>. QED
    BY <2>1, ActiveSteps, Zenon
<1> DEFINE missing == <<Return(-1)>>
           neither == <<Try("schemePath", missing), Return(-1)>>
           second  == Then(Try("schemePath", missing), chezCall)
           all     == Then(Try("petitePath", neither), second)
<1>3. GoesWell(p, chezCall, paths, shown)
  BY ChezCallGoesWell
<1>4. neither = Then(Try("schemePath", missing), missing)
  BY TwoSteps
<1>5. ChezAnswer = all
  <2> DEFINE a == Try("petitePath", neither)  b == Try("schemePath", missing)
  <2>1. ChezAnswer = <<a, b>> \o chezCall
    BY DEF ChezAnswer
  <2>2. all = Then(a, Then(b, chezCall))
    OBVIOUS
  <2>3. IsSequence(chezCall)
    BY <1>3, GoesOnWell
  <2> HIDE DEF a, b, all
  <2>4. <<a, b>> \o chezCall = Then(a, Then(b, chezCall))
    BY <2>3, TwoStepsJoined
  <2>. QED
    BY <2>1, <2>2, <2>4, Zenon
<1> HIDE DEF p, petite, scheme, paths
<1>6. /\ GoesWell(p, missing, {}, shown) /\ GoesWell(p, missing, petite, shown)
      /\ GoesWell(p, missing, scheme, shown)
  BY <1>1, ReturnGoesWell
<1> HIDE DEF missing, neither
<1>7. GoesWell(p, neither, {}, shown)
  <2>1. GoesWell(p, Then(Try("schemePath", missing), missing), {}, shown)
    BY <1>1, <1>2, <1>6, TryGoesWell
  <2>. QED
    BY <1>4, <2>1, Zenon
<1>8. GoesWell(p, second, petite, shown)
  BY <1>1, <1>2, <1>3, <1>6, TryGoesWell
<1> HIDE DEF second
<1>9. GoesWell(p, all, {}, shown)
  BY <1>1, <1>2, <1>7, <1>8, TryGoesWell
<1>. QED
  BY <1>5, <1>9, Zenon DEF p

LEMMA EveryProgramGoesWell ==
  ASSUME NEW p \in Programs PROVE GoesWell(p, StepsOf(p), {}, 0)
<1>1. CASE p = "gallery"
  BY <1>1, GalleryGoesWell DEF StepsOf, Galleries
<1>2. CASE p = "gallery debug"
  BY <1>2, GalleryGoesWell DEF StepsOf, Galleries
<1>3. CASE p = "noop"
  BY <1>3, NoopGoesWell DEF StepsOf
<1>4. CASE p = "topology"
  BY <1>4, TopologyGoesWell DEF StepsOf
<1>5. CASE p = "frame"
  BY <1>5, FrameGoesWell DEF StepsOf
<1>6. CASE p = "plain"
  BY <1>6, PlainGoesWell DEF StepsOf
<1>7. CASE p = "library harness"
  BY <1>7, LibraryHarnessGoesWell DEF StepsOf
<1>8. CASE p = "raylib harness"
  BY <1>8, RaylibHarnessGoesWell DEF StepsOf
<1>9. CASE p = "chez answer"
  BY <1>9, ChezAnswerGoesWell DEF StepsOf
<1>. QED
  BY <1>1, <1>2, <1>3, <1>4, <1>5, <1>6, <1>7, <1>8, <1>9
     DEF Programs, TidyMains, Harnesses, Galleries

-----------------------------------------------------------------------------
(* The process goes well                                                   *)

Held  == {layer \in Layers : holds[layer] = 1}
Shown == IF frame > 0 THEN 1 ELSE 0

Sorts ==
  /\ program \in Programs
  /\ holds \in [Layers -> 0..1]
  /\ at \in Places
  /\ nrepl \in {"off", "up", "stopped"}
  /\ frame \in 0..MaxFrames
  /\ ending \in {"none", "close", "time", "error"}

\* Outside its loop, the program goes well from where it stands, or has ended.
MainGoesWell ==
  at = "main" =>
    /\ Nested(program, Held)
    /\ exit = Running => GoesWell(program, todo, Held, Shown)
    /\ exit # Running => todo = <<>> /\ CleanEnd(program, exit, Held, Shown)

\* In its loop it will go well from where it returns to, whatever it returns.
ReturnGoesOn ==
  at # "main" =>
    /\ program \in Galleries
    /\ exit = Running
    /\ Doing("loop")
    /\ GoesWell(program, Tail(todo), InTheLoop, 1)
    /\ GoesWell(program, Head(todo).orElse, InTheLoop, 0)
    /\ Held = IF at \in InLoop THEN InTheLoop \union {"window"} ELSE InTheLoop

\* The server and the owner's work are where the places say.
ServerAndWork ==
  /\ at = "nrepl" => debug
  /\ nrepl = "up" => debug /\ at \in InLoop \union {"window", "stop"}
  /\ running # <<>> <=> at = "work"

ProcessGoesWell == Sorts /\ MainGoesWell /\ ReturnGoesOn /\ ServerAndWork

LEMMA AcquiringAdds ==
  ASSUME holds \in [Layers -> 0..1], NEW layer \in Layers, layer \notin Held, Acquire(layer)
  PROVE  holds' \in [Layers -> 0..1] /\ Held' = Held \union {layer}
  BY DEF Acquire, Held

LEMMA ReleasingRemoves ==
  ASSUME holds \in [Layers -> 0..1], NEW layer \in Layers, layer \in Held, Release(layer)
  PROVE  holds' \in [Layers -> 0..1] /\ Held' = Held \ {layer}
  BY DEF Release, Held

LEMMA HeldInitially == BootstrapInit => Held = {} /\ holds \in [Layers -> 0..1]
  BY DEF BootstrapInit, Held

LEMMA ProgramsDoNotReturnRunning ==
  ASSUME NEW p, NEW code, NEW held, NEW shown, CleanEnd(p, code, held, shown)
  PROVE  code # Running
<1>1. code \in -1..6 \/ code = 42 \/ code = 101
  BY DEF CleanEnd, Aborted
<1>2. \A i \in -1..6 : i # 100
  OBVIOUS
<1>. QED
  BY <1>1, <1>2 DEF Running

LEMMA GoesWellInitially == Init => ProcessGoesWell
<1> SUFFICES ASSUME Init PROVE ProcessGoesWell
  OBVIOUS
<1>1. Held = {} /\ Shown = 0
  BY HeldInitially DEF Init, Shown
<1>2. program \in Programs /\ todo = StepsOf(program) /\ exit = Running /\ at = "main"
  BY DEF Init, BootstrapInit
<1>3. GoesWell(program, todo, Held, Shown)
  BY <1>1, <1>2, EveryProgramGoesWell
<1>4. Nested(program, Held)
  BY <1>3, GoesOnWell
<1>5. MainGoesWell /\ ReturnGoesOn
  BY <1>2, <1>3, <1>4 DEF MainGoesWell, ReturnGoesOn
<1>6. Sorts
  BY <1>2, HeldInitially, HostAssumption DEF Init, Sorts, Places
<1>7. ServerAndWork
  BY <1>2 DEF Init, ServerAndWork, Executor!Init
<1>. QED
  BY <1>5, <1>6, <1>7 DEF ProcessGoesWell

\* A step that succeeds changes the layers as After says.
LEMMA SucceedingHolds ==
  ASSUME holds \in [Layers -> 0..1], Succeed, Allowed(Head(todo).does, Held)
  PROVE  holds' \in [Layers -> 0..1] /\ Held' = After(Head(todo).does, Held)
<1> DEFINE does == Head(todo).does
<1>1. CASE does \in DOMAIN Acquires
  <2>1. Acquires[does] \in Layers
    <3>1. DOMAIN Acquires = {"dlopen", "init", "initWindow", "petitePath", "schemePath"}
      BY DEF Acquires
    <3>2. \A d \in {"dlopen", "init", "initWindow", "petitePath", "schemePath"} :
            Acquires[d] \in Layers
      <4>1. /\ Acquires.dlopen \in Layers /\ Acquires.init \in Layers
            /\ Acquires.initWindow \in Layers /\ Acquires.petitePath \in Layers
            /\ Acquires.schemePath \in Layers
        BY DEF Acquires, Layers
      <4>. QED
        BY <4>1
    <3>. QED
      BY <1>1, <3>1, <3>2, Zenon
  <2>2. Acquires[does] \notin Held /\ Acquire(Acquires[does])
    BY <1>1 DEF Allowed, Succeed
  <2>3. After(does, Held) = Held \union {Acquires[does]}
    BY <1>1 DEF After
  <2> HIDE DEF does
  <2>. QED
    BY <2>1, <2>2, <2>3, AcquiringAdds DEF does
<1>2. CASE does \notin DOMAIN Acquires /\ does \in DOMAIN Releases
  <2>1. Releases[does] \in Layers
    <3>1. DOMAIN Releases =
            {"dlclose", "shutdown", "closeWindow", "releasePetite", "releaseScheme"}
      BY DEF Releases
    <3>2. \A d \in {"dlclose", "shutdown", "closeWindow", "releasePetite", "releaseScheme"} :
            Releases[d] \in Layers
      <4>1. /\ Releases.dlclose \in Layers /\ Releases.shutdown \in Layers
            /\ Releases.closeWindow \in Layers /\ Releases.releasePetite \in Layers
            /\ Releases.releaseScheme \in Layers
        BY DEF Releases, Layers
      <4>. QED
        BY <4>1
    <3>. QED
      BY <1>2, <3>1, <3>2, Zenon
  <2>2. Releases[does] \in Held /\ Release(Releases[does])
    BY <1>2 DEF Allowed, Succeed
  <2>3. After(does, Held) = Held \ {Releases[does]}
    BY <1>2 DEF After
  <2> HIDE DEF does
  <2>. QED
    BY <2>1, <2>2, <2>3, ReleasingRemoves DEF does
<1>3. CASE does \notin DOMAIN Acquires /\ does \notin DOMAIN Releases
  BY <1>3 DEF After, Succeed, Held
<1>. QED
  BY <1>1, <1>2, <1>3

\* The bootstrap's steps are the program's steps.
LEMMA MainGoesOnWell == ASSUME ProcessGoesWell, StepMain PROVE ProcessGoesWell'
<1>1. /\ at = "main" /\ UNCHANGED <<at, nrepl, frame, ending, program>>
      /\ UNCHANGED <<submitted, waiting, running, kept>>
  BY DEF StepMain, BootstrapStep, Succeed, Fail, ReturnFromMain, frameVars, quiet, ownerQueue
<1>2. todo # <<>>
  BY DEF StepMain, BootstrapStep, Succeed, Fail, ReturnFromMain, Doing
<1>3. exit = Running /\ GoesWell(program, todo, Held, Shown)
  BY <1>1, <1>2 DEF ProcessGoesWell, MainGoesWell
<1>4. Shown' = Shown
  BY <1>1 DEF Shown
<1>5. holds' \in [Layers -> 0..1] /\ MainGoesWell'
  <2>1. CASE Succeed
    <3>1. Head(todo).does \notin {"return", "loop"} /\ todo' = Tail(todo) /\ exit' = exit
      BY <2>1 DEF Succeed
    <3>2. /\ Allowed(Head(todo).does, Held)
          /\ GoesWell(program, Tail(todo), After(Head(todo).does, Held), Shown)
      BY <1>2, <1>3, <3>1, GoesOnWell
    <3>3. holds' \in [Layers -> 0..1] /\ Held' = After(Head(todo).does, Held)
      BY <2>1, <3>2, SucceedingHolds DEF ProcessGoesWell, Sorts
    <3>4. GoesWell(program', todo', Held', Shown')
      BY <1>1, <1>4, <3>1, <3>2, <3>3
    <3>5. Nested(program', Held')
      BY <3>4, GoesOnWell
    <3>. QED
      BY <1>3, <3>1, <3>3, <3>4, <3>5 DEF MainGoesWell
  <2>2. CASE Fail
    <3>1. /\ Head(todo).does # "loop" /\ Head(todo).orElse # <<>>
          /\ todo' = Head(todo).orElse /\ UNCHANGED <<holds, exit>>
      BY <2>2 DEF Fail
    <3>2. GoesWell(program, Head(todo).orElse, Held, Shown)
      BY <1>2, <1>3, <3>1, GoesOnWell
    <3>3. Held' = Held /\ holds' \in [Layers -> 0..1]
      BY <3>1 DEF Held, ProcessGoesWell, Sorts
    <3>4. GoesWell(program', todo', Held', Shown')
      BY <1>1, <1>4, <3>1, <3>2, <3>3
    <3>5. Nested(program', Held')
      BY <3>4, GoesOnWell
    <3>. QED
      BY <1>3, <3>1, <3>3, <3>4, <3>5 DEF MainGoesWell
  <2>3. CASE ReturnFromMain
    <3>1. /\ Head(todo).does = "return" /\ exit' = Head(todo).code /\ todo' = <<>>
          /\ UNCHANGED holds
      BY <2>3 DEF ReturnFromMain, Doing
    <3>2. CleanEnd(program, Head(todo).code, Held, Shown) /\ Nested(program, Held)
      BY <1>2, <1>3, <3>1, GoesOnWell
    <3>3. Held' = Held /\ holds' \in [Layers -> 0..1]
      BY <3>1 DEF Held, ProcessGoesWell, Sorts
    <3>4. CleanEnd(program', exit', Held', Shown') /\ Nested(program', Held')
      BY <1>1, <1>4, <3>1, <3>2, <3>3
    <3>5. exit' # Running
      BY <3>4, ProgramsDoNotReturnRunning
    <3>. QED
      BY <3>1, <3>3, <3>4, <3>5 DEF MainGoesWell
  <2>. QED
    BY <2>1, <2>2, <2>3 DEF StepMain, BootstrapStep
<1>6. Sorts'
  BY <1>1, <1>5 DEF ProcessGoesWell, Sorts
<1>7. ReturnGoesOn' /\ ServerAndWork'
  BY <1>1 DEF ProcessGoesWell, ReturnGoesOn, ServerAndWork, debug
<1>. QED
  BY <1>5, <1>6, <1>7 DEF ProcessGoesWell

\* The program stands before its loop: what it is to do there goes well.
LEMMA EnteringGoesWell == ASSUME ProcessGoesWell, EnterLoop PROVE ProcessGoesWell'
<1>1. /\ at = "main" /\ program \in Galleries /\ todo # <<>> /\ Head(todo).does = "loop"
      /\ at' = (IF debug THEN "nrepl" ELSE "window")
      /\ UNCHANGED <<program, todo, holds, exit, nrepl, frame, ending>>
      /\ UNCHANGED <<submitted, waiting, running, kept>>
  BY DEF EnterLoop, Doing, bootstrapVars, frameVars, quiet, ownerQueue
<1>2. exit = Running /\ GoesWell(program, todo, Held, Shown)
  BY <1>1 DEF ProcessGoesWell, MainGoesWell
<1>3. /\ Held = InTheLoop
      /\ GoesWell(program, Tail(todo), InTheLoop, 1)
      /\ GoesWell(program, Head(todo).orElse, InTheLoop, 0)
  BY <1>1, <1>2, GoesOnWell
<1>4. ReturnGoesOn' /\ MainGoesWell'
  BY <1>1, <1>2, <1>3 DEF ReturnGoesOn, MainGoesWell, Held, InLoop, Doing, debug
<1>5. Sorts'
  BY <1>1 DEF ProcessGoesWell, Sorts, Places, debug
<1>6. ServerAndWork'
  BY <1>1 DEF ProcessGoesWell, ServerAndWork, debug, InLoop
<1>. QED
  BY <1>4, <1>5, <1>6 DEF ProcessGoesWell

\* The loop has left one of the two ways on.
LEMMA ReturningGoesWell == ASSUME ProcessGoesWell, ReturnToMain \/ Abort PROVE ProcessGoesWell'
<1>1. /\ at = "returned" /\ at' = "main" /\ UNCHANGED <<program, holds, exit, nrepl, ending>>
      /\ UNCHANGED <<submitted, waiting, running, kept>>
  BY DEF ReturnToMain, Abort, frameVars, quiet, ownerQueue
<1>2. /\ program \in Galleries /\ exit = Running /\ Held = InTheLoop
      /\ GoesWell(program, Tail(todo), InTheLoop, 1)
      /\ GoesWell(program, Head(todo).orElse, InTheLoop, 0)
  BY <1>1 DEF ProcessGoesWell, ReturnGoesOn, InLoop
<1>3. Held' = InTheLoop
  BY <1>1, <1>2 DEF Held
<1>4. frame' \in 0..MaxFrames /\ GoesWell(program, todo', InTheLoop, Shown')
  <2>1. CASE ReturnToMain
    <3>1. frame' \in 0..MaxFrames
      BY <2>1, HostAssumption DEF ReturnToMain, ProcessGoesWell, Sorts
    <3>2. CASE frame' > 0
      BY <1>2, <2>1, <3>1, <3>2 DEF ReturnToMain, Shown
    <3>3. CASE ~(frame' > 0)
      BY <1>2, <2>1, <3>1, <3>3 DEF ReturnToMain, Shown
    <3>. QED
      BY <3>1, <3>2, <3>3
  <2>2. CASE Abort
    <3>1. frame' = frame /\ todo' = <<Return(Aborted)>>
      BY <2>2 DEF Abort, frameVars
    <3>2. program \in JoltMains
      BY <1>2 DEF JoltMains
    <3>3. Nested(program, InTheLoop)
      BY <3>2, LayersOfTheMains
    <3>4. CleanEnd(program, Aborted, InTheLoop, Shown')
      BY DEF CleanEnd, InTheLoop, Aborted
    <3>. QED
      BY <3>1, <3>3, <3>4, ReturnGoesWell DEF ProcessGoesWell, Sorts
  <2>. QED
    BY <2>1, <2>2
<1>5. Nested(program, InTheLoop)
  BY <1>4, GoesOnWell
<1>6. MainGoesWell' /\ ReturnGoesOn'
  BY <1>1, <1>2, <1>3, <1>4, <1>5 DEF MainGoesWell, ReturnGoesOn
<1>7. Sorts' /\ ServerAndWork'
  BY <1>1, <1>4 DEF ProcessGoesWell, Sorts, ServerAndWork, Places, InLoop, debug
<1>. QED
  BY <1>6, <1>7 DEF ProcessGoesWell

\* In the loop only the window comes and goes, and the places go round.
LEMMA WindowGoesWell == ASSUME ProcessGoesWell, OpenWindow \/ CloseWindow PROVE ProcessGoesWell'
<1>1. /\ at # "main" /\ at' \in Places /\ at' # "main" /\ at' # "nrepl" /\ at' # "work"
      /\ at # "work"
      /\ UNCHANGED <<program, todo, exit, nrepl, frame, ending>>
      /\ UNCHANGED <<submitted, waiting, running, kept>>
  BY DEF OpenWindow, CloseWindow, frameVars, quiet, ownerQueue, Places, InLoop
<1>2. holds \in [Layers -> 0..1] /\ "window" \in Layers /\ "window" \notin InTheLoop
  BY DEF ProcessGoesWell, Sorts, Layers, InTheLoop
<1>3. /\ holds' \in [Layers -> 0..1]
      /\ Held' = IF at' \in InLoop THEN InTheLoop \union {"window"} ELSE InTheLoop
  <2>1. CASE OpenWindow
    <3>1. Held = InTheLoop /\ at' \in InLoop /\ Acquire("window")
      BY <2>1 DEF OpenWindow, ProcessGoesWell, ReturnGoesOn, InLoop
    <3>. QED
      BY <1>2, <3>1, AcquiringAdds
  <2>2. CASE CloseWindow
    <3>1. Held = InTheLoop \union {"window"} /\ at' \notin InLoop /\ Release("window")
      BY <2>2 DEF CloseWindow, ProcessGoesWell, ReturnGoesOn, InLoop
    <3>2. holds' \in [Layers -> 0..1] /\ Held' = Held \ {"window"}
      BY <1>2, <3>1, ReleasingRemoves
    <3>3. Held \ {"window"} = InTheLoop
      BY <1>2, <3>1
    <3>. QED
      BY <3>1, <3>2, <3>3
  <2>. QED
    BY <2>1, <2>2
<1>4. MainGoesWell' /\ ReturnGoesOn'
  BY <1>1, <1>3 DEF ProcessGoesWell, MainGoesWell, ReturnGoesOn, Doing
<1>5. Sorts'
  BY <1>1, <1>3 DEF ProcessGoesWell, Sorts
<1>6. nrepl' = "up" => debug' /\ at' \in InLoop \union {"window", "stop"}
  BY <1>1 DEF ProcessGoesWell, ServerAndWork, OpenWindow, CloseWindow, debug, InLoop
<1>7. ServerAndWork'
  BY <1>1, <1>6 DEF ProcessGoesWell, ServerAndWork
<1>. QED
  BY <1>4, <1>5, <1>7 DEF ProcessGoesWell

LEMMA ServerGoesWell == ASSUME ProcessGoesWell, StartNrepl \/ StopNrepl PROVE ProcessGoesWell'
<1>1. /\ at \in {"nrepl", "stop"} /\ at' \in {"window", "returned"}
      /\ nrepl' \in {"off", "up", "stopped"}
      /\ UNCHANGED <<program, todo, holds, exit, frame, ending>>
      /\ UNCHANGED <<submitted, waiting, running, kept>>
  BY DEF StartNrepl, StopNrepl, bootstrapVars, frameVars, quiet, ownerQueue,
         ProcessGoesWell, Sorts
<1>2. MainGoesWell' /\ ReturnGoesOn'
  BY <1>1 DEF ProcessGoesWell, MainGoesWell, ReturnGoesOn, Held, Doing, InLoop
<1>3. Sorts'
  BY <1>1 DEF ProcessGoesWell, Sorts, Places
<1>4. ServerAndWork'
  BY <1>1 DEF ProcessGoesWell, ServerAndWork, StartNrepl, StopNrepl, debug, InLoop
<1>. QED
  BY <1>2, <1>3, <1>4 DEF ProcessGoesWell

\* A frame and the work before it.
LEMMA LoopingGoesWell ==
  ASSUME ProcessGoesWell,
         \/ SkipOwnerWork \/ StartOwnerWork \/ FinishOwnerWork \/ FrameThrows
         \/ \E input \in Inputs : UpdateFrame(input)
  PROVE  ProcessGoesWell'
<1>1. /\ at \in InLoop /\ at' \in InLoop
      /\ frame' \in 0..MaxFrames
      /\ ending' \in {"none", "close", "time", "error"}
      /\ UNCHANGED <<program, todo, holds, exit, nrepl>>
  BY HostAssumption DEF SkipOwnerWork, StartOwnerWork, FinishOwnerWork, FrameThrows, UpdateFrame,
         bootstrapVars, frameVars, InLoop, TimeIsOver, ProcessGoesWell, Sorts
<1>2. running' # <<>> <=> at' = "work"
  <2>1. CASE SkipOwnerWork \/ FrameThrows \/ \E input \in Inputs : UpdateFrame(input)
    <3>1. at # "work" /\ at' # "work" /\ running' = running
      BY <2>1 DEF SkipOwnerWork, FrameThrows, UpdateFrame, quiet, ownerQueue
    <3>. QED
      BY <3>1 DEF ProcessGoesWell, ServerAndWork
  <2>2. CASE StartOwnerWork
    <3>1. at' = "work" /\ running' = <<Head(waiting)>>
      BY <2>2 DEF StartOwnerWork, Executor!Start
    <3>2. <<Head(waiting)>> # <<>>
      OBVIOUS
    <3>. QED
      BY <3>1, <3>2
  <2>3. CASE FinishOwnerWork
    BY <2>3 DEF FinishOwnerWork, Executor!Finish
  <2>. QED
    BY <2>1, <2>2, <2>3
<1>3. at' # "main" /\ at # "main" /\ at' # "nrepl" /\ at' \in Places
  BY <1>1 DEF InLoop, Places
<1>4. MainGoesWell' /\ ReturnGoesOn'
  BY <1>1, <1>3 DEF ProcessGoesWell, MainGoesWell, ReturnGoesOn, Held, Doing
<1>5. Sorts'
  BY <1>1, <1>3 DEF ProcessGoesWell, Sorts
<1>6. ServerAndWork'
  BY <1>1, <1>2, <1>3 DEF ProcessGoesWell, ServerAndWork, debug
<1>. QED
  BY <1>4, <1>5, <1>6 DEF ProcessGoesWell

LEMMA StillGoesWell ==
  ASSUME ProcessGoesWell,
         UNCHANGED <<program, todo, holds, exit, at, nrepl, frame, ending, running>>
  PROVE  ProcessGoesWell'
  BY DEF ProcessGoesWell, Sorts, MainGoesWell, ReturnGoesOn, ServerAndWork,
         Held, Shown, Doing, debug

LEMMA StepGoesOnWell == ProcessGoesWell /\ [Next]_vars => ProcessGoesWell'
<1> SUFFICES ASSUME ProcessGoesWell, [Next]_vars PROVE ProcessGoesWell'
  OBVIOUS
<1>1. CASE StepMain
  BY <1>1, MainGoesOnWell
<1>2. CASE EnterLoop
  BY <1>2, EnteringGoesWell
<1>3. CASE ReturnToMain \/ Abort
  BY <1>3, ReturningGoesWell
<1>4. CASE OpenWindow \/ CloseWindow
  BY <1>4, WindowGoesWell
<1>5. CASE StartNrepl \/ StopNrepl
  BY <1>5, ServerGoesWell
<1>6. CASE \/ SkipOwnerWork \/ StartOwnerWork \/ FinishOwnerWork \/ FrameThrows
           \/ \E input \in Inputs : UpdateFrame(input)
  BY <1>6, LoopingGoesWell
<1>7. CASE SubmitOwnerWork \/ UNCHANGED vars
  <2>1. UNCHANGED <<program, todo, holds, exit, at, nrepl, frame, ending, running>>
    BY <1>7 DEF SubmitOwnerWork, Executor!Submit, vars, bootstrapVars, frameVars, ownerQueue
  <2>. QED
    BY <2>1, StillGoesWell
<1>. QED
  BY <1>1, <1>2, <1>3, <1>4, <1>5, <1>6, <1>7 DEF Next, OwnerStep

-----------------------------------------------------------------------------
(* What the runs check                                                     *)

LEMMA WhatIsUp ==
  ASSUME ProcessGoesWell PROVE \A layer \in Layers : Up(layer) <=> layer \in Held
  BY DEF Up, Held

LEMMA WellIsHostInv == ASSUME ProcessGoesWell, GalleryTypeOK PROVE HostInv
<1>1. /\ Up("window") <=> "window" \in Held
      /\ Up("runtime") <=> "runtime" \in Held
      /\ Up("library") <=> "library" \in Held
  BY WhatIsUp DEF Layers
<1>2. TypeOK
  <2>1. exit \in -1..6 \union {42, Running, Aborted}
    BY DEF ProcessGoesWell, MainGoesWell, ReturnGoesOn, CleanEnd
  <2>. QED
    BY <2>1 DEF ProcessGoesWell, Sorts, TypeOK
<1>3. CASE at = "main"
  <2>1. Nested(program, Held)
    BY <1>3 DEF ProcessGoesWell, MainGoesWell
  <2>2. nrepl # "up" /\ at \notin InLoop
    BY <1>3 DEF ProcessGoesWell, ServerAndWork, InLoop
  <2>3. LayersAreNested
    BY <1>1, <2>1, <2>2 DEF LayersAreNested, Nested
  <2>4. PlaceFixesLayers
    BY <1>1, <1>3, <2>1, <2>2 DEF PlaceFixesLayers, Nested, ProcessGoesWell, ServerAndWork
  <2>. QED
    BY <1>2, <2>3, <2>4 DEF HostInv
<1>4. CASE at # "main"
  <2>1. /\ program \in Galleries /\ Doing("loop")
        /\ Held = IF at \in InLoop THEN InTheLoop \union {"window"} ELSE InTheLoop
    BY <1>4 DEF ProcessGoesWell, ReturnGoesOn
  <2>2. "runtime" \in Held /\ "library" \in Held /\ ("window" \in Held <=> at \in InLoop)
    BY <2>1 DEF InTheLoop
  <2>3. LayersAreNested
    BY <1>1, <2>2 DEF LayersAreNested
  <2>4. PlaceFixesLayers
    BY <1>1, <2>1, <2>2 DEF PlaceFixesLayers, ProcessGoesWell, ServerAndWork
  <2>. QED
    BY <1>2, <2>3, <2>4 DEF HostInv
<1>. QED
  BY <1>3, <1>4

LEMMA WellIsEndIsClean == ASSUME ProcessGoesWell PROVE EndIsClean
<1> SUFFICES ASSUME Ended PROVE EndIsClean
  BY DEF EndIsClean
<1>1. at = "main"
  BY DEF Ended, ProcessGoesWell, ReturnGoesOn
<1>2. CleanEnd(program, exit, Held, Shown)
  BY <1>1 DEF Ended, ProcessGoesWell, MainGoesWell
<1>3. nrepl # "up"
  BY <1>1 DEF ProcessGoesWell, ServerAndWork, InLoop
<1>4. Shown = 1 => frame > 0
  BY DEF Shown
<1>5. \A layer \in Layers : Up(layer) <=> layer \in Held
  BY WhatIsUp
<1>6. "window" \in Layers /\ "runtime" \in Layers /\ "petite path" \in Layers
      /\ "scheme path" \in Layers
  BY DEF Layers
<1>. QED
  BY <1>2, <1>3, <1>4, <1>5, <1>6 DEF EndIsClean, CleanEnd

LEMMA AlwaysGoesWell == Spec => []ProcessGoesWell
  BY GoesWellInitially, StepGoesOnWell, PTL DEF Spec

\* In every program, on every path through its failures and the loop's
\* exceptions, a layer is acquired once, within those below it, and released
\* once; the places of the two threads agree with the layers.
THEOREM LayersAreInOrder == Spec => []HostInv
<1>1. Settled(gallery) => GalleryTypeOK
  BY SettledIsPaired
<1>2. ProcessGoesWell /\ GalleryTypeOK => HostInv
  BY WellIsHostInv
<1>. QED
  BY <1>1, <1>2, AlwaysGoesWell, GalleryIsSettled, PTL

\* However a program returns, it has undone what it did and told the truth.
THEOREM EveryEndIsClean == Spec => []EndIsClean
  BY AlwaysGoesWell, WellIsEndIsClean, PTL
=============================================================================
