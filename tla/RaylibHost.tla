----------------------------- MODULE RaylibHost -----------------------------
(***************************************************************************)
(* The Raylib Android process: the native program that was built into it   *)
(* (Bootstrap), and of the gallery's the frame owner's loop run-loop       *)
(* (loop.clj) with its debug wrapper run-debug-loop (loop_debug.clj),      *)
(* which advances the gallery (Gallery) in every frame.                    *)
(*                                                                         *)
(* All of it is one thread; beside it nREPL workers submit owner work, for *)
(* which BoundedExecutor stands (OwnerQueue implements it).  Metrics,      *)
(* layout and pointer positions are abstracted to what a press hits;       *)
(* GalleryInput implements the gallery's frames from pixels.               *)
(***************************************************************************)
EXTENDS Gallery, Bootstrap

CONSTANTS
  MaxFrames,   \* bound: the frames that fit in duration-ms
  MaxPending, MaxResults, Requests    \* of the owner queue

ASSUME HostAssumption == MaxFrames \in Nat \ {0}

VARIABLES
  at,        \* where the thread is: in "main" or in a place of its loop
  nrepl,     \* the debug server: "off", "up" or "stopped"
  frame,     \* frame of run-loop, then the result of loop()
  ending,    \* history: why the loop was left: "close", "time" or "error"
  submitted, waiting, running, kept   \* BoundedExecutor

Executor == INSTANCE BoundedExecutor

ownerQueue == <<submitted, waiting, running, kept>>
frameVars  == <<frame, galleryVars, ending>>
vars       == <<at, bootstrapVars, nrepl, frameVars, ownerQueue>>

-----------------------------------------------------------------------------
Init ==
  /\ BootstrapInit
  /\ GalleryInit
  /\ at = "main"
  /\ nrepl = "off"
  /\ frame = 0
  /\ ending = "none"
  /\ Executor!Init

quiet == UNCHANGED ownerQueue
debug == program = "gallery debug"

StepMain ==
  /\ at = "main"
  /\ BootstrapStep
  /\ UNCHANGED <<at, nrepl, frameVars>>
  /\ quiet

EnterLoop ==
  /\ at = "main"
  /\ program \in Galleries
  /\ Doing("loop")
  /\ at' = IF debug THEN "nrepl" ELSE "window"
  /\ UNCHANGED <<bootstrapVars, nrepl, frameVars>>
  /\ quiet

(* run-debug-loop                                                          *)
StartNrepl ==
  /\ at = "nrepl"
  /\ nrepl' \in {"up", "off"}      \* a startup failure is caught
  /\ at' = "window"
  /\ UNCHANGED <<bootstrapVars, frameVars>>
  /\ quiet

StopNrepl ==
  /\ at = "stop"
  /\ nrepl' = IF nrepl = "up" THEN "stopped" ELSE nrepl
  /\ at' = "returned"
  /\ UNCHANGED <<bootstrapVars, frameVars>>
  /\ quiet

\* The exported function hands its result to C, which looks at it after the
\* shutdown.  What an exception becomes there is the runtime's business: some
\* result, or the end of the process.
ReturnToMain ==
  /\ at = "returned"
  /\ frame' \in IF ending = "error" THEN {0, 1} ELSE {frame}
  /\ todo' = IF frame' > 0 THEN Tail(todo) ELSE Head(todo).orElse
  /\ at' = "main"
  /\ UNCHANGED <<program, holds, exit, nrepl, galleryVars, ending>>
  /\ quiet

Abort ==
  /\ at = "returned"
  /\ ending = "error"
  /\ todo' = <<Return(Aborted)>>
  /\ at' = "main"
  /\ UNCHANGED <<program, holds, exit, nrepl, frameVars>>
  /\ quiet

(* run-loop                                                                *)
OpenWindow ==
  /\ at = "window"
  /\ Acquire("window")
  /\ at' = "owner"
  /\ UNCHANGED <<program, todo, exit, nrepl, frameVars>>
  /\ quiet

\* process-one-owner-request!: at most one request; what it throws is caught.
SkipOwnerWork ==
  /\ at = "owner"
  /\ waiting = <<>>
  /\ at' = "update"
  /\ UNCHANGED <<bootstrapVars, nrepl, frameVars>>
  /\ quiet

\* Mutant: what is still waiting when the loop ends is run then.
StartLeftOverWork ==
  /\ at \in {"owner", "stop"}
  /\ Executor!Start
  /\ at' = "work"
  /\ UNCHANGED <<bootstrapVars, nrepl, frameVars>>

StartOwnerWork ==
  /\ at = "owner"
  /\ Executor!Start
  /\ at' = "work"
  /\ UNCHANGED <<bootstrapVars, nrepl, frameVars>>

FinishOwnerWork ==
  /\ at = "work"
  /\ Executor!Finish
  /\ at' = "update"
  /\ UNCHANGED <<bootstrapVars, nrepl, frameVars>>

\* Mutant: the time limit is only looked at in the gallery.
TimeIsOverInGallery == frame = MaxFrames /\ gallery.mode = "gallery"

\* elapsed >= duration-ms: at the latest in frame MaxFrames.
TimeIsOver == frame = MaxFrames

\* The pure part of a frame: counter, gallery and exit check, then drawing.
UpdateFrame(input) ==
  /\ at = "update"
  /\ Frame(input)
  /\ \/ /\ ~TimeIsOver /\ ~gallery'.closeRequested
        /\ frame' = IF frame = MaxFrames THEN frame ELSE frame + 1
        /\ at' = "owner"
        /\ UNCHANGED ending
     \/ /\ gallery'.closeRequested
        /\ at' = "finally" /\ ending' = "close" /\ UNCHANGED frame
     \/ /\ ~gallery'.closeRequested      \* slow frames: fewer fit in the time
        /\ at' = "finally" /\ ending' = "time" /\ UNCHANGED frame
  /\ UNCHANGED <<bootstrapVars, nrepl>>
  /\ quiet

\* A scene, or a Var that a debug session has redefined, throws.
FrameThrows ==
  /\ at = "update"
  /\ at' = "finally"
  /\ ending' = "error"
  /\ UNCHANGED <<bootstrapVars, nrepl, frame, galleryVars>>
  /\ quiet

CloseWindow ==
  /\ at = "finally"
  /\ Release("window")
  /\ at' = IF debug THEN "stop" ELSE "returned"
  /\ UNCHANGED <<program, todo, exit, nrepl, frameVars>>
  /\ quiet

\* An nREPL worker calls submit-owner!.
SubmitOwnerWork ==
  /\ nrepl = "up"
  /\ \E request \in Requests : Executor!Submit(request)
  /\ UNCHANGED <<at, bootstrapVars, nrepl, frameVars>>

-----------------------------------------------------------------------------
OwnerStep ==
  \/ StepMain \/ EnterLoop
  \/ StartNrepl \/ OpenWindow
  \/ SkipOwnerWork \/ StartOwnerWork \/ FinishOwnerWork
  \/ (\E input \in Inputs : UpdateFrame(input))
  \/ FrameThrows
  \/ CloseWindow \/ StopNrepl \/ ReturnToMain \/ Abort

Next == OwnerStep \/ SubmitOwnerWork

Spec == Init /\ [][Next]_vars

\* The owner thread runs, time passes and owner work is short.
FairSpec == Spec /\ WF_vars(OwnerStep)

-----------------------------------------------------------------------------
Ended == exit # Running

InLoop == {"owner", "work", "update", "finally"}
Places == {"main", "nrepl", "window", "stop", "returned"} \union InLoop

TypeOK ==
  /\ program \in Programs
  /\ holds \in [Layers -> 0..1]
  /\ exit \in -1..6 \union {42, Running, Aborted}
  /\ at \in Places
  /\ nrepl \in {"off", "up", "stopped"}
  /\ frame \in 0..MaxFrames
  /\ GalleryTypeOK
  /\ ending \in {"none", "close", "time", "error"}

\* A loop that was left by Back left no scene alive: Back in a scene only ever
\* goes to the gallery, and only a further Back ends the loop.
OrderlyCloseDisposes ==
  ending = "close" => gallery.mode = "gallery" /\ \A s \in Scenes : gallery.live[s] = 0

Up(layer) == holds[layer] = 1

\* Each layer is up only while the layers below it are, on every path through
\* the programs' failures and the loops' exceptions: the window is closed and
\* the server stopped before Jolt is shut down, and that before the dlclose.
\* The plain program has no runtime, the bare Chez probe no library.
LayersAreNested ==
  /\ Up("window") /\ program # "plain" => Up("runtime")
  /\ nrepl = "up" => Up("runtime")
  /\ Up("runtime") /\ program # "chez answer" => Up("library")

\* What each place of the owner thread knows of the layers and of the queue:
\* the window is there exactly in the loop, the server only around it, and
\* work of a debug session runs on the owner where there is a window.
PlaceFixesLayers ==
  /\ at # "main" => program \in Galleries /\ Doing("loop") /\ Up("runtime")
  /\ program \in Galleries => (Up("window") <=> at \in InLoop)
  /\ nrepl = "up" => debug /\ at \in InLoop \union {"window", "stop"}
  /\ running # <<>> <=> at = "work"

\* Every layer is acquired and released at most once, each within the one
\* below it, and the threads' places agree with them.
HostInv == TypeOK /\ LayersAreNested /\ PlaceFixesLayers

\* A program of the app that returns has undone everything it did, whatever
\* failed, and it reports success only after its window was closed.  A harness
\* that reports success has shut the runtime down; when it fails, and in the
\* probe of the bare runtime, that is left to the end of the process.
EndIsClean ==
  Ended =>
    /\ ~Up("window") /\ nrepl # "up"
    /\ exit # Aborted /\ program \in TidyMains => \A layer \in Layers : ~Up(layer)
    /\ exit = 0 => ~Up("runtime") /\ (program \in Galleries => frame > 0)
    /\ exit = 42 => ~Up("petite path") /\ ~Up("scheme path")

\* The process ends, whatever fails, is pressed, thrown or submitted: the
\* gallery by Back, by an error, or after duration-ms, also inside a scene.
ProcessEnds == ~Ended ~> Ended
=============================================================================
