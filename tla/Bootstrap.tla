----------------------------- MODULE Bootstrap -----------------------------
(***************************************************************************)
(* The native programs that bring the Jolt runtime up, call what it        *)
(* exports and take it down again: the NativeActivity mains under raylib/, *)
(* the two host harnesses, and the probe of the bare Chez runtime.         *)
(*                                                                         *)
(* A program is the sequence of what its C function does.  A step that may *)
(* fail carries what is done then instead of the rest.  The steps of the   *)
(* gallery's loop are RaylibHost's.                                        *)
(***************************************************************************)
EXTENDS Integers, Sequences

VARIABLES
  program,   \* the program that runs
  todo,      \* what it still does
  holds,     \* per layer, how often it was acquired less how often released
  exit       \* what the program returned

bootstrapVars == <<program, todo, holds, exit>>

Running == 100     \* no program returns this
Aborted == 101     \* the end of a process that abort() ends

Layers   == {"library", "runtime", "window", "petite path", "scheme path"}
Acquires == [dlopen |-> "library", init |-> "runtime", initWindow |-> "window",
             petitePath |-> "petite path", schemePath |-> "scheme path"]
Releases == [dlclose |-> "library", shutdown |-> "runtime", closeWindow |-> "window",
             releasePetite |-> "petite path", releaseScheme |-> "scheme path"]

Try(does, orElse) == [does |-> does, orElse |-> orElse, code |-> Running]
Do(does)          == Try(does, <<>>)
Return(code)      == [does |-> "return", orElse |-> <<>>, code |-> code]

-----------------------------------------------------------------------------
(* The programs                                                            *)

\* Mutant: a failure after the initialisation leaves the runtime up.
UndoLibrary(code) == <<Do("dlclose"), Return(code)>>

Undo(code) == <<Do("shutdown"), Do("dlclose"), Return(code)>>

\* What the mains have in common, up to their first lookup of an export.
BringUp == <<Try("dlopen", <<Return(1)>>),
             Try("symbols", <<Do("dlclose"), Return(2)>>),
             Try("init", <<Do("dlclose"), Return(3)>>)>>

\* The export answers 7, or something else.
NoopMain == BringUp \o <<Try("lookup", Undo(4)), Try("answer", Undo(5))>> \o Undo(0)

\* First the linked Raylib is asked itself, then through Jolt: the width is 0
\* while there is no window.
TopologyMain ==
  <<Do("directWidth")>> \o BringUp
    \o <<Try("lookup", Undo(4)), Try("answer", Undo(5))>> \o Undo(0)

\* raylib_first_frame answers its constant 120 also if the window is closed
\* early.  If a frame throws, the window is closed all the same; what the
\* exception becomes in C, a result or the end of the process, is the runtime's.
firstFrame ==
  <<Do("initWindow"),
    Try("frames", <<Do("closeWindow"), Try("unwind", <<Return(Aborted)>>),
                    Try("answer", Undo(5))>> \o Undo(0)),
    Do("closeWindow")>>

FrameMain == BringUp \o <<Try("lookup", Undo(4))>> \o firstFrame \o Undo(0)

\* No library: a window for at most 600 frames.
PlainMain == <<Do("initWindow"), Do("frames"), Do("closeWindow"), Return(0)>>

\* The gallery.  What the seven probes of the aggregate ABI and its
\* verification (AggregateAbi) answer is logged only, but verify! may throw
\* into C; a release build must not know the debug loop.
GalleryMain(debug) ==
  <<Do("probeSocket")>> \o BringUp
    \o <<Try("lookupProbes", Undo(4)), Try("lookupVerify", Undo(4)),
         Try("verify", <<Return(Aborted)>>)>>
    \o (IF debug THEN <<>> ELSE <<Try("missDebugLoop", Undo(6))>>)
    \o <<Try("lookup", Undo(4))>> \o <<Try("loop", Undo(5))>> \o Undo(0)

\* native/jolt-library-harness.c: a failure returns at once, and nothing ever
\* closes the library; 100 allocations, each of which may fail.
LibraryHarness ==
  <<Try("usage", <<Return(2)>>), Try("dlopen", <<Return(1)>>), Try("symbols", <<Return(1)>>),
    Try("init", <<Return(1)>>), Try("lookup", <<Return(1)>>), Try("answer", <<Return(1)>>),
    Try("allocate", <<Return(1)>>), Do("shutdown"), Return(0)>>

\* RAY-005's raylib-library-harness.c
RaylibHarness ==
  <<Try("usage", <<Return(2)>>), Try("dlopen", <<Return(1)>>), Try("symbols", <<Return(3)>>),
    Try("init", <<Return(3)>>), Try("lookup", <<Return(4)>>), Try("answer", <<Return(4)>>),
    Do("shutdown"), Return(0)>>

\* nativeChezAnswer: both paths are fetched before either is looked at, and
\* building the heap may abort; the sum it returns is ChezValues' business.
chezCall == <<Do("init"), Do("registerBootFiles"), Try("buildHeap", <<Return(Aborted)>>),
              Do("call"), Do("releasePetite"), Do("releaseScheme"), Return(42)>>

ChezAnswer ==
  <<Try("petitePath", <<Try("schemePath", <<Return(-1)>>), Return(-1)>>),
    Try("schemePath", <<Return(-1)>>)>> \o chezCall

Galleries == {"gallery", "gallery debug"}
TidyMains == Galleries \union {"noop", "topology", "frame", "plain"}
Harnesses == {"library harness", "raylib harness"}
Programs  == TidyMains \union Harnesses \union {"chez answer"}

StepsOf(name) ==
  CASE name = "gallery"         -> GalleryMain(FALSE)
    [] name = "gallery debug"   -> GalleryMain(TRUE)
    [] name = "noop"            -> NoopMain
    [] name = "topology"        -> TopologyMain
    [] name = "frame"           -> FrameMain
    [] name = "plain"           -> PlainMain
    [] name = "library harness" -> LibraryHarness
    [] name = "raylib harness"  -> RaylibHarness
    [] name = "chez answer"     -> ChezAnswer

-----------------------------------------------------------------------------
(* Running them                                                            *)
BootstrapInit ==
  /\ program \in Programs
  /\ todo = StepsOf(program)
  /\ holds = [layer \in Layers |-> 0]
  /\ exit = Running

Acquire(layer) == holds' = [holds EXCEPT ![layer] = @ + 1]
Release(layer) == holds' = [holds EXCEPT ![layer] = @ - 1]

Doing(does) == todo # <<>> /\ Head(todo).does = does

Succeed ==
  /\ todo # <<>>
  /\ Head(todo).does \notin {"return", "loop"}
  /\ LET does == Head(todo).does
     IN  IF does \in DOMAIN Acquires THEN Acquire(Acquires[does])
         ELSE IF does \in DOMAIN Releases THEN Release(Releases[does])
         ELSE UNCHANGED holds
  /\ todo' = Tail(todo)
  /\ UNCHANGED <<program, exit>>

Fail ==
  /\ todo # <<>>
  /\ Head(todo).does # "loop"
  /\ Head(todo).orElse # <<>>
  /\ todo' = Head(todo).orElse
  /\ UNCHANGED <<program, holds, exit>>

ReturnFromMain ==
  /\ Doing("return")
  /\ exit' = Head(todo).code
  /\ todo' = <<>>
  /\ UNCHANGED <<program, holds>>

BootstrapStep == Succeed \/ Fail \/ ReturnFromMain
=============================================================================
