# A verification of the Jolt Android experiment in TLA+

The repository embeds one Jolt/Chez runtime in several hosts (a Compose Android
app, a Raylib NativeActivity, a GTK desktop program, a CLI) around one pure
reducer. What is hard about it is not the reducer but who may call the runtime,
when, from which thread, and what happens to calls that are queued, late, refused
or cut off by a failure. These modules model that, TLC checks it on small
instances, and TLAPS proves the central results for every instance.

All paths below are relative to the repository's root. `PROJECT.json` holds, for
every definition that models code, the lines it translates.

## 1. The system

| Part | State it keeps | Operations | What is hard |
|---|---|---|---|
| Reducer and contracts (`src/shared/poc`) | none: `step` is pure | `step`, `permitted-effect?` | nothing concurrent; every host depends on it |
| JNI session (`app/src/main/cpp/jolt_probe.c`) | C statics: started, finished, owner, function pointers | dispatch, eval, wrong-thread probe, shutdown | any thread may call at any time; the lock covers the flags only; initialisation fails half way |
| Jolt exports (`experiments/EXP-004-.../native.clj`) | `app-state` inside the runtime | `poc_dispatch`, `poc_debug_eval` | may run for ever, may be entered late |
| Android host (`JoltRuntime.kt`, `MainActivity.kt`, `DebugEvalServer.java`) | a HandlerThread's queue per activity, main looper, latch per request | lifecycle callbacks, buttons, debug requests, close | activity recreation, late results, joins on the main thread, posts behind the shutdown or dropped, silent debug clients |
| GTK host (`src/linux/poc/gtk_app.jolt`) | two reactive atoms, a file | `dispatch!`, `app`, `initial-model` | nREPL workers beside the GTK thread, failing writes, writes that overlap, crashes |
| Raylib owner queue (`repl_queue.cljc`, `loop.clj`) | an atom with pending requests and results | `submit-owner!`, `owner-result`, one request per frame | compare-and-set between workers and owner, limits |
| Raylib host (`loop-android/.../main.c`, `loop.clj`, `loop_debug.clj`, `gallery.cljc`, `app.cljc`) | library, runtime, debug server, window, gallery and model | bootstrap stages, frames, navigation | unwinding in every failure, several inputs in a frame |
| Earlier Raylib mains, host harnesses, Chez probe (C) | library, runtime, window, borrowed strings | their stages in a row | the same unwinding, written out again in each program |
| Gallery geometry and input (`gallery_ui.cljc`, `diagnostics.cljc`), small scenes | the scene's state | layout, hit test, normalisation, scene steps | integer layout on any screen, a screen that turns in mid-gesture, presses and holds that mean different things |
| Flappy Bird (`flappy_bird.cljc`) | bird, pipes, score | `step` once a frame | long games; frames of any length, pauses, turned screens |
| Aggregate ABI (`abi.clj`, `aggregate_oracle.c`) | none kept | `verify!` | layouts of C structs declared a second time |
| Chez headers (`native/chez/android-arm64`, vendored) | tagged words | predicates, constructors, accessors | literals repeated in two files, values at the limits |
| CLI, wire codec, conformance | an atom per run | decode, step, encode | size limits |

How they interact. The hosts call the reducer directly (GTK, Raylib, CLI) or
through the JNI session and `poc_dispatch` (Android). On Android every call is
posted to the activity's runtime thread and its result comes back as a message of
the main looper; the debug server is a third thread that posts to the same queue
and waits on a latch. In the Raylib process one thread owns the window and the
runtime; nREPL workers only store closures in the owner queue. In the GTK process
an nREPL worker may call `dispatch!` itself, beside the GTK thread.

What makes each part correct:

- session: one owner for the process, one opening, exports only between opening
  and closing, no call through a null pointer or into a dead runtime;
- Android host: no event of the owner lost, reordered or applied after the
  shutdown; every debug client that does not fall silent, or stand behind one that
  does, answered, and with its own result; a destroyed activity leaves nothing
  running that no client holds;
- owner queue: every accepted request runs once, in order, on the owner, within
  the limits, and its result is found afterwards;
- Raylib host: scenes, window, server, runtime and library paired and nested on
  every path; the process ends;
- bootstraps: what a program has acquired it releases, in order, whichever stage
  fails;
- gallery: one press means one thing, on every screen; a scene only ever sees a
  state of its own, within its limits;
- ABI: what the verification accepts is what C has;
- headers: the two vendored tables agree, so every reader of a word takes it for what
  it was made as;
- Flappy Bird: the course keeps its spacing, each pipe passed counts once, none is
  jumped over, and the cutting of time into frames does not change the flight;
- GTK host: the file holds a counter the model has had or a value it was asked to
  store, as far as writes do not overlap; failures do not change the model; the
  window shows the latest state in the end.

## 2. Modules

| Module | Models | Checked by | Proofs |
|---|---|---|---|
| `Contracts`, `Reducer` | effect and capability tables; `step` | through the hosts | |
| `SessionContract` | ADR-0002 as an abstract specification | | |
| `JniSession` | `jolt_probe.c` | `jni_session`, `jni_failed_init` | `JniSessionProofs` |
| `AndroidHost` | the three Android classes over `SessionContract` | `android_*` | `AndroidHostProofs` |
| `BoundedExecutor` | what RAY-017's README promises | | |
| `OwnerQueue` | the owner queue and its two sides | `owner_queue` | `OwnerQueueProofs` |
| `Bootstrap` | the native programs, as sequences of stages | `raylib_host` | `RaylibHostProofs` |
| `Gallery` | a frame of the gallery, abstractly | `raylib_host` | `RaylibHostProofs` |
| `RaylibHost` | bootstrap, loop and gallery over `BoundedExecutor` | `raylib_host` | `RaylibHostProofs` |
| `GalleryUI` | the gallery's geometry | `sequential_parts` | `SequentialPartsProofs` |
| `GalleryInput` | a frame of the gallery from pixels, and the small scenes | `sequential_parts` | `SequentialPartsProofs` |
| `ChezValues` | the values of `scheme.h` and `equates.h` | `sequential_parts` | `SequentialPartsProofs` |
| `AggregateAbi` | `abi.clj` and its C oracle | `sequential_parts` | `AggregateAbiProofs` |
| `SequentialParts` (instance in `MCSequentialParts`) | the three parts before, side by side | `sequential_parts` | `SequentialPartsProofs` |
| `GtkHost` (instances in `MCGtkHost`) | `gtk_app.jolt` | `gtk_host`, `gtk_race` | `GtkHostProofs` |
| `FlappyBird` (instance in `MCFlappyBird`) | `flappy_bird.cljc` | `flappy_bird` | `FlappyBirdProofs` |

The composition follows the promises: `JniSession` implements `SessionContract`
and `AndroidHost` uses the contract; `OwnerQueue` implements `BoundedExecutor`
and `RaylibHost` uses the executor; `GalleryInput` implements `Gallery` and
`RaylibHost` uses the gallery. A host is thus explored without the steps inside
the component below it. `SequentialParts` composes nothing: it puts three parts
that run on one thread and share no state into one run.

What could come next: `AndroidHost` with the text of a response, so that the
substring matching of `MainActivity.kt:46-57` can be checked for models that name an
effect (no event the app dispatches makes one).

## 3. How the modules correspond to the code

**JniSession.** One thread step per stretch of code between two points where
another thread can act: the critical section of `ensure_session` is one step
(`RefuseClosed`, `RefuseWrongThread`, `AdmitOwner`, `ClaimSession`: its four
exits), the unlocked initialisation is three (`LoadLibrary`, `InitializeRuntime`,
`LookUpExports`), then entering and leaving the export, and shutdown's critical
section and its unlocked call of `shutdown_runtime`. The function pointers are
variables: null pointers are called if the code calls them, and the process then dies
(`fault`). After a missing export the runtime is `"down"` but the session still
counts as started, exactly as in the code. Unused export pointers
(`lifecycle_code` and its like) have no variable.

**AndroidHost.** An activity's number stands for its runtime thread. A launch is
one step because `onCreate`, `onStart` and `onResume` are one message of the main
looper. `taskQ` is the HandlerThread's queue with the running task at its head,
`mainQ` the callbacks posted to the main looper, of which only those that leave
something behind are kept (a latch, the permission prompt). `Posted` drops a task
if the looper is quitting. A debug build is modelled; an activity whose server
could not bind behaves as a release build does. Forms sent to the debug server
return or never return; they do not change `app-state`.

The debug server's thread is sequential, and each of its waits is a place where
others act: a client connects (`Connect`, into the socket's `backlog`), is accepted
(`Accept`, `reading`), sends its line, which is posted (`ReadLine`, `waiting`), or
breaks off (`HangUp`), and is told a result or a timeout (`AnswerRequest`, `TimeOut`).
An accepted connection outlives the server socket. So a line may arrive after
`onDestroy` closed the socket, while it joins, or after the join gave up: its form
then comes to lie in front of the shutdown, behind it, where `ensure_session` refuses it,
or reaches a looper that is quitting, which drops it. `CloseSocket` cuts off the
clients that were still in the backlog. `readLine` has no time limit, so a client in
`Silent` holds the server's thread for ever, and the clients behind it as long as the
socket is open; the next activity can bind the port once it is closed.

**OwnerQueue.** Dereferencing the atom and the compare-and-set are separate
steps, on both sides. A failed compare-and-set is a step back to the dereference.
Values are compared, where the runtime compares identities: the states of this
queue that are equal are interchangeable here, so no behaviour is lost that the
properties could see.

**Bootstrap.** A native program is the sequence of what its C function does
(`GalleryMain`, `NoopMain`, ...); a stage that may fail carries what is done
then instead of the rest, so a failure's undoing is data that can be wrong, as in
the code. `holds` counts what was acquired less what was released. The Boolean
answers of lookups and exports are choices. `"chez answer"` is the probe of
EXP-002, whose arithmetic is `ChezValues`' business.

**Gallery, RaylibHost.** `main` and the loop are one thread, so each stage is one
step. A frame's input is the Back key, what the pointer hits, and the counter key,
all combinations of them. The canvas Back target needs no press in the code and
none here. `live` keeps per scene the `:init` events less the `:dispose` events of
`:scene-events`. A frame may throw; what the exported function makes of an
exception is left to the runtime (some result, or an abort). The same goes for
`verify!`, which may throw into `main`.

**GalleryUI, GalleryInput.** `GalleryUI` is the integer arithmetic of
`diagnostics/layout`, `gallery-layout` and `counter-controls`, with `quot`
truncating as the code's does. `GalleryInput` starts from a sample of Raylib, any
combination of keys, buttons, touches and a pixel, normalises it as `poll-input`
and `normalize-input` do, and runs a frame: counter event, canvas Back, open or
update. The screen may turn between any two frames. The states of the scenes are
records of their own, so that one scene handed another's state is visible.
`Abstract` maps a scene's state back to the scene that made it. The counter's
controls count in every scene, although they are drawn in the placeholder only:
so does the code.

**ChezValues** is about two vendored tables, not about the app: `chez_probe.c` includes
`scheme.h` and uses `Sfixnum` and `Sfixnum_value` of it, and no C source includes
`equates.h`. Words have `WordBits` bits (24 at least, which the flags of ports
need; the code has 64), masks of the whole word shrink with it, and so do the
limits that are all ones above a tag. The `Make` actions make a value with the
constructors of `scheme.h`, or give an object the header the runtime would;
`Mask` and `Type` are `equates.h`'s, the predicates `scheme.h`'s. `(x & mask) == type`
is `matches`, which compares the words bit by bit in arithmetic: the provers know
no bitwise operators. Code objects have any of their flags, ports those in
`PortFlagSets`, joined by `joined` as `|` does.

**AggregateAbi.** A declaration is a sequence of members, which `layoutOf` lays
out as `jolt.ffi/layout` does, with C's alignment; memory is bytes that know what they
were written as, so a field read at a wrong place or size gives garbage. The edits
are the mistakes one makes in declarations: swapped, resized, forgotten fields.

**GtkHost.** `dispatch!` is read-and-step, commit, effects, report; `spit` is
truncation and write. The file is a text, kept as the number its digits spell and the
characters they take: `Numeral` is `pr-str` of a number, and `Overlay` what a write from
offset 0 leaves of a longer text that another call wrote after the truncations. So
10 written and then 9 leave 90, which the model never had (after a restart it has, for the
model is restored from the file). A text that
begins with a 0 counts as the number of its digits. A text is written as a whole:
`spit` hands it over in one piece. The buttons dispatch counter events, the REPL's calls
any event, among them a request to store a value of its own. Repainting reads the two atoms
one after the other on the GTK thread; that a change of either queues a repaint is
Glimmer's part and external.

**FlappyBird** is `step` by its `cond`: `Restart`, a frame without time (a
stutter), `Fly`. A frame's screen may differ from the last one's in being turned,
which keeps the scale. A replacement keeps the slot of the pipe it replaces, as in
the code's vector. `left` and `cleared` are history: pipes that have left, and
slots in whose gap the bird has been seen. Two things show up that the properties
state with care: a replacement stands up to a frame's scroll further than the
"stable metric-scaled spacing" of the comment at `flappy_bird.cljc:49`, because it
is placed by the position of a frame before; and gaps laid out before a turn of
the screen may be out of reach after it, so no property says that a game can go on.

**Reducer** follows `step` case by case; titles, URIs and texts of effects are
left out but for the counter they carry. A requested effect is emitted as the event has it,
payload and all (`RequestEffect`), and need not carry the counter.

## 4. Runs

| Run | Instance | Shows |
|---|---|---|
| `jni_session` | 2 threads, all stages may fail | ownership, one session, no undefined call without a failed initialisation, no call after closing, answers to foreign threads, refinement of the contract |
| `jni_failed_init` | exports missing | **finding**: dead runtime entered after a failed initialisation (`docs/GOTCHAS.md:49-50`) |
| `android_host` | 2 activities, 2 inputs (buttons, permission prompt, return, debug clients) | the model follows the owner's events; the shutdown is last; no foreign answers |
| `android_live` | 2 activities, a silent debug client and one with an endless form | the two hold their own threads and who stands behind them, nobody else; destroyed activities end; the other clients are answered |
| `android_recreated` | 2 activities | **finding**: a second runtime thread, refused (ADR-0002) |
| `android_prompt` | permission button | **finding**: the dialog's result is not dispatched (`docs/ARCHITECTURE.md:49-50`) |
| `owner_queue` | 2 workers, 5 submissions, limits of 2 | order, exactly once, limits, newest results, progress, refinement |
| `raylib_host` | 9 programs; in the gallery 2 scenes, 6 frames, 3 requests | scenes and layers paired, clean end, termination |
| `gtk_host` | 2 threads, 3 dispatches, 1 crash, failing writes, counters of one and two digits, a requested write | persistence and failure semantics, repaint |
| `gtk_race` | 2 threads, 2 dispatches | **finding**: a `:completed` write is not on disk (`docs/DEVELOPMENT.md:101-102`) |
| `flappy_bird` | 3 pipes, 2 screens, 4 points | spacing, scoring, no tunnelling, independence of frame times |
| `sequential_parts` | a phone that turns, 9 pixels; words of 26 bits; 2 mistakes in a declaration | sound layout, no press that means two things, scene states within limits, refinement of `Gallery`; values classified and decoded; verified structs read rightly |

Bounds. Two threads race for the session: a third adds only another refused
caller, and the proofs cover any number. Two activities are the recreation case;
a third is again refused. Two
inputs in a run (`MaxInputs`) are a timed-out request and the next one, a press
and its dialog, or a press between a restart and a debug client; a third only
repeats one of them. `android_live` has no presses: a silent client, and behind it or
at the other activity's server one with an endless form, are the two ways to hold a
thread, and each also happens without the other. Limits of two with five submissions fill the queue while
results are evicted (the code's 16 and 64 change the numbers, not the steps). Six
frames allow a scene to be opened, left, another opened and left, and the gallery
closed. Three dispatches and a crash give a race, a failure and a restart in one
behaviour. The file starts with a 9, so that an increment makes the counter wider, a
decrement narrower again, and a requested 5 is narrower than the 10: two overlapping writes do mix. The nine pixels hit the Back target, every card in one of the two
orientations, and a control in each; more pixels of the same rectangle change
nothing, and `LayoutStaysSound` is proved for all screens. A trail and a log of two
are cut at their third entry. Words of 26 bits hold every literal of the headers;
lengths and fixnums are tried at zero, in between and at the limits, ports with up
to three flags at once; the proofs cover any width and any flags. Two
mistakes are the least that can hide one another. The game is played on
a coarse screen (steps of twenty pixels) where a capped frame scrolls four times as
far as in the code, so that hand-overs and jumps come close to the limits; four
points are one more than the pipes there are, so a recycled pipe is passed too.
`CHECK_DEADLOCK FALSE` stands where the bounds, or the end of the
process, stop the system; the JNI session is checked for deadlock.

Every property has a mutant of the code, an operator next to the one it replaces,
under which TLC finds it violated.

Fairness. Native code, loopers, server threads and the frame owner are scheduled
(weak fairness of their steps): they are operating system threads, and the steps
are finite stretches of code. An export or debug form need *not* return
(`ExportReturns` is unfair in `JniSession`, `EvalReturns` is disabled for `Endless`
requests). Timeouts fire (`TimeOut`, `JoinReturns`): the code passes them
durations. Users and workers owe nothing, apart from answering a shown
dialog in `android_prompt`. A debug client owes a line or the end of its connection unless it
is one of `Silent`: the server's thread is scheduled (`ServerStep`), and for a
silent client none of its steps is enabled. Owner work is assumed to be short, which
`submit-owner!` asks of its callers.

## 5. Proofs

`JniSessionProofs` proves about `JniSession`, for any set of threads and any set of
failing stages, from `NoThread \notin Threads` and `Failures \subseteq InitStages`:

- `SessionInvariant`: the inductive invariant `SessionInv`. `OwnerOnly` alone is
  not inductive: that a thread in runtime code is the owner says nothing of the
  runtime's phase. `SessionInv` adds what each place of the owner knows
  (`PlaceFixesPhase`), that an unclaimed session is fresh, that an open one is
  usable (`OpenIsUsable`) and that a failed one is down.
- `OnlyTheOwnerEnters`, `NoFaultUnlessInitFailed`, `NeverFailingNeverFaults`: the
  safety of the session follows from it.
- `OneSessionHolds`, `NoEntryAfterFinishHolds`: action properties from the same
  invariant.
- `Refinement`: each step is a step or a stutter of `SessionContract`, with the
  phase computed from the flags and the owner's place.

`OwnerQueueProofs` proves about `OwnerQueue`, for any set of workers, any limits of
at least one and any number of submissions (`QueueAssumption`), whichever
requests throw:

- `QueueInvariant`: the inductive invariant `QueueInv`. Next to what a user of the
  queue relies on (order, newest results, unique ids) it says what each snapshot
  is still worth: `SnapshotsAllowTheStep`, that a worker about to swap read a queue
  with room and the owner about to swap read one with a head, so a compare-and-set
  that succeeds may be applied to the queue as it is now; and `IdsWereDrawn`, that
  every accepted id was drawn before, so that a fresh id is new, accepted ids stay
  distinct, and a completed request is new to the result table. Without the last,
  `NewestResultsKept` is not inductive: a repeated id would occupy two places of
  the order and one of the table.
- `ExecutedInOrderHolds`, `NewestResultsKeptHolds`, `IdsAreUniqueHolds`: its parts.
- `QueueRefinement`: a worker's compare-and-set is the executor's Submit, the
  owner's its Start, the swap of a result its Finish; reads, retries, refusals and
  ids are stutters. The lemma `NewestOfAppend` is the heart: evicting after
  appending to the table of newest results is the newest of all completed.

`FlappyBirdProofs` proves about `FlappyBird`, for any screens, geometry and set of
frame times that satisfy `GameAssumption` (a capped frame scrolls no further than
the spacing, the bird's distance from the edge, or a pipe and the bird's radius;
the first pipe starts in front of the bird; a pipe and the bird fit in two
spacings), without a bound on the score:

- `GameInvariant`: the inductive invariant `GameInv`. Spacing, score and clearing
  do not preserve themselves: the spacing at a hand-over needs that a pipe leaves
  as soon as it is beyond the edge (`NoneBeyondEdge`), so that with the spacing at
  most one leaves in a frame and the rightmost one stays; the score needs that
  counted pipes are those behind the bird (`ScoredAreBehind`), so that none
  leaves uncounted; clearing needs that in a running game every pipe that was not
  cleared is still in front (`UnmetAreInFront`), so that a frame that brings one
  into the column finds the bird in its gap or ends the game.
- `PipesKeepApartHolds`, `ScoreCountsPipesHolds`, `NoTunnellingHolds`: its parts.
- `PartitionsAgreeHolds`: from the lemmas `FlightAddsUp` and `CourseAddsUp`. It is
  about the exact integers; that doubles round is left out.

`RaylibHostProofs`, for any scenes, bounds and requests (`"nil" \notin Scenes`):

- `GalleryKeepsScenesPaired`, `ScenesStayPaired`: `ScenesArePaired` is not
  inductive, because it says nothing of a close asked for in a scene; `Settled` is what
  the gallery's state is between any two frames, in the gallery alone and in the
  whole process.
- `BackDisposes`: needs also that a program enters its loop only once (`Once`),
  which is proved about the sequences of stages (`OneLoop`, `NoLoop`, `Flat`): what is
  left to do after the loop, or after a failure, holds no loop.

Further, for all nine programs:

- `LayersAreInOrder` (`HostInv`) and `EveryEndIsClean` (`EndIsClean`). Neither is
  inductive: that the layers are nested now says nothing of what the program does
  next. `GoesWell(p, s, held, shown)` says of the stages `s` that are left, and of
  the layers then held, that every step still ahead is allowed and every end clean,
  on all paths of failures: the situation lies in a set that is closed under the
  steps. It is preserved by every step by its definition; that each program goes
  well from its start is shown once per program, from its last stage to its first
  (`UndoGoesWell`, `BringUpGoesWell`, ..., `EveryProgramGoesWell`), so a stage
  that fails to undo an earlier one breaks the lemma of its own program. In the
  loop, the invariant `ProcessGoesWell` holds both ways on in readiness: what
  follows a result, and what follows its absence. `frame` enters because a program
  may report success only after a frame.

`SequentialPartsProofs`, for any screens with both sides at least 200 pixels
(`ScreensAssumption`; on smaller ones cards shrink to a pixel and the controls reach
the Back target), any pixels, touches, gestures and limits of the trail and the log
(`InputAssumption`):

- `LayoutStaysSound`: first the sizes are ordered and bounded by the shorter side,
  then each card is looked at in its column and row. It says where cards and controls
  lie; that the Back target, 260 pixels wide at least, lies on the screen, and that the
  controls keep clear of the placeholder's lines of text, is not part of it.
- `SceneStatesFit`: that a scene's state fits its scene is not inductive, for it says
  nothing of the gallery around it; `SceneInv` adds its shape (`GalleryShape`: in
  the gallery nothing is active). `FrameCases` divides frames into those that go
  back, those that open a scene, and those that step one or do nothing, so that each
  invariant is looked at in three cases and not in every combination of keys and places.
- `PressedScenesStay`: what opened a scene is no point of its Back target
  (`OpenerInv`), because by the layout no card reaches that target
  (`CardsAreNotUnderBack`).
- `TrailKeepsClear`: a point joins the trail in a frame that did not leave, so it is
  not under that frame's Back target. The theorem supposes `SameScale`, that all
  screens have the same shorter side, as a device and its turns have: the target grows
  with it, and a trail is kept when the screen changes. On a window that is resized
  the property fails.
- `FramesImplementGallery`: each frame from pixels is a frame of `Gallery`. The
  sample of the abstract frame is computed from that of the pixels (`FrameOf`); that it
  is one `Gallery` allows needs the layout (a press on Back is on no control), and
  that a scene's state tells its scene needs `SceneInv` and the fields of the states
  (`SceneOfState`).

The attempt at these found one flaw in the model: the phases of a pointer were a
`CASE` with overlapping guards, of which TLA+ may choose any where the code's `cond`
takes the first. They are nested conditionals now.

`GtkHostProofs`, for any threads, buttons, calls, stored texts, failing writes, dispatches and
crashes:

- `FileHoldsWhatWasStored`: what a call is about to write was committed by it or
  requested by its event. It is stated for writes that do not overlap, where the file was
  empty when it is written, and for any writes if all numbers have one width, where the
  later covers the earlier (`Overlay` of equally wide texts). Without either it is false.
- `SeriesLoseNothing`, `CompletedSeriesIsOnDisk`: as long as calls have not
  overlapped, what the one under way stepped is still the model (`SeriesHolds`),
  and what completed is what the file holds. The invariant of all three is `GtkInv`.

`AndroidHostProofs`, for any activities, inputs, requests, buttons, and endless and silent
clients:

- `SessionEndsLast`: no task queue has an event behind a close (`Ordered`), and an
  activity that posted its close posts nothing more.
- `AnswersStayOwn`: whoever waits, waits for the newest request, and a latch only
  ever gets its own request's result.
- `ModelFollows`: the model is the replay of the owner's events so far. This says
  nothing of the events to come, so it is not inductive; `FollowInv` adds that each
  queue holds the last events of its activity in their order (`InLine`): the k-th
  dispatch of a queue is the k-th event behind the done ones, whatever debug
  requests stand between (`HeadOfLine`, `EventsInLine`, `OtherTaskInLine`); and that
  only a destroyed activity's looper is quitting, so that no event is dropped after
  it was issued. It holds with `ClosedInv`, for before the session is opened nothing
  may have been done.

  `Replay` is a fold, which is a recursive function of sets. Induction comes from the
  well-foundedness of the naturals, stated about a set instead of a predicate
  (`LeastNumber`, `Induction`); with it the recursion is shown to define a function
  (`ReplaysExist`), so that one more event is one more step
  (`ReplayOfOneMore`).

`SequentialPartsProofs` also, for words of any width (`WordAssumption`: their number is a
multiple of 2^24, so that every flag has room) and any contents that have room in
them:

- `EveryWordIsClassified`, `EveryWordIsDecoded`: the invariant is `MadeInv`, what the
  word was made of, without the run's bounds on numbers, lengths and flags. The tags
  reduce to remainders (`LowMasks`) and single bits (`FlagMasks`): for the remainder
  of each kind of header, every mask of `equates.h` gets its verdict
  (`TypesOfHeaders`, `TypesOfPointers`), so that a mask or type too wide or too narrow
  breaks it. The predicates of `scheme.h` follow because they repeat those literals
  (`PredicatesRepeatTypes`).
- Flags are joined four by four; that each is a bit of its own in the result
  (`BitsOfJoined`) and stays so when shifted above the type (`Shifted`) gives the
  classes of code objects and ports (`TypesOfCode`, `TypesOfPorts`).

`AggregateAbiProofs` and `SequentialPartsProofs`, for any number of mistakes in a
declaration (a run tries two):

- `VerifiedFieldsStayInPlace`: what `verify!` accepts is laid out as C has it, and it
  accepts the source. The invariant `AbiInv` is what the edits leave (`IsDeclaration`):
  at most five members of different names with at most three parts, two in a
  `camera2d`. The names of parts may be anything, and repeated, except that a field is
  found by its name. The argument has three parts:
  - where fields lie: `inOrder` places layouts one behind the other (`LaidByParts`),
    so the fields of a member start within 16 bytes of one another, those of two parts
    within 8, and beside a float at 0 none of the same member lies at 12
    (`MemberDistances`, `FieldsOfOneMember`);
  - what is read: each byte is as the last field on it left it (`StoredBytes`), so the
    oracle reads nothing, garbage, or the number of a field that starts exactly where it
    reads (`ReadFinds`, `WrittenIsRead`); fields with no byte in common are read as they
    were written (`ReadOwn`);
  - what the numbers leave possible: where the weights are powers of ten, the score has
    a digit for each field (`FourDigits`, `ThreeDigits`). The weights of the cameras and
    the texture are all 1, so a permutation has the same score. In a `camera2d` the four
    offsets `verify!` compares leave two fields that could be exchanged, `offset.y` and
    `target.y`, and those are too far apart for one Vector2 (`Camera2dAsInC`: with
    three parts they would not be, which is why the invariant counts them). In a
    `camera3d` a field exchanged with another could keep the sum; the distances within
    a member exclude it (`Camera3dAsInC`). The fields of a `texture2d` are told apart
    by the struct that C returns (`Texture2dAsInC`).

  The source's declarations are laid out once each (`OriginalColor`, ...), and as their
  fields lie at C's offsets `verify!` accepts them (`SourceVerifies`).
- `PartsKeepTheirProperties`: the three parts share no state, so a behaviour of
  `SequentialParts` is one of each part (`PartsAreEachPart`), and what is proved of the
  gallery and of the words holds in the specification the run checks.

For these proofs the folds and the recursion of `AggregateAbi` became recursive
functions (`inOrder`, `stored`, `score`); they are unfolded for the few indices they
have (`LaidExists`, `StoredExists`, `SummedExists`), for declarations are short.

Every safety invariant, action property and refinement that a run checks is thus
stated by a theorem. Model-checked only is everything under fairness
(`DestroyedActivitiesEnd`, `ClientsAreAnswered`, `QueuesDrain`, `CallersAreAnswered`,
`QueuedIsExecuted`, `ProcessEnds`, `WindowCatchesUp`): TLAPS 1.4 has no rules for
fairness and `ENABLED`.

## 6. What is not modelled

- The Jolt compiler, runtime, garbage collector and nREPL server (external);
  Android's and GTK's own behaviour beyond queueing and repainting.
- Drawing, text layout, logging, and the wording of results.
- Scripts, Nix and Gradle files, patches, recorded evidence, and the three lines of
  EXP-001's `poc_answer.c`.
- Forms evaluated over a debug connection that change the program's state or its
  definitions: they can do anything.
- The CLI, the wire codec and the conformance runner. They are sequential; whether
  a text is a valid event is the EDN reader's decision and its size a property of
  its bytes, so a model would keep two comparisons and assume the rest. Size
  limits are therefore not covered.
- Of `scheme.h` the locks, the mutators and the exported functions; of `equates.h`
  everything about the runtime's own structures (segments, thread contexts,
  relocations), which nothing in the repository uses.
- Of the ABI verification: the literals of each `defcfn`, which choose the
  registers of a by-value argument, are taken to be edited with the layouts; a
  float declared as an integer is not tried. The fields of `camera3d` that no score
  reads, and integer fields declared narrower than C's where only small values are
  written, are accepted by `verify!`: `VerifiedFieldsAreInPlace` therefore speaks of
  the place of the fields that the oracle reads.
- Screens with a side below 200 pixels; Following Eyes' pupils, the trail's radius
  and everything else that only drawing uses; `diagnostics/step`, whose counters
  only reach the log; `reset-active`, which nothing calls.
- `frame-android`'s exit code 5 cannot happen without an exception, because
  `first-frame!` returns its constant; a harness that fails leaves the runtime
  up for the end of the process, as `EndIsClean` says.
