----------------------------- MODULE FlappyBird -----------------------------
(***************************************************************************)
(* The Flappy Bird scene of the gallery (flappy_bird.cljc): a pure step    *)
(* that the frame loop calls once per frame with the screen's metrics, the *)
(* press edge and the time since the last frame.                           *)
(*                                                                         *)
(* Lengths and times are integers, the code's doubles without rounding:    *)
(* rates are per tick, MaxDelta ticks are max-delta-seconds.  The seeded   *)
(* generator is abstracted to any gap it can give.  :elapsed only reports  *)
(* and is left out.                                                        *)
(***************************************************************************)
EXTENDS Integers, FiniteSets

CONSTANTS
  Screens,        \* the [width, height] the window may have, of one scale
  BirdX, BirdRadius, PipeWidth, GapHeight, PipeSpacing, EdgeMargin,
  HalfGravity,    \* half of :gravity, per tick and tick
  FlapSpeed,      \* less :flap-velocity, per tick
  ScrollSpeed,    \* per tick
  MaxDelta,
  Deltas,         \* the ticks a frame may take, clamped or not
  MaxScore        \* bound: a game is not followed further

Slots    == 1..3
Shift    == ScrollSpeed * MaxDelta     \* how far a clamped frame scrolls
FirstX(screen) == (3 * screen.width) \div 4

\* What dimensions gives for every screen: at scale 1 the bird is at 150 with
\* radius 14, pipes are 70 wide and 300 apart, a clamped frame scrolls 9, and
\* the first pipe stands at three quarters of a width of 450 or more.
ASSUME GameAssumption ==
  /\ BirdX \in Nat /\ BirdRadius \in Nat \ {0} /\ PipeWidth \in Nat
  /\ PipeSpacing \in Nat /\ EdgeMargin \in Nat /\ GapHeight \in Nat
  /\ HalfGravity \in Nat /\ FlapSpeed \in Nat /\ ScrollSpeed \in Nat
  /\ MaxDelta \in Nat /\ Deltas \subseteq Int /\ MaxScore \in Nat
  /\ Screens \subseteq [width : Nat, height : Nat]
  /\ Shift <= PipeSpacing
  /\ Shift <= BirdX
  /\ Shift <= PipeWidth + BirdRadius
  /\ PipeWidth + BirdX + BirdRadius <= 2 * PipeSpacing
  /\ \A screen \in Screens : BirdX + BirdRadius <= FirstX(screen)

VARIABLES
  y, vy,     \* the bird
  score,
  over,      \* :over?
  pipes,     \* a replacement takes the slot of the pipe it replaces
  left,      \* history: how many pipes have left the screen in this game
  cleared    \* history: the pipes in whose gap the bird has been

vars == <<y, vy, score, over, pipes, left, cleared>>

-----------------------------------------------------------------------------
Highest(screen) ==
  IF screen.height - EdgeMargin - GapHeight > EdgeMargin
  THEN screen.height - EdgeMargin - GapHeight
  ELSE EdgeMargin

\* gap-from-seed, over all seeds.
Gaps(screen) == EdgeMargin..Highest(screen)

pipe(x, gap) == [x |-> x, gap |-> gap, scored |-> FALSE]

\* A negative time counts as none, a longer one than MaxDelta as that.
\* Mutant: the time after a pause is not capped.
clampNegative(delta) == IF delta < 0 THEN 0 ELSE delta

clampDelta(delta) ==
  IF delta < 0 THEN 0 ELSE IF delta > MaxDelta THEN MaxDelta ELSE delta

\* Constant acceleration over a frame.
\* Mutant: the bird moves with the velocity at the frame's end.
eulerY(height, velocity, dt) == height + (velocity + 2 * HalfGravity * dt) * dt

nextY(height, velocity, dt) == height + velocity * dt + HalfGravity * dt * dt
nextVy(velocity, dt)        == velocity + 2 * HalfGravity * dt

Rightmost(ps) == CHOOSE i \in Slots : \A j \in Slots : ps[j].x <= ps[i].x

Leaves(p, dt) == p.x - ScrollSpeed * dt < -PipeWidth

\* Mutant: a replacement follows the pipe it replaces.
moveBehindItself(p, right, dt, gap) ==
  IF Leaves(p, dt) THEN pipe(p.x + PipeSpacing, gap)
                   ELSE [p EXCEPT !.x = @ - ScrollSpeed * dt]

\* A pipe scrolls, or comes back behind where the rightmost was before.
movePipe(p, right, dt, gap) ==
  IF Leaves(p, dt) THEN pipe(right + PipeSpacing, gap)
                   ELSE [p EXCEPT !.x = @ - ScrollSpeed * dt]

movePipes(ps, dt, gaps) ==
  [i \in Slots |-> movePipe(ps[i], ps[Rightmost(ps)].x, dt, gaps[i])]

Behind(p) == p.x + PipeWidth < BirdX

\* Mutant: a pipe counts in every frame behind the bird.
PassedAgain(ps) == {i \in Slots : Behind(ps[i])}

\* The pipes that a frame scores.
Passed(ps) == {i \in Slots : ~ps[i].scored /\ Behind(ps[i])}

scorePipes(ps) == [i \in Slots |-> [ps[i] EXCEPT !.scored = @ \/ i \in Passed(ps)]]

\* The bird is in the column of a pipe, and there between its two parts.
InColumn(p)         == BirdX - BirdRadius < p.x + PipeWidth /\ BirdX + BirdRadius > p.x
InGap(height, p)    == height - BirdRadius >= p.gap /\ height + BirdRadius <= p.gap + GapHeight
collides(height, p) == InColumn(p) /\ ~InGap(height, p)

OffScreen(height, screen) == height - BirdRadius < 0 \/ height + BirdRadius > screen.height

-----------------------------------------------------------------------------
newPipes(screen, gaps) ==
  [i \in Slots |-> pipe(FirstX(screen) + (i - 1) * PipeSpacing, gaps[i])]

Init ==
  \E screen \in Screens :
    /\ y = screen.height \div 2
    /\ vy = 0
    /\ score = 0
    /\ over = FALSE
    /\ \E gaps \in [Slots -> Gaps(screen)] : pipes = newPipes(screen, gaps)
    /\ left = 0
    /\ cleared = {}

\* A press after the end starts the next game; other frames change nothing then.
Restart(screen) ==
  /\ over
  /\ y' = screen.height \div 2
  /\ vy' = 0
  /\ score' = 0
  /\ over' = FALSE
  /\ \E gaps \in [Slots -> Gaps(screen)] : pipes' = newPipes(screen, gaps)
  /\ left' = 0
  /\ cleared' = {}

\* A frame that takes time, in which the bird may flap.
Fly(screen, dt, flap) ==
  LET velocity == IF flap THEN -FlapSpeed ELSE vy
      gone     == {i \in Slots : Leaves(pipes[i], dt)}
  IN  /\ ~over
      /\ dt # 0
      /\ score < MaxScore
      /\ y' = nextY(y, velocity, dt)
      /\ vy' = nextVy(velocity, dt)
      /\ \E gaps \in [gone -> Gaps(screen)] :
           LET moved == movePipes(pipes, dt, gaps)
           IN  /\ pipes' = scorePipes(moved)
               /\ score' = score + Cardinality(Passed(moved))
      /\ over' = (OffScreen(y', screen) \/ \E i \in Slots : collides(y', pipes'[i]))
      /\ left' = left + Cardinality(gone)
      /\ cleared' = (cleared \ gone)
                      \union {i \in Slots : InColumn(pipes'[i]) /\ InGap(y', pipes'[i])}

\* A frame of the game; the window may have been turned since the last one.
Frame ==
  \E screen \in Screens :
    \/ Restart(screen)
    \/ \E delta \in Deltas, flap \in BOOLEAN : Fly(screen, clampDelta(delta), flap)

Next == Frame

Spec == Init /\ [][Next]_vars

-----------------------------------------------------------------------------
TypeOK ==
  /\ y \in Int /\ vy \in Int /\ score \in Nat /\ left \in Nat
  /\ over \in BOOLEAN
  /\ pipes \in [Slots -> [x : Int, gap : Nat, scored : BOOLEAN]]
  /\ cleared \subseteq Slots

\* Two pipes never come closer than the spacing, and the next one is at most a
\* clamped frame further: the hand-over at the left edge keeps the course as it
\* was laid, whatever times the frames take (move-pipes takes the rightmost pipe
\* of the frame before, and relies on one pipe leaving at a time).
PipesKeepApart ==
  /\ \A i, j \in Slots : i # j => \/ pipes[i].x - pipes[j].x >= PipeSpacing
                                  \/ pipes[j].x - pipes[i].x >= PipeSpacing
  /\ \A i \in Slots :
       \/ \A j \in Slots : pipes[j].x <= pipes[i].x
       \/ \E j \in Slots : pipes[j].x - pipes[i].x \in PipeSpacing..(PipeSpacing + Shift)

\* The score is the number of pipes passed: each counts once, also those that
\* have left, and none leaves uncounted (score-pipes runs after move-pipes).
ScoreCountsPipes == score = left + Cardinality({i \in Slots : pipes[i].scored})

\* A pipe that counts was not jumped over: in some frame the bird was seen in
\* its gap.  Collisions are only looked at where a frame ends; the delta's cap
\* makes that enough, also after a pause of the activity.
NoTunnelling == \A i \in Slots : pipes[i].scored => i \in cleared

\* The docstring of step: however a time is cut into frames, the bird comes to
\* the same place with the same velocity; pipes too, and the same pipes leave,
\* but a replacement may stand up to a frame's scroll off.
PartitionsAgree ==
  \A a, b \in 0..MaxDelta : a + b <= MaxDelta =>
    /\ nextY(nextY(y, vy, a), nextVy(vy, a), b) = nextY(y, vy, a + b)
    /\ nextVy(nextVy(vy, a), b) = nextVy(vy, a + b)
    /\ LET gaps  == [i \in Slots |-> EdgeMargin]
           first == movePipes(pipes, a, gaps)
           twice == movePipes(first, b, gaps)
           once  == movePipes(pipes, a + b, gaps)
       IN  \A i \in Slots :
             /\ Leaves(pipes[i], a + b) <=> Leaves(pipes[i], a) \/ Leaves(first[i], b)
             /\ Leaves(pipes[i], a + b) => once[i].x - twice[i].x \in -Shift..Shift
             /\ ~Leaves(pipes[i], a + b) => once[i].x = twice[i].x

\* What a frame relies on: pipes count exactly when they are behind the bird,
\* they leave in time, and those that are not yet met stand in front of it.
ScoredAreBehind == \A i \in Slots : pipes[i].scored <=> Behind(pipes[i])
NoneBeyondEdge  == \A i \in Slots : pipes[i].x >= -PipeWidth
UnmetAreInFront == ~over => \A i \in Slots : i \in cleared \/ pipes[i].x >= BirdX + BirdRadius

GameInv ==
  /\ TypeOK
  /\ PipesKeepApart
  /\ ScoreCountsPipes
  /\ NoTunnelling
  /\ ScoredAreBehind
  /\ NoneBeyondEdge
  /\ UnmetAreInFront
=============================================================================
