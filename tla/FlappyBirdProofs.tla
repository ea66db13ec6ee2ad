-------------------------- MODULE FlappyBirdProofs --------------------------
(***************************************************************************)
(* Proofs about FlappyBird, for every screen, scale and series of frames   *)
(* that GameAssumption allows: the invariant of the game, and that cutting *)
(* a time into frames makes no difference to the bird.                     *)
(***************************************************************************)
EXTENDS FlappyBird, FiniteSetTheorems, TLAPS

\* A clamped frame takes at most MaxDelta ticks and scrolls at most Shift.
LEMMA ClampedScroll ==
  ASSUME NEW delta \in Deltas
  PROVE  /\ clampDelta(delta) \in 0..MaxDelta
         /\ ScrollSpeed * clampDelta(delta) \in 0..Shift
<1> DEFINE d == clampDelta(delta)
<1>1. d \in 0..MaxDelta
  BY GameAssumption DEF clampDelta
<1> HIDE DEF d
<1>2. ScrollSpeed \in Nat /\ MaxDelta \in Nat /\ d \in Nat /\ MaxDelta - d \in Nat
  BY <1>1, GameAssumption
<1>3. ScrollSpeed * d \in Nat /\ ScrollSpeed * (MaxDelta - d) \in Nat
  BY <1>2
<1>4. ScrollSpeed * MaxDelta = ScrollSpeed * d + ScrollSpeed * (MaxDelta - d)
  BY <1>2
<1>5. QED
  BY <1>1, <1>3, <1>4 DEF Shift, d

\* One of the three pipes is the rightmost.
LEMMA RightmostIs ==
  ASSUME NEW ps, \A i \in Slots : ps[i].x \in Int
  PROVE  /\ Rightmost(ps) \in Slots
         /\ \A j \in Slots : ps[j].x <= ps[Rightmost(ps)].x
<1>1. \E i \in Slots : \A j \in Slots : ps[j].x <= ps[i].x
  <2>1. ps[1].x \in Int /\ ps[2].x \in Int /\ ps[3].x \in Int
    BY DEF Slots
  <2>2. \A j \in Slots : j = 1 \/ j = 2 \/ j = 3
    BY DEF Slots
  <2>3. CASE ps[2].x <= ps[1].x /\ ps[3].x <= ps[1].x
    <3>1. 1 \in Slots /\ \A j \in Slots : ps[j].x <= ps[1].x
      BY <2>1, <2>2, <2>3 DEF Slots
    <3>2. QED
      BY <3>1
  <2>4. CASE ps[1].x <= ps[2].x /\ ps[3].x <= ps[2].x
    <3>1. 2 \in Slots /\ \A j \in Slots : ps[j].x <= ps[2].x
      BY <2>1, <2>2, <2>4 DEF Slots
    <3>2. QED
      BY <3>1
  <2>5. CASE ps[1].x <= ps[3].x /\ ps[2].x <= ps[3].x
    <3>1. 3 \in Slots /\ \A j \in Slots : ps[j].x <= ps[3].x
      BY <2>1, <2>2, <2>5 DEF Slots
    <3>2. QED
      BY <3>1
  <2>6. QED
    BY <2>1, <2>3, <2>4, <2>5
<1>2. QED
  BY <1>1 DEF Rightmost

\* The gaps of a screen are numbers, and there is one.
LEMMA GapsAre ==
  ASSUME NEW screen \in Screens
  PROVE  Gaps(screen) \subseteq Nat
BY GameAssumption DEF Gaps

LEMMA CountSlots ==
  ASSUME NEW A \in SUBSET Slots
  PROVE  IsFiniteSet(A) /\ Cardinality(A) \in Nat
<1>1. IsFiniteSet(Slots)
  <2>1. 1 \in Int /\ 3 \in Int
    OBVIOUS
  <2>2. QED
    BY <2>1, FS_Interval DEF Slots
<1>2. QED
  BY <1>1, FS_Subset, FS_CardinalityType

\* Counting pipes: some leave, which were counted, and others are counted now.
LEMMA CountChanges ==
  ASSUME NEW A \in SUBSET Slots, NEW G \in SUBSET A, NEW P \in SUBSET Slots,
         P \intersect A = {}
  PROVE  Cardinality((A \ G) \union P) = Cardinality(A) - Cardinality(G) + Cardinality(P)
<1>1. /\ IsFiniteSet(A) /\ IsFiniteSet(G) /\ IsFiniteSet(P) /\ IsFiniteSet(A \ G)
      /\ Cardinality(A) \in Nat /\ Cardinality(G) \in Nat
      /\ Cardinality(P) \in Nat /\ Cardinality(A \ G) \in Nat
  BY CountSlots
<1>2. Cardinality(A \ G) = Cardinality(A) - Cardinality(G)
  <2>1. Cardinality(A \ G) = Cardinality(A) - Cardinality(A \intersect G)
    BY <1>1, FS_Difference
  <2>2. A \intersect G = G
    OBVIOUS
  <2>3. QED
    BY <2>1, <2>2
<1>3. Cardinality((A \ G) \union P) = Cardinality(A \ G) + Cardinality(P)
  <2>1. Cardinality((A \ G) \union P)
          = Cardinality(A \ G) + Cardinality(P) - Cardinality((A \ G) \intersect P)
    BY <1>1, FS_Union
  <2>2. (A \ G) \intersect P = {}
    OBVIOUS
  <2>3. Cardinality((A \ G) \intersect P) = 0
    BY <2>2, FS_EmptySet
  <2>4. QED
    BY <2>1, <2>3, <1>1
<1>4. QED
  BY <1>2, <1>3

-----------------------------------------------------------------------------
\* A new game satisfies the invariant.
NewGame(screen, gaps) ==
  /\ y = screen.height \div 2
  /\ vy = 0
  /\ score = 0
  /\ over = FALSE
  /\ pipes = newPipes(screen, gaps)
  /\ left = 0
  /\ cleared = {}

LEMMA NewGameInv ==
  ASSUME NEW screen \in Screens, NEW gaps \in [Slots -> Gaps(screen)],
         NewGame(screen, gaps)
  PROVE  GameInv
<1>1. /\ FirstX(screen) \in Int /\ screen.height \in Nat
      /\ BirdX + BirdRadius <= FirstX(screen)
      /\ y \in Int /\ vy \in Int /\ score = 0 /\ left = 0 /\ cleared = {}
  BY GameAssumption DEF FirstX, NewGame
<1>2. /\ PipeSpacing \in Nat /\ PipeWidth \in Nat /\ BirdX \in Nat /\ BirdRadius \in Nat
      /\ Shift \in Nat
  <2>1. ScrollSpeed \in Nat /\ MaxDelta \in Nat
    BY GameAssumption
  <2>2. QED
    BY <2>1, GameAssumption DEF Shift
<1>3. \A i \in Slots : gaps[i] \in Nat
  BY GapsAre
<1> DEFINE X == [i \in Slots |-> FirstX(screen) + (i - 1) * PipeSpacing]
<1>4. /\ \A i \in Slots : pipes[i].x = X[i] /\ ~pipes[i].scored
      /\ \A i \in Slots : pipes[i] = [x |-> X[i], gap |-> gaps[i], scored |-> FALSE]
      /\ pipes = [i \in Slots |-> pipes[i]]
  BY DEF NewGame, newPipes, pipe, X
<1>6. /\ 1 \in Slots /\ 2 \in Slots /\ 3 \in Slots
      /\ \A i \in Slots : i = 1 \/ i = 2 \/ i = 3
  BY DEF Slots
<1>5. /\ X[1] = FirstX(screen)
      /\ X[2] = FirstX(screen) + PipeSpacing
      /\ X[3] = FirstX(screen) + 2 * PipeSpacing
  BY <1>1, <1>2, <1>6
<1>7. \A i \in Slots : X[i] \in Int /\ X[i] >= FirstX(screen)
  BY <1>1, <1>2, <1>5, <1>6
<1> HIDE DEF X
<1>8. TypeOK
  <2>1. pipes \in [Slots -> [x : Int, gap : Nat, scored : BOOLEAN]]
    <3>1. \A i \in Slots :
            [x |-> X[i], gap |-> gaps[i], scored |-> FALSE] \in [x : Int, gap : Nat, scored : BOOLEAN]
      BY <1>3, <1>7
    <3>2. QED
      BY <3>1, <1>4
  <2>2. over \in BOOLEAN
    BY DEF NewGame
  <2>3. QED
    BY <2>1, <2>2, <1>1 DEF TypeOK
<1>9. PipesKeepApart
  <2>1. \A i, j \in Slots : i # j => \/ X[i] - X[j] >= PipeSpacing
                                     \/ X[j] - X[i] >= PipeSpacing
    BY <1>1, <1>2, <1>5, <1>6
  <2>2. /\ 1 \in Slots /\ 2 \in Slots /\ 3 \in Slots
        /\ X[2] - X[1] \in PipeSpacing..(PipeSpacing + Shift)
        /\ X[3] - X[2] \in PipeSpacing..(PipeSpacing + Shift)
        /\ \A j \in Slots : X[j] <= X[3]
    BY <1>1, <1>2, <1>5, <1>6 DEF Slots
  <2>3. \A i \in Slots : \/ \A j \in Slots : X[j] <= X[i]
                         \/ \E j \in Slots : X[j] - X[i] \in PipeSpacing..(PipeSpacing + Shift)
    BY <2>2, <1>6
  <2>4. QED
    BY <2>1, <2>3, <1>4 DEF PipesKeepApart
<1>10. ScoreCountsPipes
  <2>1. {i \in Slots : pipes[i].scored} = {}
    <3>1. \A i \in Slots : ~pipes[i].scored
      BY <1>4
    <3>2. QED
      BY <3>1
  <2>2. Cardinality({i \in Slots : pipes[i].scored}) = 0
    BY <2>1, FS_EmptySet, Zenon
  <2>3. score = left + 0
    BY <1>1
  <2>4. QED
    BY <2>2, <2>3, Zenon DEF ScoreCountsPipes
<1>11. NoTunnelling
  BY <1>4 DEF NoTunnelling
<1>12. ScoredAreBehind /\ NoneBeyondEdge /\ UnmetAreInFront
  <2>1. \A i \in Slots : pipes[i].x >= BirdX + BirdRadius /\ ~pipes[i].scored /\ pipes[i].x \in Int
    BY <1>1, <1>2, <1>4, <1>7
  <2>2. QED
    BY <2>1, <1>2 DEF ScoredAreBehind, NoneBeyondEdge, UnmetAreInFront, Behind
<1>13. QED
  BY <1>8, <1>9, <1>10, <1>11, <1>12 DEF GameInv

-----------------------------------------------------------------------------
\* Where pipes may stand, of their places X alone.
Apart(X) ==
  /\ \A i, j \in Slots : i # j => X[i] - X[j] >= PipeSpacing \/ X[j] - X[i] >= PipeSpacing
  /\ \A i \in Slots : \/ \A j \in Slots : X[j] <= X[i]
                      \/ \E j \in Slots : X[j] - X[i] \in PipeSpacing..(PipeSpacing + Shift)

Numbers == /\ PipeSpacing \in Nat /\ PipeWidth \in Nat /\ BirdX \in Nat
           /\ BirdRadius \in Nat /\ BirdRadius > 0 /\ Shift \in Nat
           /\ Shift <= PipeSpacing /\ Shift <= BirdX /\ Shift <= PipeWidth + BirdRadius
           /\ PipeWidth + BirdX + BirdRadius <= 2 * PipeSpacing

LEMMA NumbersAre == Numbers
<1>1. ScrollSpeed \in Nat /\ MaxDelta \in Nat
  BY GameAssumption
<1>2. ScrollSpeed * MaxDelta \in Nat
  BY <1>1
<1>3. QED
  BY <1>2, GameAssumption DEF Numbers, Shift

\* When pipes scroll by s and those beyond the edge go behind the rightmost,
\* they stay apart: at most one goes, and it is not the rightmost.
LEMMA CourseKept ==
  ASSUME NEW X \in [Slots -> Int], NEW N \in [Slots -> Int],
         NEW s \in 0..Shift, NEW R \in Slots,
         Apart(X),
         \A i \in Slots : X[i] >= -PipeWidth /\ X[i] <= X[R],
         \A i \in Slots : N[i] = IF X[i] - s < -PipeWidth THEN X[R] + PipeSpacing ELSE X[i] - s
  PROVE  /\ Apart(N)
         /\ \A i \in Slots : N[i] >= -PipeWidth
         /\ \A i \in Slots : X[i] - s < -PipeWidth => N[i] >= 2 * PipeSpacing - PipeWidth
<1> DEFINE Goes(i) == X[i] - s < -PipeWidth
<1>1. /\ PipeSpacing \in Nat /\ PipeWidth \in Nat /\ Shift \in Nat
      /\ Shift <= PipeSpacing /\ s <= Shift /\ s \in Nat
      /\ \A i \in Slots : X[i] \in Int /\ N[i] \in Int
  BY NumbersAre DEF Numbers
<1>2. ASSUME NEW g \in Slots, Goes(g), NEW j \in Slots \ {g}
      PROVE  X[j] - X[g] >= PipeSpacing /\ ~Goes(j) /\ PipeSpacing > 0
  <2>1. X[g] - X[j] >= PipeSpacing \/ X[j] - X[g] >= PipeSpacing
    BY DEF Apart
  <2>2. X[g] \in Int /\ X[j] \in Int /\ X[g] >= -PipeWidth /\ X[j] >= -PipeWidth
    BY <1>1
  <2>3. QED
    BY <2>1, <2>2, <1>1, <1>2
<1>3. ASSUME NEW g \in Slots, Goes(g)
      PROVE  g # R /\ X[R] - X[g] >= PipeSpacing
  <2>1. \E j \in Slots : j # g
    BY DEF Slots
  <2>2. PICK j \in Slots : j # g
    BY <2>1
  <2>3. X[j] - X[g] >= PipeSpacing /\ PipeSpacing > 0
    BY <1>2, <1>3, <2>2
  <2>4. g # R
    BY <2>3, <1>1
  <2>5. QED
    BY <2>4, <1>2, <1>3
<1>4. \A i \in Slots : (Goes(i) => N[i] = X[R] + PipeSpacing) /\ (~Goes(i) => N[i] = X[i] - s)
  OBVIOUS
<1> HIDE DEF Goes
<1>5. ASSUME NEW i \in Slots, NEW j \in Slots, i # j
      PROVE  N[i] - N[j] >= PipeSpacing \/ N[j] - N[i] >= PipeSpacing
  <2>1. CASE ~Goes(i) /\ ~Goes(j)
    <3>1. X[i] - X[j] >= PipeSpacing \/ X[j] - X[i] >= PipeSpacing
      BY <1>5 DEF Apart
    <3>2. QED
      BY <2>1, <3>1, <1>1, <1>4
  <2>2. CASE Goes(i)
    <3>1. ~Goes(j) /\ N[i] = X[R] + PipeSpacing /\ N[j] = X[j] - s /\ X[j] <= X[R]
      BY <2>2, <1>2, <1>4, <1>5
    <3>2. QED
      BY <3>1, <1>1
  <2>3. CASE Goes(j)
    <3>1. ~Goes(i) /\ N[j] = X[R] + PipeSpacing /\ N[i] = X[i] - s /\ X[i] <= X[R]
      BY <2>3, <1>2, <1>4, <1>5
    <3>2. QED
      BY <3>1, <1>1
  <2>4. QED
    BY <2>1, <2>2, <2>3
<1>6. ASSUME NEW i \in Slots
      PROVE  \/ \A j \in Slots : N[j] <= N[i]
             \/ \E j \in Slots : N[j] - N[i] \in PipeSpacing..(PipeSpacing + Shift)
  <2>1. CASE Goes(i)
    <3>1. \A j \in Slots \ {i} : N[j] = X[j] - s /\ X[j] <= X[R]
      BY <2>1, <1>2, <1>4
    <3>2. N[i] = X[R] + PipeSpacing
      BY <2>1, <1>4
    <3>3. \A j \in Slots \ {i} : N[j] <= N[i]
      BY <3>1, <3>2, <1>1
    <3>4. QED
      BY <3>3, <1>1
  <2>2. CASE ~Goes(i) /\ \E g \in Slots : Goes(g)
    <3>1. PICK g \in Slots : Goes(g)
      BY <2>2
    <3>2. N[g] = X[R] + PipeSpacing /\ N[i] = X[i] - s
      BY <2>2, <3>1, <1>4
    <3>3. CASE i = R
      <4>1. N[g] - N[i] \in PipeSpacing..(PipeSpacing + Shift)
        BY <3>2, <3>3, <1>1
      <4>2. QED
        BY <4>1
    <3>4. CASE i # R
      <4>1. X[R] - X[i] >= PipeSpacing /\ PipeSpacing > 0
        <5>1. X[i] - X[R] >= PipeSpacing \/ X[R] - X[i] >= PipeSpacing
          BY <3>4 DEF Apart
        <5>2. PipeSpacing > 0
          BY <3>1, <1>2, <1>3
        <5>3. QED
          BY <5>1, <5>2, <1>1
      <4>2. ~\A j \in Slots : X[j] <= X[i]
        BY <4>1, <1>1
      <4>3. PICK j \in Slots : X[j] - X[i] \in PipeSpacing..(PipeSpacing + Shift)
        BY <4>2 DEF Apart
      <4>4. j # g
        <5>1. X[i] - X[g] >= PipeSpacing
          BY <2>2, <3>1, <1>2
        <5>2. X[j] - X[i] >= PipeSpacing
          BY <4>3, <1>1
        <5>3. QED
          BY <5>1, <5>2, <4>1, <1>1
      <4>5. N[j] = X[j] - s
        BY <4>4, <3>1, <1>2, <1>4
      <4>6. N[j] - N[i] = X[j] - X[i]
        BY <4>5, <3>2, <1>1
      <4>7. QED
        BY <4>3, <4>6
    <3>5. QED
      BY <3>3, <3>4
  <2>3. CASE \A g \in Slots : ~Goes(g)
    <3>1. \A j \in Slots : N[j] = X[j] - s
      BY <2>3, <1>4
    <3>2. CASE \A j \in Slots : X[j] <= X[i]
      <4>1. \A j \in Slots : N[j] <= N[i]
        BY <3>1, <3>2, <1>1
      <4>2. QED
        BY <4>1
    <3>3. CASE \E j \in Slots : X[j] - X[i] \in PipeSpacing..(PipeSpacing + Shift)
      <4>1. PICK j \in Slots : X[j] - X[i] \in PipeSpacing..(PipeSpacing + Shift)
        BY <3>3
      <4>2. N[j] - N[i] = X[j] - X[i]
        BY <3>1, <1>1
      <4>3. QED
        BY <4>1, <4>2
    <3>4. QED
      BY <3>2, <3>3 DEF Apart
  <2>4. QED
    BY <2>1, <2>2, <2>3
<1>7. ASSUME NEW i \in Slots
      PROVE  N[i] >= -PipeWidth /\ (Goes(i) => N[i] >= 2 * PipeSpacing - PipeWidth)
  <2>1. CASE Goes(i)
    <3>1. X[R] - X[i] >= PipeSpacing /\ N[i] = X[R] + PipeSpacing /\ X[i] >= -PipeWidth
      BY <2>1, <1>3, <1>4
    <3>2. QED
      BY <3>1, <1>1
  <2>2. CASE ~Goes(i)
    <3>1. N[i] = X[i] - s /\ ~(X[i] - s < -PipeWidth)
      BY <2>2, <1>4 DEF Goes
    <3>2. QED
      BY <3>1, <2>2, <1>1
  <2>3. QED
    BY <2>1, <2>2
<1>8. QED
  BY <1>5, <1>6, <1>7 DEF Apart, Goes

-----------------------------------------------------------------------------
\* What a frame that scrolls by s makes of the pipes: those in gone go behind
\* the rightmost, R, and those in P are counted.
PipesMoved(screen, s, gone, R, P) ==
  /\ gone = {i \in Slots : pipes[i].x - s < -PipeWidth}
  /\ \A i \in Slots : pipes[i].x <= pipes[R].x
  /\ pipes' \in [Slots -> [x : Int, gap : Nat, scored : BOOLEAN]]
  /\ \A i \in Slots :
       /\ i \in gone => pipes'[i].x = pipes[R].x + PipeSpacing
       /\ i \notin gone => pipes'[i].x = pipes[i].x - s
       /\ pipes'[i].scored <=> (i \notin gone /\ pipes[i].scored) \/ i \in P
       /\ i \in P <=> ~(i \notin gone /\ pipes[i].scored) /\ Behind(pipes'[i])
  /\ score' = score + Cardinality(P)
  /\ left' = left + Cardinality(gone)
  /\ over' = (OffScreen(y', screen) \/ \E i \in Slots : collides(y', pipes'[i]))
  /\ cleared' = (cleared \ gone)
                  \union {i \in Slots : InColumn(pipes'[i]) /\ InGap(y', pipes'[i])}

LEMMA PipesMove ==
  ASSUME GameInv, NEW screen \in Screens, NEW delta \in Deltas, NEW flap \in BOOLEAN,
         Fly(screen, clampDelta(delta), flap)
  PROVE  \E s \in 0..Shift, gone \in SUBSET Slots, R \in Slots, P \in SUBSET Slots :
           PipesMoved(screen, s, gone, R, P)
<1> DEFINE d == clampDelta(delta)
           s == ScrollSpeed * d
           gone == {i \in Slots : Leaves(pipes[i], d)}
           R == Rightmost(pipes)
<1>1. d \in 0..MaxDelta /\ s \in 0..Shift
  BY ClampedScroll
<1>2. \A i \in Slots : /\ pipes[i] \in [x : Int, gap : Nat, scored : BOOLEAN]
                       /\ pipes[i].x \in Int
  BY DEF GameInv, TypeOK
<1>3. R \in Slots /\ \A j \in Slots : pipes[j].x <= pipes[R].x
  BY <1>2, RightmostIs
<1>4. gone = {i \in Slots : pipes[i].x - s < -PipeWidth} /\ gone \in SUBSET Slots
  BY DEF Leaves
<1>5. PICK gaps \in [gone -> Gaps(screen)] :
        /\ pipes' = scorePipes(movePipes(pipes, d, gaps))
        /\ score' = score + Cardinality(Passed(movePipes(pipes, d, gaps)))
  BY DEF Fly
<1>6. /\ left' = left + Cardinality(gone)
      /\ over' = (OffScreen(y', screen) \/ \E i \in Slots : collides(y', pipes'[i]))
      /\ cleared' = (cleared \ gone)
                      \union {i \in Slots : InColumn(pipes'[i]) /\ InGap(y', pipes'[i])}
  BY DEF Fly
<1> DEFINE moved == movePipes(pipes, d, gaps)
           P == Passed(moved)
<1>7. PipeSpacing \in Nat
  BY NumbersAre DEF Numbers
<1>8. ASSUME NEW i \in Slots
      PROVE  /\ i \in gone => moved[i] = [x |-> pipes[R].x + PipeSpacing, gap |-> gaps[i], scored |-> FALSE]
             /\ i \notin gone => moved[i] = [pipes[i] EXCEPT !.x = pipes[i].x - s]
  BY DEF movePipes, movePipe, pipe
<1>9. ASSUME NEW i \in Slots
      PROVE  /\ moved[i] \in [x : Int, gap : Nat, scored : BOOLEAN]
             /\ i \in gone => moved[i].x = pipes[R].x + PipeSpacing /\ ~moved[i].scored
             /\ i \notin gone => moved[i].x = pipes[i].x - s /\ moved[i].scored = pipes[i].scored
  <2>1. CASE i \in gone
    <3>1. gaps[i] \in Nat
      BY <2>1, GapsAre
    <3>2. pipes[R].x + PipeSpacing \in Int
      BY <1>2, <1>3, <1>7
    <3>3. moved[i] = [x |-> pipes[R].x + PipeSpacing, gap |-> gaps[i], scored |-> FALSE]
      BY <2>1, <1>8
    <3> DEFINE m == moved[i]
    <3>4. m = [x |-> pipes[R].x + PipeSpacing, gap |-> gaps[i], scored |-> FALSE]
      BY <3>3
    <3> HIDE DEF m, moved, R, gone
    <3>5. m.x = pipes[R].x + PipeSpacing /\ ~m.scored
      BY <3>4
    <3>6. m \in [x : Int, gap : Nat, scored : BOOLEAN]
      BY <3>1, <3>2, <3>4
    <3>7. QED
      BY <2>1, <3>5, <3>6 DEF m
  <2>2. CASE i \notin gone
    <3>1. pipes[i].x - s \in Int /\ pipes[i] \in [x : Int, gap : Nat, scored : BOOLEAN]
      BY <1>1, <1>2
    <3>2. QED
      BY <2>2, <3>1, <1>8
  <2>3. QED
    BY <2>1, <2>2
<1>10. moved = [i \in Slots |-> moved[i]]
  BY DEF movePipes
<1> HIDE DEF gone, R, s, d, moved
<1>11. ASSUME NEW i \in Slots
       PROVE  /\ pipes'[i] \in [x : Int, gap : Nat, scored : BOOLEAN]
              /\ pipes'[i].x = moved[i].x
              /\ pipes'[i].scored <=> moved[i].scored \/ i \in P
  <2>1. pipes' = scorePipes(moved)
    BY <1>5 DEF moved
  <2>2. pipes'[i] = [moved[i] EXCEPT !.scored = moved[i].scored \/ i \in P]
    BY <2>1 DEF scorePipes
  <2>3. (moved[i].scored \/ i \in P) \in BOOLEAN
    OBVIOUS
  <2>4. QED
    BY <2>2, <2>3, <1>9
<1>12. ASSUME NEW i \in Slots
       PROVE  i \in P <=> ~moved[i].scored /\ Behind(pipes'[i])
  BY <1>11 DEF Passed, Behind
<1>13. pipes' \in [Slots -> [x : Int, gap : Nat, scored : BOOLEAN]]
  <2>1. pipes' = [i \in Slots |-> pipes'[i]]
    BY <1>5 DEF scorePipes
  <2>2. QED
    BY <2>1, <1>11
<1>14. P \in SUBSET Slots
  BY DEF Passed
<1>15. score' = score + Cardinality(P)
  BY <1>5 DEF moved
<1> HIDE DEF P
<1>16. ASSUME NEW i \in Slots
       PROVE  /\ i \in gone => pipes'[i].x = pipes[R].x + PipeSpacing
              /\ i \notin gone => pipes'[i].x = pipes[i].x - s
              /\ pipes'[i].scored <=> (i \notin gone /\ pipes[i].scored) \/ i \in P
              /\ i \in P <=> ~(i \notin gone /\ pipes[i].scored) /\ Behind(pipes'[i])
  BY <1>9, <1>11, <1>12
<1>17. R \in Slots /\ s \in 0..Shift /\ \A i \in Slots : pipes[i].x <= pipes[R].x
  BY <1>1, <1>3 DEF R
<1>18. PipesMoved(screen, s, gone, R, P)
  BY <1>4, <1>6, <1>13, <1>15, <1>16, <1>17 DEF PipesMoved
<1>19. QED
  BY <1>4, <1>14, <1>17, <1>18

-----------------------------------------------------------------------------
\* A frame of the game keeps the invariant.
LEMMA FlyKeeps ==
  ASSUME GameInv, NEW screen \in Screens, NEW delta \in Deltas, NEW flap \in BOOLEAN,
         Fly(screen, clampDelta(delta), flap)
  PROVE  GameInv'
<1>1. PICK s \in 0..Shift, gone \in SUBSET Slots, R \in Slots, P \in SUBSET Slots :
        PipesMoved(screen, s, gone, R, P)
  BY PipesMove
<1>2. /\ gone = {i \in Slots : pipes[i].x - s < -PipeWidth}
      /\ \A i \in Slots : pipes[i].x <= pipes[R].x
      /\ pipes' \in [Slots -> [x : Int, gap : Nat, scored : BOOLEAN]]
      /\ \A i \in Slots : (i \in gone => pipes'[i].x = pipes[R].x + PipeSpacing)
                          /\ (i \notin gone => pipes'[i].x = pipes[i].x - s)
  BY <1>1 DEF PipesMoved
<1>3. \A i \in Slots : /\ pipes'[i].scored <=> (i \notin gone /\ pipes[i].scored) \/ i \in P
                       /\ i \in P <=> ~(i \notin gone /\ pipes[i].scored) /\ Behind(pipes'[i])
  BY <1>1 DEF PipesMoved
<1>4. /\ score' = score + Cardinality(P)
      /\ left' = left + Cardinality(gone)
      /\ over' = (OffScreen(y', screen) \/ \E i \in Slots : collides(y', pipes'[i]))
      /\ cleared' = (cleared \ gone)
                      \union {i \in Slots : InColumn(pipes'[i]) /\ InGap(y', pipes'[i])}
  BY <1>1 DEF PipesMoved
<1>5. /\ PipeSpacing \in Nat /\ PipeWidth \in Nat /\ BirdX \in Nat
      /\ BirdRadius \in Nat /\ BirdRadius > 0 /\ Shift \in Nat
      /\ Shift <= PipeSpacing /\ Shift <= BirdX /\ Shift <= PipeWidth + BirdRadius
      /\ PipeWidth + BirdX + BirdRadius <= 2 * PipeSpacing
      /\ s \in Nat /\ s <= Shift
  BY NumbersAre DEF Numbers
<1>6. \A i \in Slots : /\ pipes[i].x \in Int /\ pipes'[i].x \in Int
                       /\ pipes[i].x >= -PipeWidth
                       /\ pipes[i].scored <=> Behind(pipes[i])
                       /\ pipes[i].scored => i \in cleared
                       /\ i \in cleared \/ pipes[i].x >= BirdX + BirdRadius
  <2>1. \A i \in Slots : pipes[i].x \in Int /\ pipes'[i].x \in Int
    BY <1>2 DEF GameInv, TypeOK
  <2>2. ~over
    BY DEF Fly
  <2>3. QED
    BY <2>1, <2>2 DEF GameInv, NoneBeyondEdge, ScoredAreBehind, NoTunnelling, UnmetAreInFront
\* The places of the pipes.
<1>7. /\ PipesKeepApart'
      /\ \A i \in Slots : pipes'[i].x >= -PipeWidth
      /\ \A i \in gone : pipes'[i].x >= 2 * PipeSpacing - PipeWidth
  <2> DEFINE X == [i \in Slots |-> pipes[i].x]
             N == [i \in Slots |-> pipes'[i].x]
  <2>1. /\ X \in [Slots -> Int] /\ N \in [Slots -> Int]
        /\ \A i \in Slots : X[i] = pipes[i].x /\ N[i] = pipes'[i].x
    BY <1>6
  <2> HIDE DEF X, N
  <2>2. Apart(X)
    BY <2>1 DEF GameInv, PipesKeepApart, Apart
  <2>3. \A i \in Slots : X[i] >= -PipeWidth /\ X[i] <= X[R]
    BY <2>1, <1>2, <1>6
  <2>4. \A i \in Slots : /\ i \in gone <=> X[i] - s < -PipeWidth
                         /\ N[i] = IF X[i] - s < -PipeWidth THEN X[R] + PipeSpacing ELSE X[i] - s
    BY <2>1, <1>2
  <2>5. /\ Apart(N)
        /\ \A i \in Slots : N[i] >= -PipeWidth
        /\ \A i \in Slots : X[i] - s < -PipeWidth => N[i] >= 2 * PipeSpacing - PipeWidth
    BY <2>1, <2>2, <2>3, <2>4, CourseKept
  <2>6. PipesKeepApart'
    BY <2>1, <2>5 DEF PipesKeepApart, Apart
  <2>7. QED
    BY <2>1, <2>4, <2>5, <2>6
<1>8. \A i \in gone : pipes'[i].x >= BirdX + BirdRadius /\ ~Behind(pipes'[i])
  <2>1. \A i \in gone : pipes'[i].x >= BirdX + BirdRadius
    BY <1>5, <1>6, <1>7
  <2>2. QED
    BY <2>1, <1>5, <1>6 DEF Behind
\* What is counted.
<1>9. ScoredAreBehind'
  <2> SUFFICES ASSUME NEW i \in Slots
               PROVE  pipes'[i].scored <=> Behind(pipes'[i])
    BY DEF ScoredAreBehind, Behind
  <2>1. CASE i \in gone
    BY <2>1, <1>3, <1>8
  <2>2. CASE i \notin gone /\ pipes[i].scored
    <3>1. Behind(pipes[i]) /\ pipes'[i].x = pipes[i].x - s
      BY <2>2, <1>2, <1>6
    <3>2. Behind(pipes'[i])
      BY <3>1, <1>5, <1>6 DEF Behind
    <3>3. QED
      BY <2>2, <3>2, <1>3
  <2>3. CASE i \notin gone /\ ~pipes[i].scored
    BY <2>3, <1>3
  <2>4. QED
    BY <2>1, <2>2, <2>3
<1>10. \A i \in gone : pipes[i].scored
  <2> SUFFICES ASSUME NEW i \in gone
               PROVE  Behind(pipes[i])
    BY <1>6
  <2>1. pipes[i].x - s < -PipeWidth /\ pipes[i].x \in Int
    BY <1>2, <1>6
  <2>2. QED
    BY <2>1, <1>5 DEF Behind
<1>11. ScoreCountsPipes'
  <2> DEFINE A == {i \in Slots : pipes[i].scored}
  <2>1. A \in SUBSET Slots /\ gone \in SUBSET A
    BY <1>10
  <2>2. P \intersect A = {}
    <3> SUFFICES ASSUME NEW i \in P, i \in A PROVE FALSE
      OBVIOUS
    <3>1. i \in gone /\ Behind(pipes'[i])
      BY <1>3
    <3>2. QED
      BY <3>1, <1>8
  <2>3. {i \in Slots : pipes'[i].scored} = (A \ gone) \union P
    BY <1>3
  <2>4. Cardinality((A \ gone) \union P)
          = Cardinality(A) - Cardinality(gone) + Cardinality(P)
    BY <2>1, <2>2, CountChanges
  <2>5. Cardinality(A) \in Nat /\ Cardinality(gone) \in Nat /\ Cardinality(P) \in Nat
    BY <2>1, CountSlots
  <2>6. score = left + Cardinality(A) /\ score \in Nat /\ left \in Nat
    BY DEF GameInv, TypeOK, ScoreCountsPipes
  <2> HIDE DEF A
  <2>7. score' = left' + Cardinality((A \ gone) \union P)
    BY <2>4, <2>5, <2>6, <1>4
  <2>8. QED
    BY <2>3, <2>7 DEF ScoreCountsPipes
\* What was met.
<1>12. ASSUME NEW i \in Slots, i \notin cleared'
       PROVE  /\ ~Behind(pipes'[i])
              /\ ~over' => pipes'[i].x >= BirdX + BirdRadius
  <2>1. CASE i \in gone
    BY <2>1, <1>8
  <2>2. CASE i \notin gone
    <3>1. pipes[i].x >= BirdX + BirdRadius /\ pipes'[i].x = pipes[i].x - s
      BY <2>2, <1>2, <1>4, <1>6, <1>12
    <3>2. BirdX - BirdRadius < pipes'[i].x + PipeWidth
      BY <3>1, <1>5, <1>6
    <3>3. ~Behind(pipes'[i])
      BY <3>1, <1>5, <1>6 DEF Behind
    <3>4. ASSUME ~over'
          PROVE  pipes'[i].x >= BirdX + BirdRadius
      <4>1. ~collides(y', pipes'[i]) /\ ~(InColumn(pipes'[i]) /\ InGap(y', pipes'[i]))
        BY <3>4, <1>4, <1>12
      <4>2. ~InColumn(pipes'[i])
        BY <4>1 DEF collides
      <4>3. QED
        BY <4>2, <3>2, <1>5, <1>6 DEF InColumn
    <3>5. QED
      BY <3>3, <3>4
  <2>3. QED
    BY <2>1, <2>2
<1>13. NoTunnelling' /\ UnmetAreInFront'
  <2>1. \A i \in Slots : pipes'[i].scored => i \in cleared'
    BY <1>9, <1>12 DEF ScoredAreBehind, Behind
  <2>2. QED
    BY <2>1, <1>12 DEF NoTunnelling, UnmetAreInFront
<1>14. NoneBeyondEdge'
  BY <1>7 DEF NoneBeyondEdge
<1>15. TypeOK'
  <2> DEFINE d == clampDelta(delta)
             velocity == IF flap THEN -FlapSpeed ELSE vy
  <2>1. d \in Nat /\ velocity \in Int /\ HalfGravity \in Nat /\ y \in Int
    <3>1. d \in Nat
      BY ClampedScroll
    <3>2. QED
      BY <3>1, GameAssumption DEF GameInv, TypeOK
  <2>2. y' = nextY(y, velocity, d) /\ vy' = nextVy(velocity, d)
    BY DEF Fly
  <2> HIDE DEF d, velocity
  <2>3. y' \in Int /\ vy' \in Int
    BY <2>1, <2>2 DEF nextY, nextVy
  <2>4. score' \in Nat /\ left' \in Nat
    <3>1. Cardinality(P) \in Nat /\ Cardinality(gone) \in Nat
      BY CountSlots
    <3>2. QED
      BY <3>1, <1>4 DEF GameInv, TypeOK
  <2>5. over' \in BOOLEAN
    BY <1>4, Zenon
  <2>6. cleared' \subseteq Slots
    BY <1>4 DEF GameInv, TypeOK
  <2>7. QED
    BY <2>3, <2>4, <2>5, <2>6, <1>2 DEF TypeOK
<1>16. QED
  BY <1>7, <1>9, <1>11, <1>13, <1>14, <1>15 DEF GameInv

\* The same of the game that a restart makes.
NewGamesAreSound ==
  \A screen \in Screens : \A gaps \in [Slots -> Gaps(screen)] :
    NewGame(screen, gaps) => GameInv

LEMMA NewGames == NewGamesAreSound
BY NewGameInv DEF NewGamesAreSound

LEMMA NextNewGames == NewGamesAreSound'
BY NewGames, PTL

LEMMA NextGame == GameInv /\ [Next]_vars => GameInv'
<1> SUFFICES ASSUME GameInv, [Next]_vars PROVE GameInv'
  OBVIOUS
<1>1. CASE UNCHANGED vars
  BY <1>1 DEF vars, GameInv, TypeOK, PipesKeepApart, ScoreCountsPipes, NoTunnelling,
              ScoredAreBehind, NoneBeyondEdge, UnmetAreInFront
<1>2. ASSUME NEW screen \in Screens, Restart(screen)
      PROVE  GameInv'
  <2>1. PICK gaps \in [Slots -> Gaps(screen)] : NewGame(screen, gaps)'
    BY <1>2 DEF Restart, NewGame
  <2>2. QED
    BY <2>1, NextNewGames DEF NewGamesAreSound
<1>3. ASSUME NEW screen \in Screens, NEW delta \in Deltas, NEW flap \in BOOLEAN,
             Fly(screen, clampDelta(delta), flap)
      PROVE  GameInv'
  BY <1>3, FlyKeeps
<1>4. QED
  BY <1>1, <1>2, <1>3 DEF Next, Frame

\* Whatever is pressed, however long the frames take and however the window is
\* turned, the game satisfies its invariant (step, new-game).
THEOREM GameInvariant == Spec => []GameInv
<1>1. Init => GameInv
  BY NewGameInv DEF Init, NewGame
<1>2. QED
  BY <1>1, NextGame, PTL DEF Spec

\* The course stays as it was laid: pipes keep at least the spacing, and at most
\* a clamped frame more (move-pipes).
THEOREM PipesKeepApartHolds == Spec => []PipesKeepApart
<1>1. GameInv => PipesKeepApart
  BY DEF GameInv
<1>2. QED
  BY <1>1, GameInvariant, PTL

\* Every pipe that was passed counts, and counts once (score-pipes).
THEOREM ScoreCountsPipesHolds == Spec => []ScoreCountsPipes
<1>1. GameInv => ScoreCountsPipes
  BY DEF GameInv
<1>2. QED
  BY <1>1, GameInvariant, PTL

\* No pipe is passed without the bird having been in its gap (clamp-delta,
\* collides?).
THEOREM NoTunnellingHolds == Spec => []NoTunnelling
<1>1. GameInv => NoTunnelling
  BY DEF GameInv
<1>2. QED
  BY <1>1, GameInvariant, PTL

-----------------------------------------------------------------------------
\* Constant acceleration adds up.
LEMMA FlightAddsUp ==
  \A h, v, a, b \in Int : /\ nextY(nextY(h, v, a), nextVy(v, a), b) = nextY(h, v, a + b)
                          /\ nextVy(nextVy(v, a), b) = nextVy(v, a + b)
<1> TAKE h, v, a, b \in Int
<1> DEFINE g == HalfGravity
<1>1. g \in Int
  BY GameAssumption
<1> HIDE DEF g
<1>2. v * (a + b) = v * a + v * b
  OBVIOUS
<1>3. g * (a + b) * (a + b) = g * a * a + 2 * g * a * b + g * b * b
  BY <1>1
<1>4. (v + 2 * g * a) * b = v * b + 2 * g * a * b
  BY <1>1
<1>5. 2 * g * (a + b) = 2 * g * a + 2 * g * b
  BY <1>1
<1>6. /\ v * a \in Int /\ v * b \in Int /\ g * a * a \in Int /\ g * b * b \in Int
      /\ 2 * g * a * b \in Int /\ 2 * g * a \in Int /\ 2 * g * b \in Int
  BY <1>1
<1>7. h + v * a + g * a * a + (v + 2 * g * a) * b + g * b * b
        = h + v * (a + b) + g * (a + b) * (a + b)
  BY <1>2, <1>3, <1>4, <1>6
<1>8. v + 2 * g * a + 2 * g * b = v + 2 * g * (a + b)
  BY <1>5, <1>6
<1>9. QED
  BY <1>7, <1>8 DEF nextY, nextVy, g

\* Where a pipe is after a frame.
Course == [Slots -> [x : Int, gap : Nat, scored : BOOLEAN]]

LEMMA MovedTo ==
  ASSUME NEW ps \in Course, NEW dt \in Nat, NEW gaps \in [Slots -> Nat], NEW i \in Slots
  PROVE  /\ Leaves(ps[i], dt) =>
              movePipes(ps, dt, gaps)[i].x = ps[Rightmost(ps)].x + PipeSpacing
         /\ ~Leaves(ps[i], dt) =>
              movePipes(ps, dt, gaps)[i].x = ps[i].x - ScrollSpeed * dt
         /\ movePipes(ps, dt, gaps)[i] \in [x : Int, gap : Nat, scored : BOOLEAN]
<1> DEFINE m == movePipes(ps, dt, gaps)[i]
           r == ps[Rightmost(ps)].x
<1>1. ps[i] \in [x : Int, gap : Nat, scored : BOOLEAN] /\ gaps[i] \in Nat
  BY DEF Course
<1>2. r \in Int /\ ScrollSpeed * dt \in Int /\ PipeSpacing \in Int
  <2>1. \A j \in Slots : ps[j].x \in Int
    BY DEF Course
  <2>2. r \in Int
    BY <2>1, RightmostIs
  <2>3. QED
    BY <2>2, GameAssumption
<1>3. CASE Leaves(ps[i], dt)
  <2>1. m = [x |-> r + PipeSpacing, gap |-> gaps[i], scored |-> FALSE]
    BY <1>3 DEF movePipes, movePipe, pipe
  <2> HIDE DEF m, r
  <2>2. m.x = r + PipeSpacing
    BY <2>1
  <2>3. m \in [x : Int, gap : Nat, scored : BOOLEAN]
    BY <2>1, <1>1, <1>2
  <2>4. QED
    BY <2>2, <2>3, <1>3 DEF m, r
<1>4. CASE ~Leaves(ps[i], dt)
  <2>1. m = [ps[i] EXCEPT !.x = ps[i].x - ScrollSpeed * dt]
    BY <1>4 DEF movePipes, movePipe
  <2> HIDE DEF m, r
  <2>2. m.x = ps[i].x - ScrollSpeed * dt
    BY <2>1, <1>1
  <2>3. m \in [x : Int, gap : Nat, scored : BOOLEAN]
    BY <2>1, <1>1, <1>2
  <2>4. QED
    BY <2>2, <2>3, <1>4 DEF m, r
<1>5. QED
  BY <1>3, <1>4

\* Two frames or one: the same pipes leave, and a replacement is off by what one
\* of the two scrolls.
LEMMA CourseAddsUp ==
  ASSUME GameInv, NEW a \in 0..MaxDelta, NEW b \in 0..MaxDelta, a + b <= MaxDelta,
         NEW gaps \in [Slots -> Nat], NEW i \in Slots
  PROVE  LET first == movePipes(pipes, a, gaps)
             twice == movePipes(first, b, gaps)
             once  == movePipes(pipes, a + b, gaps)
         IN  /\ Leaves(pipes[i], a + b) <=> Leaves(pipes[i], a) \/ Leaves(first[i], b)
             /\ Leaves(pipes[i], a + b) => once[i].x - twice[i].x \in -Shift..Shift
             /\ ~Leaves(pipes[i], a + b) => once[i].x = twice[i].x
<1> DEFINE first == movePipes(pipes, a, gaps)
           twice == movePipes(first, b, gaps)
           once  == movePipes(pipes, a + b, gaps)
           sa == ScrollSpeed * a
           sb == ScrollSpeed * b
           R == Rightmost(pipes)
           r == pipes[R].x
           R1 == Rightmost(first)
           r1 == first[R1].x
<1>1. /\ a \in Nat /\ b \in Nat /\ a + b \in Nat /\ MaxDelta - (a + b) \in Nat
      /\ ScrollSpeed \in Nat /\ MaxDelta \in Nat
  BY GameAssumption
<1>2. sa \in Nat /\ sb \in Nat /\ ScrollSpeed * (a + b) = sa + sb /\ sa + sb <= Shift
  <2>1. sa \in Nat /\ sb \in Nat /\ ScrollSpeed * (MaxDelta - (a + b)) \in Nat
    BY <1>1
  <2>2. ScrollSpeed * (a + b) = sa + sb
    BY <1>1
  <2>3. ScrollSpeed * MaxDelta = ScrollSpeed * (a + b) + ScrollSpeed * (MaxDelta - (a + b))
    BY <1>1
  <2>4. QED
    BY <2>1, <2>2, <2>3 DEF Shift
<1>3. /\ PipeSpacing \in Nat /\ PipeWidth \in Nat /\ Shift \in Nat /\ Shift <= PipeSpacing
  BY NumbersAre DEF Numbers
<1>4. pipes \in Course
  BY DEF GameInv, TypeOK, Course
<1>5. \A j \in Slots : pipes[j].x \in Int /\ pipes[j].x >= -PipeWidth
  BY <1>4 DEF Course, GameInv, NoneBeyondEdge
<1>6. R \in Slots /\ \A j \in Slots : pipes[j].x <= r
  BY <1>5, RightmostIs
<1> HIDE DEF first, twice, once
<1>7. \A j \in Slots :
        /\ Leaves(pipes[j], a) => first[j].x = r + PipeSpacing
        /\ ~Leaves(pipes[j], a) => first[j].x = pipes[j].x - sa
        /\ first[j] \in [x : Int, gap : Nat, scored : BOOLEAN]
  BY <1>1, <1>4, MovedTo DEF first
<1>8. first \in Course
  <2>1. first = [j \in Slots |-> first[j]]
    BY DEF first, movePipes
  <2>2. QED
    BY <2>1, <1>7 DEF Course
<1>9. /\ Leaves(first[i], b) => twice[i].x = r1 + PipeSpacing
      /\ ~Leaves(first[i], b) => twice[i].x = first[i].x - sb
  BY <1>1, <1>8, MovedTo DEF twice
<1>10. /\ Leaves(pipes[i], a + b) => once[i].x = r + PipeSpacing
       /\ ~Leaves(pipes[i], a + b) => once[i].x = pipes[i].x - (sa + sb)
  BY <1>1, <1>2, <1>4, MovedTo DEF once
<1>11. \A j \in Slots : first[j].x \in Int
  BY <1>7
<1>12. R1 \in Slots /\ \A j \in Slots : first[j].x <= r1
  BY <1>11, RightmostIs
<1>13. \A j \in Slots : /\ Leaves(pipes[j], a) <=> pipes[j].x - sa < -PipeWidth
                        /\ Leaves(pipes[j], a + b) <=> pipes[j].x - (sa + sb) < -PipeWidth
                        /\ Leaves(first[j], b) <=> first[j].x - sb < -PipeWidth
  BY <1>2 DEF Leaves
<1> HIDE DEF R, r, R1, r1, sa, sb
<1>14. r \in Int /\ r >= -PipeWidth /\ r1 \in Int
  BY <1>5, <1>6, <1>11, <1>12 DEF r, r1
<1>15. CASE Leaves(pipes[i], a)
  <2>1. Leaves(pipes[i], a + b)
    <3>1. pipes[i].x - sa < -PipeWidth /\ pipes[i].x \in Int
      BY <1>5, <1>13, <1>15
    <3>2. pipes[i].x - (sa + sb) < -PipeWidth
      BY <3>1, <1>2, <1>3
    <3>3. QED
      BY <3>2, <1>13
  <2>2. first[i].x = r + PipeSpacing /\ once[i].x = r + PipeSpacing
    BY <2>1, <1>7, <1>10, <1>15
  <2>3. ~Leaves(first[i], b)
    BY <2>2, <1>2, <1>3, <1>13, <1>14
  <2>4. once[i].x - twice[i].x \in -Shift..Shift
    BY <2>2, <2>3, <1>2, <1>3, <1>9, <1>14
  <2>5. QED
    BY <2>1, <2>4, <1>15 DEF first, twice, once
<1>16. CASE ~Leaves(pipes[i], a) /\ Leaves(pipes[i], a + b)
  <2>1. first[i].x = pipes[i].x - sa
    BY <1>7, <1>16
  <2>2. Leaves(first[i], b)
    BY <2>1, <1>2, <1>5, <1>13, <1>16
  <2>3. \A j \in Slots : ~Leaves(pipes[j], a)
    <3> SUFFICES ASSUME NEW j \in Slots, Leaves(pipes[j], a) PROVE FALSE
      OBVIOUS
    <3>1. j # i
      BY <1>16
    <3>2. \/ pipes[i].x - pipes[j].x >= PipeSpacing
          \/ pipes[j].x - pipes[i].x >= PipeSpacing
      BY <3>1 DEF GameInv, PipesKeepApart
    <3>3. pipes[j].x - sa < -PipeWidth /\ pipes[i].x - (sa + sb) < -PipeWidth
      BY <1>13, <1>16
    <3>4. QED
      BY <3>2, <3>3, <1>2, <1>3, <1>5
  <2>4. \A j \in Slots : first[j].x = pipes[j].x - sa
    BY <2>3, <1>7
  <2>5. r1 = r - sa
    <3>1. first[R].x = r - sa /\ first[R].x <= r1
      BY <2>4, <1>6, <1>12 DEF r
    <3>2. r1 = pipes[R1].x - sa /\ pipes[R1].x <= r
      BY <2>4, <1>6, <1>12 DEF r1
    <3>3. pipes[R1].x \in Int
      BY <1>5, <1>12
    <3>4. QED
      BY <3>1, <3>2, <3>3, <1>2, <1>14
  <2>6. once[i].x - twice[i].x \in -Shift..Shift
    BY <2>2, <2>5, <1>2, <1>3, <1>9, <1>10, <1>14, <1>16
  <2>7. QED
    BY <2>2, <2>6, <1>16 DEF first, twice, once
<1>17. CASE ~Leaves(pipes[i], a) /\ ~Leaves(pipes[i], a + b)
  <2>1. first[i].x = pipes[i].x - sa
    BY <1>7, <1>17
  <2>2. ~Leaves(first[i], b)
    BY <2>1, <1>2, <1>5, <1>13, <1>17
  <2>3. twice[i].x = pipes[i].x - sa - sb /\ once[i].x = pipes[i].x - (sa + sb)
    BY <2>1, <2>2, <1>9, <1>10, <1>17
  <2>4. once[i].x = twice[i].x
    BY <2>3, <1>2, <1>5
  <2>5. QED
    BY <2>2, <2>4, <1>17 DEF first, twice, once
<1>18. QED
  BY <1>15, <1>16, <1>17

\* The promise of step's docstring, for the bird exactly, and for the pipes up to
\* a frame's scroll of a replacement.
THEOREM PartitionsAgreeHolds == Spec => []PartitionsAgree
<1>1. GameInv => PartitionsAgree
  <2> SUFFICES ASSUME GameInv, NEW a \in 0..MaxDelta, NEW b \in 0..MaxDelta, a + b <= MaxDelta
               PROVE  /\ nextY(nextY(y, vy, a), nextVy(vy, a), b) = nextY(y, vy, a + b)
                      /\ nextVy(nextVy(vy, a), b) = nextVy(vy, a + b)
                      /\ LET gaps  == [i \in Slots |-> EdgeMargin]
                             first == movePipes(pipes, a, gaps)
                             twice == movePipes(first, b, gaps)
                             once  == movePipes(pipes, a + b, gaps)
                         IN  \A i \in Slots :
                               /\ Leaves(pipes[i], a + b) <=> Leaves(pipes[i], a) \/ Leaves(first[i], b)
                               /\ Leaves(pipes[i], a + b) => once[i].x - twice[i].x \in -Shift..Shift
                               /\ ~Leaves(pipes[i], a + b) => once[i].x = twice[i].x
    BY DEF PartitionsAgree
  <2>1. y \in Int /\ vy \in Int /\ HalfGravity \in Int /\ a \in Int /\ b \in Int
    BY GameAssumption DEF GameInv, TypeOK
  <2>2. [i \in Slots |-> EdgeMargin] \in [Slots -> Nat]
    BY GameAssumption
  <2>3. /\ nextY(nextY(y, vy, a), nextVy(vy, a), b) = nextY(y, vy, a + b)
        /\ nextVy(nextVy(vy, a), b) = nextVy(vy, a + b)
    <3>1. \A c, d \in Int : /\ nextY(nextY(y, vy, c), nextVy(vy, c), d) = nextY(y, vy, c + d)
                            /\ nextVy(nextVy(vy, c), d) = nextVy(vy, c + d)
      BY <2>1, FlightAddsUp
    <3>2. QED
      BY <2>1, <3>1
  <2> DEFINE gaps == [i \in Slots |-> EdgeMargin]
             first == movePipes(pipes, a, gaps)
             twice == movePipes(first, b, gaps)
             once  == movePipes(pipes, a + b, gaps)
  <2>4. \A i \in Slots :
          /\ Leaves(pipes[i], a + b) <=> Leaves(pipes[i], a) \/ Leaves(first[i], b)
          /\ Leaves(pipes[i], a + b) => once[i].x - twice[i].x \in -Shift..Shift
          /\ ~Leaves(pipes[i], a + b) => once[i].x = twice[i].x
    <3>1. gaps \in [Slots -> Nat]
      BY <2>2
    <3> HIDE DEF gaps
    <3>2. QED
      BY <3>1, CourseAddsUp
  <2>5. QED
    BY <2>3, <2>4
<1>2. QED
  BY <1>1, GameInvariant, PTL

=============================================================================
