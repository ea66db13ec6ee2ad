------------------------ MODULE SequentialPartsProofs ------------------------
(***************************************************************************)
(* The proofs about the parts that compute on one thread (SequentialParts):*)
(* the gallery's frames, the words of the C probe, and what the behaviours *)
(* of all three parts have.  AggregateAbiProofs has those about structs.   *)
(*                                                                         *)
(* Gallery.  The layout of the gallery and of the counter's controls is    *)
(* sound on every screen whose sides have at least 200 pixels, in every    *)
(* orientation and at every size in between (GalleryUI); what a frame does *)
(* to the scene on the screen; and that a frame of pixels is one of        *)
(* Gallery.  The sizes of diagnostics/layout grow with the shorter side,   *)
(* the numbers of columns and rows change with the ratio of the sides: the *)
(* argument first bounds the sizes by the sides, once for all, and then    *)
(* looks at each card in its column and row.  FrameCases says what a frame *)
(* does, by cases; every invariant of the frames is shown case by case.    *)
(*                                                                         *)
(* Words.  Values are classified and decoded rightly in words of any       *)
(* width, not only in those that a run enumerates.  What a value was made  *)
(* of is an invariant (MadeInv).  From it, a word's remainder, and the     *)
(* bits of its flags, give each mask of equates.h a verdict                *)
(* (TypesOfHeaders, TypesOfPointers, TypesOfCode, TypesOfPorts); scheme.h  *)
(* follows because its masks and types are equal to those                  *)
(* (PredicatesRepeatTypes).  Flags are joined from four bits at a time,    *)
(* and read back the same way (SixteenBits).                               *)
(***************************************************************************)
EXTENDS SequentialParts, AggregateAbiProofs

-----------------------------------------------------------------------------
(* The gallery: its layout                                                 *)

\* The screens of ScreensAssumption.
LargeEnough(screen) ==
  /\ screen[1] \in Nat /\ screen[1] >= 200
  /\ screen[2] \in Nat /\ screen[2] >= 200

\* The sizes are integers at least as large as their minima, in this order.
LEMMA SizesAreOrdered ==
  ASSUME NEW screen, LargeEnough(screen)
  PROVE  /\ margin(screen) \in Int /\ margin(screen) >= 16
         /\ titleSize(screen) \in Int /\ titleSize(screen) >= 24
         /\ bodySize(screen) \in Int /\ bodySize(screen) >= 16
         /\ lineGap(screen) \in Int /\ lineGap(screen) >= bodySize(screen) + 8
         /\ gap(screen) \in Int /\ gap(screen) >= 12
         /\ margin(screen) <= lineGap(screen)
         /\ margin(screen) + bodySize(screen) <= titleSize(screen) + 2 * lineGap(screen)
<1> DEFINE side == smaller(screen[1], screen[2])
<1>1. side \in Nat /\ side >= 200
  BY DEF LargeEnough, smaller
<1> HIDE DEF side
<1>2. margin(screen) = larger(16, side \div 30) /\ titleSize(screen) = larger(24, side \div 18)
  BY DEF margin, titleSize, side
<1>. QED
  BY <1>1, <1>2 DEF larger, bodySize, lineGap, gap

\* The header, the footer and the gaps leave room for a pixel of each card and
\* control: two rows always, three where the screen is upright.
LEMMA SizesLeaveRoom ==
  ASSUME NEW screen, LargeEnough(screen)
  PROVE  /\ 2 * margin(screen) + 2 * gap(screen) + 3 <= screen[1]
         /\ cardsY(screen) + footerSpace(screen) + gap(screen) + 2 <= screen[2]
         /\ columnsFor(screen) = 2 =>
              cardsY(screen) + footerSpace(screen) + 2 * gap(screen) + 3 <= screen[2]
<1> DEFINE side == smaller(screen[1], screen[2])
<1>1. side \in Nat /\ side >= 200 /\ side <= screen[1] /\ side <= screen[2]
  BY DEF LargeEnough, smaller
<1>2. columnsFor(screen) = 2 => 3 * side < 2 * screen[2]
  BY DEF columnsFor, LargeEnough, smaller
<1> HIDE DEF side
<1>3. margin(screen) = larger(16, side \div 30) /\ titleSize(screen) = larger(24, side \div 18)
  BY DEF margin, titleSize, side
<1> DEFINE m == margin(screen)  t == titleSize(screen)  b == bodySize(screen)
           l == lineGap(screen)  g == gap(screen)
<1>4. /\ m \in Int /\ 30 * m <= larger(480, side)
      /\ t \in Int /\ 18 * t <= larger(432, side)
  BY <1>1, <1>3 DEF larger
<1>5. b \in Int /\ 2 * b <= larger(32, t)
  BY <1>4 DEF bodySize, larger
<1>6. l \in Int /\ 2 * l <= 2 * b + larger(16, b)
  BY <1>5 DEF lineGap, larger
<1>7. g \in Int /\ 2 * g <= larger(24, m)
  BY <1>4 DEF gap, larger
<1>8. cardsY(screen) = m + t + 2 * l /\ footerSpace(screen) = m + 2 * l + b
  BY DEF cardsY, footerSpace
<1> HIDE DEF m, t, b, l, g
<1>9. 2 * m + 2 * g + 3 <= side
  BY <1>1, <1>4, <1>7 DEF larger
<1>10. 2 * m + t + 4 * l + b + g + 2 <= side
  BY <1>1, <1>4, <1>5, <1>6, <1>7 DEF larger
<1>11. 2 * (2 * m + t + 4 * l + b + 2 * g + 3) <= 3 * side
  BY <1>1, <1>4, <1>5, <1>6, <1>7 DEF larger
<1>. QED
  BY <1>1, <1>2, <1>4, <1>5, <1>6, <1>7, <1>8, <1>9, <1>10, <1>11
     DEF LargeEnough, m, t, b, l, g

-----------------------------------------------------------------------------
(* The cards                                                               *)

\* Cards as high and as wide as they are, side by side in columns and rows.
LEMMA CardInItsPlace ==
  ASSUME NEW screen, LargeEnough(screen), NEW i \in 0..5
  PROVE  LET n == columnsFor(screen)
             w == cardWidth(screen)
             h == cardHeight(screen, 6)
         IN  /\ n \in {2, 3} /\ w \in Int /\ w >= 1 /\ h \in Int /\ h >= 1
             /\ n * w + (n - 1) * gap(screen) + 2 * margin(screen) <= screen[1]
             /\ n = 2 => 3 * h + 2 * gap(screen) + cardsY(screen) + footerSpace(screen) <= screen[2]
             /\ n = 3 => 2 * h + gap(screen) + cardsY(screen) + footerSpace(screen) <= screen[2]
             /\ i % n \in 0..(n - 1)
             /\ n = 2 => i \div n \in 0..2
             /\ n = 3 => i \div n \in 0..1
             /\ Card(screen, 6, i) =
                  [x |-> margin(screen) + (i % n) * (w + gap(screen)),
                   y |-> cardsY(screen) + (i \div n) * (h + gap(screen)),
                   width |-> w, height |-> h]
<1> DEFINE n == columnsFor(screen)
           w == cardWidth(screen)
           h == cardHeight(screen, 6)
           y == cardsY(screen)
           f == footerSpace(screen)
           m == margin(screen)
           g == gap(screen)
<1> SUFFICES /\ n \in {2, 3} /\ w \in Int /\ w >= 1 /\ h \in Int /\ h >= 1
             /\ n * w + (n - 1) * g + 2 * m <= screen[1]
             /\ n = 2 => 3 * h + 2 * g + y + f <= screen[2]
             /\ n = 3 => 2 * h + g + y + f <= screen[2]
             /\ i % n \in 0..(n - 1)
             /\ n = 2 => i \div n \in 0..2
             /\ n = 3 => i \div n \in 0..1
             /\ Card(screen, 6, i) = [x |-> m + (i % n) * (w + g), y |-> y + (i \div n) * (h + g),
                                      width |-> w, height |-> h]
  OBVIOUS
<1>1. n \in {2, 3}
  BY DEF columnsFor
<1>2. m \in Int /\ m >= 16 /\ g \in Int /\ g >= 12 /\ y \in Int /\ f \in Int
  BY SizesAreOrdered DEF cardsY, footerSpace
<1>3. /\ screen[1] \in Int /\ screen[2] \in Int
      /\ 2 * m + 2 * g + 3 <= screen[1]
      /\ y + f + g + 2 <= screen[2]
      /\ n = 2 => y + f + 2 * g + 3 <= screen[2]
  BY SizesLeaveRoom DEF LargeEnough
<1>4. rowsFor(screen, 6) = IF n = 3 THEN 2 ELSE 3
  BY <1>1 DEF rowsFor
<1>5. w = quot(screen[1] - 2 * m - (n - 1) * g, n)
  BY DEF cardWidth
<1>6. h = quot(screen[2] - y - f - (rowsFor(screen, 6) - 1) * g, rowsFor(screen, 6))
  BY DEF cardHeight
<1>7. Card(screen, 6, i) = rectangle(m + (i % n) * (w + g), y + (i \div n) * (h + g), w, h)
  BY DEF Card
<1> HIDE DEF n, w, h, y, f, m, g
<1>8. CASE n = 2
  <2>1. w = (screen[1] - 2 * m - g) \div 2 /\ h = (screen[2] - y - f - 2 * g) \div 3
    BY <1>2, <1>3, <1>4, <1>5, <1>6, <1>8 DEF quot
  <2>2. w \in Int /\ w >= 1 /\ 2 * w + g + 2 * m <= screen[1]
    BY <1>2, <1>3, <2>1
  <2>3. h \in Int /\ h >= 1 /\ 3 * h + 2 * g + y + f <= screen[2]
    BY <1>2, <1>3, <1>8, <2>1
  <2>4. i % 2 \in 0..1 /\ i \div 2 \in 0..2
    OBVIOUS
  <2>5. larger(1, w) = w /\ larger(1, h) = h
    BY <2>2, <2>3 DEF larger
  <2>6. Card(screen, 6, i) = [x |-> m + (i % n) * (w + g), y |-> y + (i \div n) * (h + g),
                              width |-> w, height |-> h]
    BY <1>7, <2>5 DEF rectangle
  <2>. QED
    BY <1>2, <1>8, <2>2, <2>3, <2>4, <2>6
<1>9. CASE n = 3
  <2>1. w = (screen[1] - 2 * m - 2 * g) \div 3 /\ h = (screen[2] - y - f - g) \div 2
    BY <1>2, <1>3, <1>4, <1>5, <1>6, <1>9 DEF quot
  <2>2. w \in Int /\ w >= 1 /\ 3 * w + 2 * g + 2 * m <= screen[1]
    BY <1>2, <1>3, <2>1
  <2>3. h \in Int /\ h >= 1 /\ 2 * h + g + y + f <= screen[2]
    BY <1>2, <1>3, <2>1
  <2>4. i % 3 \in 0..2 /\ i \div 3 \in 0..1
    OBVIOUS
  <2>5. larger(1, w) = w /\ larger(1, h) = h
    BY <2>2, <2>3 DEF larger
  <2>6. Card(screen, 6, i) = [x |-> m + (i % n) * (w + g), y |-> y + (i \div n) * (h + g),
                              width |-> w, height |-> h]
    BY <1>7, <2>5 DEF rectangle
  <2>. QED
    BY <1>2, <1>9, <2>2, <2>3, <2>4, <2>6
<1>. QED
  BY <1>1, <1>8, <1>9

\* The header that ends above the cards holds the Back target.
LEMMA BackTargetIsAbove ==
  ASSUME NEW screen, LargeEnough(screen)
  PROVE  /\ BackTarget(screen).x \in Int /\ BackTarget(screen).width \in Int
         /\ BackTarget(screen).y \in Int /\ BackTarget(screen).height \in Int
         /\ BackTarget(screen).y + BackTarget(screen).height <= cardsY(screen)
  BY SizesAreOrdered DEF BackTarget, rectangle, larger, cardsY

LEMMA DivModApart ==
  ASSUME NEW n \in {2, 3}, NEW i \in 0..5, NEW j \in 0..5, i # j
  PROVE  i % n # j % n \/ i \div n # j \div n
<1>1. CASE n = 2
  BY <1>1
<1>2. CASE n = 3
  BY <1>2
<1>. QED
  BY <1>1, <1>2

\* Steps of size s that are not the same differ by one at least.
LEMMA StepsApart ==
  ASSUME NEW p \in 0..2, NEW q \in 0..2, p # q, NEW s \in Int, s >= 1, NEW g \in Int, g >= 1
  PROVE  p * (s + g) + s <= q * (s + g) \/ q * (s + g) + s <= p * (s + g)
<1>1. p \in {0, 1, 2} /\ q \in {0, 1, 2}
  OBVIOUS
<1>. QED
  BY <1>1

\* For six cards, as many as the registry has scenes.
LEMMA SixCardsAreSound ==
  ASSUME NEW screen, LargeEnough(screen)
  PROVE  CardsAreSound(screen, 6)
<1> SUFFICES ASSUME NEW i \in 0..5, NEW j \in 0..5
             PROVE  /\ Within(Card(screen, 6, i), margin(screen), cardsY(screen),
                              screen[1] - margin(screen), screen[2] - footerSpace(screen))
                    /\ Disjoint(Card(screen, 6, i), BackTarget(screen))
                    /\ i # j => Disjoint(Card(screen, 6, i), Card(screen, 6, j))
  BY DEF CardsAreSound
<1> DEFINE n == columnsFor(screen)
           w == cardWidth(screen)
           h == cardHeight(screen, 6)
           y == cardsY(screen)
           f == footerSpace(screen)
           m == margin(screen)
           g == gap(screen)
           ci == i % n   ri == i \div n   cj == j % n   rj == j \div n
<1>1. /\ n \in {2, 3} /\ w \in Int /\ w >= 1 /\ h \in Int /\ h >= 1
      /\ n * w + (n - 1) * g + 2 * m <= screen[1]
      /\ n = 2 => 3 * h + 2 * g + y + f <= screen[2]
      /\ n = 3 => 2 * h + g + y + f <= screen[2]
      /\ ci \in 0..(n - 1)
      /\ n = 2 => ri \in 0..2
      /\ n = 3 => ri \in 0..1
      /\ Card(screen, 6, i) = [x |-> m + ci * (w + g), y |-> y + ri * (h + g),
                               width |-> w, height |-> h]
  BY CardInItsPlace
<1>2. /\ cj \in 0..(n - 1)
      /\ n = 2 => rj \in 0..2
      /\ n = 3 => rj \in 0..1
      /\ Card(screen, 6, j) = [x |-> m + cj * (w + g), y |-> y + rj * (h + g),
                               width |-> w, height |-> h]
  BY CardInItsPlace
<1>3. /\ m \in Int /\ m >= 16 /\ g \in Int /\ g >= 12 /\ y \in Int /\ f \in Int
      /\ screen[1] \in Int /\ screen[2] \in Int
  BY SizesAreOrdered DEF cardsY, footerSpace, LargeEnough
<1>4. i # j => ci # cj \/ ri # rj
  BY <1>1, DivModApart
<1> HIDE DEF n, w, h, y, f, m, g, ci, ri, cj, rj
<1>5. /\ ci * (w + g) \in Int /\ ci * (w + g) >= 0
      /\ m + ci * (w + g) + w <= screen[1] - m
  <2>1. CASE n = 2
    <3>1. ci \in {0, 1}
      BY <1>1, <2>1
    <3>. QED
      BY <1>1, <1>3, <2>1, <3>1
  <2>2. CASE n = 3
    <3>1. ci \in {0, 1, 2}
      BY <1>1, <2>2
    <3>. QED
      BY <1>1, <1>3, <2>2, <3>1
  <2>. QED
    BY <1>1, <2>1, <2>2
<1>6. /\ ri * (h + g) \in Int /\ ri * (h + g) >= 0
      /\ y + ri * (h + g) + h <= screen[2] - f
  <2>1. CASE n = 2
    <3>1. ri \in {0, 1, 2}
      BY <1>1, <2>1
    <3>. QED
      BY <1>1, <1>3, <2>1, <3>1
  <2>2. CASE n = 3
    <3>1. ri \in {0, 1}
      BY <1>1, <2>2
    <3>. QED
      BY <1>1, <1>3, <2>2, <3>1
  <2>. QED
    BY <1>1, <2>1, <2>2
<1>7. Within(Card(screen, 6, i), m, y, screen[1] - m, screen[2] - f)
  BY <1>1, <1>3, <1>5, <1>6 DEF Within
<1>8. Disjoint(Card(screen, 6, i), BackTarget(screen))
  <2>1. Card(screen, 6, i).y = y + ri * (h + g)
    BY <1>1
  <2>2. BackTarget(screen).y + BackTarget(screen).height <= Card(screen, 6, i).y
    BY <1>3, <1>6, <2>1, BackTargetIsAbove DEF y
  <2>. QED
    BY <2>2 DEF Disjoint
<1>9. i # j => Disjoint(Card(screen, 6, i), Card(screen, 6, j))
  <2>1. ci \in 0..2 /\ cj \in 0..2 /\ ri \in 0..2 /\ rj \in 0..2
    BY <1>1, <1>2
  <2>2. CASE ci # cj
    <3>1. ci * (w + g) + w <= cj * (w + g) \/ cj * (w + g) + w <= ci * (w + g)
      BY <1>1, <1>3, <2>1, <2>2, StepsApart
    <3>2. ci * (w + g) \in Int /\ cj * (w + g) \in Int
      BY <1>1, <1>3, <2>1
    <3>. QED
      BY <1>1, <1>2, <1>3, <3>1, <3>2 DEF Disjoint
  <2>3. CASE ri # rj
    <3>1. ri * (h + g) + h <= rj * (h + g) \/ rj * (h + g) + h <= ri * (h + g)
      BY <1>1, <1>3, <2>1, <2>3, StepsApart
    <3>2. ri * (h + g) \in Int /\ rj * (h + g) \in Int
      BY <1>1, <1>3, <2>1
    <3>. QED
      BY <1>1, <1>2, <1>3, <3>1, <3>2 DEF Disjoint
  <2>. QED
    BY <1>4, <2>2, <2>3
<1>. QED
  BY <1>7, <1>8, <1>9 DEF m, y, f

-----------------------------------------------------------------------------
(* The counter's controls                                                  *)
LEMMA LargeControlsAreSound ==
  ASSUME NEW screen, LargeEnough(screen)
  PROVE  ControlsAreSound(screen)
<1> SUFFICES ASSUME NEW i \in 1..3, NEW j \in 1..3
             PROVE  /\ Within(Control(screen, i), margin(screen), margin(screen),
                              screen[1] - margin(screen),
                              screen[2] - (margin(screen) + lineGap(screen)))
                    /\ Disjoint(Control(screen, i), BackTarget(screen))
                    /\ i # j => Disjoint(Control(screen, i), Control(screen, j))
  BY DEF ControlsAreSound
<1> DEFINE m == margin(screen)  b == bodySize(screen)  l == lineGap(screen)
           t == titleSize(screen)  g == gap(screen)
           w == quot(screen[1] - 2 * m - 2 * g, 3)
           y == screen[2] - (m + 2 * l + b)
           pi == i - 1   pj == j - 1
<1>1. /\ m \in Int /\ m >= 16 /\ b \in Int /\ b >= 16 /\ l \in Int /\ l >= b + 8
      /\ t \in Int /\ g \in Int /\ g >= 12 /\ m <= l /\ m + b <= t + 2 * l
      /\ screen[1] \in Int /\ screen[2] \in Int
  BY SizesAreOrdered DEF LargeEnough
<1>2. 2 * m + 2 * g + 3 <= screen[1] /\ (m + t + 2 * l) + (m + 2 * l + b) <= screen[2]
  BY <1>1, SizesLeaveRoom DEF cardsY, footerSpace
<1>3. BackTarget(screen).y + BackTarget(screen).height <= m + t + 2 * l
  BY BackTargetIsAbove DEF cardsY
<1>4. /\ BackTarget(screen).y \in Int /\ BackTarget(screen).height \in Int
  BY BackTargetIsAbove
<1>5. /\ Control(screen, i) = [x |-> m + pi * (w + g), y |-> y, width |-> w, height |-> b + m]
      /\ Control(screen, j) = [x |-> m + pj * (w + g), y |-> y, width |-> w, height |-> b + m]
  BY DEF Control
<1>6. w \in Int /\ w >= 1 /\ 3 * w + 2 * g + 2 * m <= screen[1]
  BY <1>1, <1>2 DEF quot
<1>7. y \in Int /\ m + t + 2 * l <= y /\ y = screen[2] - (m + 2 * l + b)
  BY <1>1, <1>2
<1>8. t >= 24
  BY SizesAreOrdered
<1>9. pi \in {0, 1, 2} /\ pj \in {0, 1, 2} /\ (i # j => pi # pj)
  OBVIOUS
<1> HIDE DEF m, b, l, t, g, w, y, pi, pj
<1>10. Within(Control(screen, i), m, m, screen[1] - m, screen[2] - (m + l))
  BY <1>1, <1>5, <1>6, <1>7, <1>8, <1>9 DEF Within
<1>11. Disjoint(Control(screen, i), BackTarget(screen))
  <2>1. BackTarget(screen).y + BackTarget(screen).height <= Control(screen, i).y
    BY <1>1, <1>3, <1>4, <1>5, <1>7
  <2>. QED
    BY <2>1 DEF Disjoint
<1>12. i # j => Disjoint(Control(screen, i), Control(screen, j))
  <2>1. ASSUME i # j
        PROVE  pi * (w + g) + w <= pj * (w + g) \/ pj * (w + g) + w <= pi * (w + g)
    BY <1>1, <1>6, <1>9, <2>1, StepsApart
  <2>2. pi * (w + g) \in Int /\ pj * (w + g) \in Int
    BY <1>1, <1>6, <1>9
  <2>. QED
    BY <1>1, <1>5, <1>6, <2>1, <2>2 DEF Disjoint
<1>. QED
  BY <1>10, <1>11, <1>12 DEF m, l

-----------------------------------------------------------------------------
\* On every screen with sides of 200 pixels and more, the cards and the controls
\* keep within the margins and above the footer, the cards also below the header,
\* clear of each other and of the Back target (gallery-layout, counter-controls).
THEOREM LayoutStaysSound == Spec => []LayoutIsSound
<1>1. LayoutIsSound
  <2>1. ASSUME NEW screen \in Screens PROVE LargeEnough(screen)
    BY ScreensAssumption DEF LargeEnough
  <2>2. Len(SceneIds) = 6
    BY DEF SceneIds
  <2>. QED
    BY <2>1, <2>2, SixCardsAreSound, LargeControlsAreSound DEF LayoutIsSound
<1>. QED
  BY <1>1, PTL

-----------------------------------------------------------------------------
(* Frames of the gallery                                                   *)
SixScenes == ToSet(SceneIds)

LEMMA TheScenes ==
  /\ Len(SceneIds) = 6
  /\ SixScenes = {"following-eyes", "touch-trail", "flappy-bird", "virtual-controls",
                  "touch-diagnostics", "gesture-diagnostics"}
  /\ \A i \in 1..6 : SceneIds[i] \in SixScenes
  BY DEF SceneIds, SixScenes, ToSet

\* What poll-input hands to a frame on a screen.
FrameInputs(screen) ==
  {input \in [screen : {screen}, phase : Phases, point : Pixels, touches : 0..MaxTouches,
              code : Gestures, activate : BOOLEAN, previous : BOOLEAN, back : BOOLEAN] :
     input.phase \in {"press", "down"} => input.point \in Points}

LEMMA InputsAreFrameInputs ==
  ASSUME NEW screen \in Screens, NEW input \in InputsOf[screen]
  PROVE  input \in FrameInputs(screen)
<1>1. input \in pollInput(screen)
  BY DEF InputsOf
<1>2. PICK raw \in Samples(screen) : input = normalizeInput(raw)
  BY <1>1 DEF pollInput
<1>3. /\ raw.at \in Points /\ raw.touches \in 0..MaxTouches /\ raw.code \in Gestures
      /\ raw.screen = screen /\ raw.enter \in BOOLEAN /\ raw.left \in BOOLEAN
      /\ raw.pressed \in BOOLEAN /\ raw.down \in BOOLEAN /\ raw.released \in BOOLEAN
  BY DEF Samples, PointsOn
<1> DEFINE point == IF raw.touches > 0 \/ raw.pressed \/ raw.down \/ raw.released
                    THEN raw.at ELSE <<>>
           phase == pointerPhase(raw)
           goback == raw.back \/ raw.escape
<1>4. input = [screen |-> raw.screen, phase |-> phase, point |-> point, touches |-> raw.touches,
               code |-> raw.code, activate |-> raw.enter, previous |-> raw.left, back |-> goback]
  BY <1>2 DEF normalizeInput
<1>5. point \in Pixels /\ phase \in Phases /\ (phase \in {"press", "down"} => point \in Points)
  BY <1>3 DEF Pixels, Phases, pointerPhase
<1>6. goback \in BOOLEAN
  OBVIOUS
<1> HIDE DEF point, phase, goback
<1>. QED
  BY <1>3, <1>4, <1>5, <1>6 DEF FrameInputs

-----------------------------------------------------------------------------
(* A frame, by cases                                                       *)
WantsBack(input) == input.back \/ canvasBack(gallery, input)

Opens(input) ==
  gallery.mode = "gallery" /\ ~WantsBack(input) /\ input.phase = "press"
    /\ hitOf(gallery, input) # "none"

\* A gallery in its two modes.
GalleryShape ==
  /\ gallery = [mode |-> gallery.mode, active |-> gallery.active,
                sceneState |-> gallery.sceneState, live |-> gallery.live,
                closeRequested |-> gallery.closeRequested]
  /\ gallery.mode \in {"gallery", "scene"}
  /\ gallery.mode = "scene" => gallery.active \in SixScenes

LEMMA HitIsACard ==
  ASSUME NEW screen, NEW point, hitTest(screen, SceneIds, point, "gallery") # "none"
  PROVE  /\ hitTest(screen, SceneIds, point, "gallery") \in SixScenes
         /\ \E i \in 0..5 : containsPoint(Card(screen, 6, i), point)
<1> DEFINE Hit(i) == containsPoint(Card(screen, 6, i - 1), point)
           first == FirstHit(6, LAMBDA k : Card(screen, 6, k - 1), point)
<1>1. first = IF \E i \in 1..6 : Hit(i)
              THEN CHOOSE i \in 1..6 : Hit(i) /\ \A j \in 1..(i - 1) : ~Hit(j)
              ELSE 0
  BY DEF FirstHit
<1> HIDE DEF Hit
<1>2. ASSUME NEW i \in 1..6, Hit(i)
      PROVE  \E k \in 1..6 : Hit(k) /\ \A j \in 1..(k - 1) : ~Hit(j)
  <2>1. i \in {1, 2, 3, 4, 5, 6}
    OBVIOUS
  <2>2. \A k \in 1..6 : \A j \in 1..(k - 1) : j \in {1, 2, 3, 4, 5} /\ j < k
    OBVIOUS
  <2>. QED
    BY <1>2, <2>1, <2>2
<1>3. first # 0 => first \in 1..6 /\ Hit(first)
  BY <1>1, <1>2
<1> HIDE DEF first
<1>4. hitTest(screen, SceneIds, point, "gallery") = IF first = 0 THEN "none" ELSE SceneIds[first]
  BY TheScenes DEF hitTest, first
<1>5. first \in 1..6 /\ Hit(first) /\ first - 1 \in 0..5
  BY <1>3, <1>4
<1>. QED
  BY <1>4, <1>5, TheScenes DEF Hit

LEMMA HitIsAControl ==
  ASSUME NEW screen, NEW point
  PROVE  /\ hitTestControls(screen, point) \in {"none", "increment", "decrement", "reset"}
         /\ hitTestControls(screen, point) # "none" =>
              \E i \in 1..3 : containsPoint(Control(screen, i), point)
<1> DEFINE Hit(i) == containsPoint(Control(screen, i), point)
           first == FirstHit(3, LAMBDA k : Control(screen, k), point)
<1>1. first = IF \E i \in 1..3 : Hit(i)
              THEN CHOOSE i \in 1..3 : Hit(i) /\ \A j \in 1..(i - 1) : ~Hit(j)
              ELSE 0
  BY DEF FirstHit
<1> HIDE DEF Hit
<1>2. ASSUME NEW i \in 1..3, Hit(i)
      PROVE  \E k \in 1..3 : Hit(k) /\ \A j \in 1..(k - 1) : ~Hit(j)
  <2>1. i \in {1, 2, 3}
    OBVIOUS
  <2>2. \A k \in 1..3 : \A j \in 1..(k - 1) : j \in {1, 2} /\ j < k
    OBVIOUS
  <2>. QED
    BY <1>2, <2>1, <2>2
<1>3. first # 0 => first \in 1..3 /\ Hit(first)
  BY <1>1, <1>2
<1> HIDE DEF first
<1>4. hitTestControls(screen, point) = IF first = 0 THEN "none" ELSE ControlActions[first]
  BY DEF hitTestControls, first
<1>. QED
  BY <1>3, <1>4 DEF Hit, ControlActions

LEMMA FrameCases ==
  ASSUME GalleryShape, NEW screen \in Screens, NEW input \in FrameInputs(screen)
  PROVE  /\ WantsBack(input) => advanceGallery(gallery, input) = back(gallery)
         /\ Opens(input) =>
              /\ hitOf(gallery, input) \in SixScenes
              /\ advanceGallery(gallery, input) = openScene(gallery, hitOf(gallery, input), input)
         /\ ~WantsBack(input) /\ ~Opens(input) =>
              advanceGallery(gallery, input) =
                IF gallery.mode = "scene"
                THEN [gallery EXCEPT !.sceneState = sceneUpdate(gallery.active, @, input)]
                ELSE gallery
<1> DEFINE backed == [input EXCEPT !.back = @ \/ canvasBack(gallery, input)]
<1>1. /\ input = [screen |-> screen, phase |-> input.phase, point |-> input.point,
                  touches |-> input.touches, code |-> input.code, activate |-> input.activate,
                  previous |-> input.previous, back |-> input.back]
      /\ input.back \in BOOLEAN
  BY DEF FrameInputs
<1>2. /\ backed.phase = input.phase /\ backed.screen = screen /\ backed.point = input.point
      /\ backed.back = WantsBack(input)
  <2> DEFINE wanted == WantsBack(input)
  <2>1. backed = [input EXCEPT !.back = wanted]
    BY Zenon DEF WantsBack
  <2> HIDE DEF wanted, backed
  <2>2. backed.back = wanted
    BY <1>1, <2>1
  <2>. QED
    BY <1>1, <2>1, <2>2 DEF wanted
<1>3. ~WantsBack(input) => backed = input
  <2>1. ASSUME ~WantsBack(input) PROVE (input.back \/ canvasBack(gallery, input)) = input.back
    BY <1>1, <2>1 DEF WantsBack
  <2>. QED
    BY <1>1, <2>1
<1>4. advanceGallery(gallery, input) =
        IF gallery.mode = "gallery" /\ ~backed.back /\ backed.phase = "press"
             /\ hitOf(gallery, backed) # "none"
        THEN openScene(gallery, hitOf(gallery, backed), backed)
        ELSE runFrame(gallery, backed)
  BY Zenon DEF advanceGallery
<1> HIDE DEF backed
<1>5. Opens(input) => hitOf(gallery, input) \in SixScenes
  <2>1. gallery.mode = "gallery" =>
          hitOf(gallery, input) = hitTest(screen, SceneIds, input.point, "gallery")
    BY <1>1 DEF hitOf
  <2>. QED
    BY <2>1, HitIsACard DEF Opens
<1>6. hitOf(gallery, backed) = hitOf(gallery, input)
  BY <1>1, <1>2 DEF hitOf
<1>. QED
  BY <1>2, <1>3, <1>4, <1>5, <1>6 DEF Opens, runFrame

-----------------------------------------------------------------------------
(* The scenes' states                                                      *)
LEMMA BoundedSequences ==
  ASSUME NEW S, NEW n \in Nat, NEW s
  PROVE  s \in BoundedSeq(S, n) <=> s \in Seq(S) /\ Len(s) <= n
<1>1. ASSUME NEW m \in 0..n, s \in [1..m -> S] PROVE s \in Seq(S) /\ Len(s) <= n
  BY <1>1
<1>2. ASSUME s \in Seq(S), Len(s) <= n PROVE Len(s) \in 0..n /\ s \in [1..Len(s) -> S]
  BY <1>2
<1>. QED
  BY <1>1, <1>2 DEF BoundedSeq, SeqOf

LEMMA TakeLastBounds ==
  ASSUME NEW S, NEW n \in Nat, NEW s \in Seq(S)
  PROVE  /\ takeLast(n, s) \in Seq(S) /\ Len(takeLast(n, s)) <= n
         /\ \A i \in 1..Len(takeLast(n, s)) : \E j \in 1..Len(s) : takeLast(n, s)[i] = s[j]
<1> DEFINE m == larger(1, Len(s) - n + 1)
<1>1. m \in 1..(Len(s) + 1) /\ Len(s) - m + 1 <= n /\ Len(s) \in Nat
  BY DEF larger
<1> HIDE DEF m
<1>2. takeLast(n, s) = SubSeq(s, m, Len(s))
  BY DEF takeLast, m
<1>3. /\ SubSeq(s, m, Len(s)) \in Seq(S)
      /\ Len(SubSeq(s, m, Len(s))) = Len(s) - m + 1
      /\ \A i \in 1..(Len(s) - m + 1) : SubSeq(s, m, Len(s))[i] = s[m + i - 1]
  <2>1. m \in Int /\ Len(s) \in Int /\ \A i \in m..Len(s) : s[i] \in S
    BY <1>1
  <2>2. /\ SubSeq(s, m, Len(s)) \in Seq(S)
        /\ Len(SubSeq(s, m, Len(s))) = IF m <= Len(s) THEN Len(s) - m + 1 ELSE 0
        /\ \A i \in 1..(Len(s) - m + 1) : SubSeq(s, m, Len(s))[i] = s[m + i - 1]
    BY <2>1, SubSeqProperties
  <2>. QED
    BY <1>1, <2>2
<1>4. \A i \in 1..(Len(s) - m + 1) : m + i - 1 \in 1..Len(s)
  BY <1>1
<1>. QED
  BY <1>1, <1>2, <1>3, <1>4

LEMMA FreshStateFits ==
  ASSUME NEW scene \in SixScenes, NEW screen \in Screens, NEW input \in FrameInputs(screen)
  PROVE  sceneInit(scene, input) \in SceneStates(scene)
<1>1. /\ input.screen = screen /\ input.phase \in Phases /\ input.point \in Pixels
      /\ input.touches \in 0..MaxTouches /\ "idle" \in Phases /\ <<>> \in Pixels
  BY DEF FrameInputs, Phases, Pixels
<1>2. <<>> \in BoundedSeq(Points, maxPoints) /\ <<>> \in BoundedSeq(Gestures \ {0}, maxLog)
  <2>1. ASSUME NEW S, NEW n \in Nat PROVE <<>> \in BoundedSeq(S, n)
    <3>1. <<>> \in Seq(S) /\ Len(<<>>) <= n
      OBVIOUS
    <3>. QED
      BY <3>1, BoundedSequences, Zenon
  <2>. QED
    BY <2>1, InputAssumption
<1>3. CASE scene = "following-eyes"
  BY <1>1, <1>3 DEF sceneInit, SceneStates
<1>4. CASE scene = "touch-trail"
  BY <1>2, <1>4 DEF sceneInit, SceneStates
<1>5. CASE scene = "flappy-bird"
  BY <1>5 DEF sceneInit, SceneStates
<1>6. CASE scene = "virtual-controls"
  BY <1>1, <1>6 DEF sceneInit, SceneStates, placeholder
<1>7. CASE scene = "touch-diagnostics"
  BY <1>1, <1>7 DEF sceneInit, SceneStates, touchView
<1>8. CASE scene = "gesture-diagnostics"
  BY <1>1, <1>2, <1>8, InputAssumption DEF sceneInit, SceneStates
<1>. QED
  BY <1>3, <1>4, <1>5, <1>6, <1>7, <1>8, TheScenes

\* What stands for no point is none.
LEMMA PointsAreNoGap ==
  ASSUME NEW p \in Points
  PROVE  p # <<>>
<1>1. PICK a \in Int, b \in Int : p = <<a, b>>
  BY InputAssumption
<1>2. Len(<<a, b>>) = 2 /\ Len(<<>>) = 0
  OBVIOUS
<1>. QED
  BY <1>1, <1>2

LEMMA TrailFits ==
  ASSUME NEW state \in SceneStates("touch-trail"), NEW screen, NEW input \in FrameInputs(screen)
  PROVE  /\ trailStep(state, input) \in SceneStates("touch-trail")
         /\ \A p \in ToSet(trailStep(state, input).points) :
              p \in ToSet(state.points) \/ p = input.point
<1>1. /\ state = [points |-> state.points]
      /\ state.points \in Seq(Points) /\ Len(state.points) <= maxPoints
  BY BoundedSequences, InputAssumption DEF SceneStates
<1>2. \A s \in Seq(Points) : Len(s) <= maxPoints => [points |-> s] \in SceneStates("touch-trail")
  BY BoundedSequences, InputAssumption DEF SceneStates
<1>3. /\ input.phase = "press" => input.point \in Points
      /\ input.point # <<>> => input.point \in Points
  BY DEF FrameInputs, Pixels
<1>4. CASE input.phase = "press"
  <2>1. input.point # <<>>
    BY <1>3, <1>4, PointsAreNoGap
  <2>2. trailStep(state, input) = [points |-> <<input.point>>]
    BY <1>4, <2>1 DEF trailStep
  <2>3. <<input.point>> \in Seq(Points) /\ Len(<<input.point>>) <= maxPoints
    BY <1>3, <1>4, InputAssumption
  <2>4. \A p \in ToSet(<<input.point>>) : p = input.point
    BY DEF ToSet
  <2>5. [points |-> <<input.point>>] \in SceneStates("touch-trail")
    BY <1>2, <2>3
  <2>6. [points |-> <<input.point>>].points = <<input.point>>
    OBVIOUS
  <2>. QED
    BY <2>2, <2>4, <2>5, <2>6
<1>5. CASE input.phase = "down" /\ input.point # <<>>
  <2> DEFINE longer == Append(state.points, input.point)
  <2>1. /\ longer \in Seq(Points) /\ Len(longer) = Len(state.points) + 1
        /\ \A i \in 1..Len(state.points) : longer[i] = state.points[i]
        /\ longer[Len(state.points) + 1] = input.point
    BY <1>1, <1>3, <1>5, AppendProperties
  <2>2. \A j \in 1..Len(longer) : longer[j] \in ToSet(state.points) \/ longer[j] = input.point
    <3> HIDE DEF longer
    <3>1. \A i \in 1..Len(state.points) : state.points[i] \in ToSet(state.points)
      BY <1>1 DEF ToSet
    <3>. QED
      BY <1>1, <2>1, <3>1
  <2> HIDE DEF longer
  <2>3. trailStep(state, input) = [points |-> takeLast(maxPoints, longer)]
    BY <1>5 DEF trailStep, longer
  <2>4. /\ takeLast(maxPoints, longer) \in Seq(Points)
        /\ Len(takeLast(maxPoints, longer)) <= maxPoints
        /\ \A i \in 1..Len(takeLast(maxPoints, longer)) :
             \E j \in 1..Len(longer) : takeLast(maxPoints, longer)[i] = longer[j]
    BY <2>1, TakeLastBounds, InputAssumption, SMTT(30)
  <2> DEFINE last == takeLast(maxPoints, longer)
  <2>5. \A p \in ToSet(last) : p \in ToSet(state.points) \/ p = input.point
    <3> HIDE DEF last
    <3>1. \A p \in ToSet(last) : \E i \in 1..Len(last) : p = last[i]
      BY <2>4 DEF ToSet, last
    <3>. QED
      BY <2>2, <2>4, <3>1 DEF last
  <2>. QED
    BY <1>2, <2>3, <2>4, <2>5
<1>6. CASE ~(input.phase = "press") /\ ~(input.phase = "down" /\ input.point # <<>>)
  <2>1. trailStep(state, input) = state
    BY <1>6 DEF trailStep
  <2>. QED
    BY <2>1
<1>. QED
  BY <1>4, <1>5, <1>6

LEMMA UpdatedStateFits ==
  ASSUME NEW scene \in SixScenes, NEW screen \in Screens, NEW input \in FrameInputs(screen),
         NEW state \in SceneStates(scene)
  PROVE  sceneUpdate(scene, state, input) \in SceneStates(scene)
<1>1. /\ input.screen = screen /\ input.phase \in Phases /\ input.point \in Pixels
      /\ input.touches \in 0..MaxTouches /\ input.code \in Gestures
      /\ input.phase \in {"press", "down"} => input.point \in Points
  BY DEF FrameInputs
<1>2. CASE scene = "following-eyes"
  BY <1>1, <1>2 DEF sceneUpdate, updateEyes, SceneStates
<1>3. CASE scene = "touch-trail"
  BY <1>3, TrailFits DEF sceneUpdate
<1>4. CASE scene = "flappy-bird"
  BY <1>4 DEF sceneUpdate
<1>5. CASE scene = "virtual-controls"
  BY <1>1, <1>5 DEF sceneUpdate, SceneStates, placeholder
<1>6. CASE scene = "touch-diagnostics"
  BY <1>1, <1>6 DEF sceneUpdate, SceneStates, touchView
<1>7. CASE scene = "gesture-diagnostics"
  <2>1. state.log \in Seq(Gestures \ {0}) /\ Len(state.log) <= maxLog
    BY <1>7, BoundedSequences, InputAssumption DEF SceneStates
  <2> DEFINE new == input.code # 0 /\ input.code # state.lastCode
             log == IF new THEN takeLast(maxLog, Append(state.log, input.code)) ELSE state.log
  <2>2. log \in Seq(Gestures \ {0}) /\ Len(log) <= maxLog
    <3>1. CASE new
      <4>1. Append(state.log, input.code) \in Seq(Gestures \ {0})
        BY <1>1, <2>1, <3>1
      <4>. QED
        BY <3>1, <4>1, TakeLastBounds, InputAssumption
    <3>. QED
      BY <2>1, <3>1
  <2>3. log \in BoundedSeq(Gestures \ {0}, maxLog)
    BY <2>2, BoundedSequences, InputAssumption
  <2>4. gestureStep(state, input) = [lastCode |-> input.code, point |-> input.point, log |-> log]
    BY DEF gestureStep
  <2> HIDE DEF log
  <2>. QED
    BY <1>1, <1>7, <2>3, <2>4 DEF sceneUpdate, SceneStates
<1>. QED
  BY <1>2, <1>3, <1>4, <1>5, <1>6, <1>7, TheScenes

-----------------------------------------------------------------------------
(* The scene on the screen                                                 *)
SceneInv == GalleryShape /\ SceneStateFits

LEMMA NothingOpenAtFirst == ASSUME Init PROVE SceneInv
  BY DEF Init, SceneInv, GalleryShape, SceneStateFits

\* What is left of the gallery by leaving a scene, and what opening one puts there.
LEMMA LeftGallery ==
  ASSUME GalleryShape
  PROVE  /\ gallery.mode = "scene" =>
              back(gallery) = [mode |-> "gallery", active |-> "nil", sceneState |-> NoState,
                               live |-> [gallery.live EXCEPT ![gallery.active] = @ - 1],
                               closeRequested |-> gallery.closeRequested]
         /\ gallery.mode = "gallery" =>
              back(gallery) = [mode |-> "gallery", active |-> gallery.active,
                               sceneState |-> gallery.sceneState, live |-> gallery.live,
                               closeRequested |-> TRUE]
<1> DEFINE live == [gallery.live EXCEPT ![gallery.active] = @ - 1]
<1>1. ASSUME gallery.mode = "scene"
      PROVE  back(gallery) = [mode |-> "gallery", active |-> "nil", sceneState |-> NoState,
                              live |-> live, closeRequested |-> gallery.closeRequested]
  <2>1. back(gallery) = [gallery EXCEPT !.mode = "gallery", !.active = "nil",
                                        !.sceneState = NoState, !.live = live]
    BY <1>1 DEF back
  <2> HIDE DEF live
  <2>. QED
    BY <2>1 DEF GalleryShape
<1>2. ASSUME gallery.mode = "gallery"
      PROVE  back(gallery) = [mode |-> "gallery", active |-> gallery.active,
                              sceneState |-> gallery.sceneState, live |-> gallery.live,
                              closeRequested |-> TRUE]
  <2>1. back(gallery) = [gallery EXCEPT !.closeRequested = TRUE]
    BY <1>2 DEF back
  <2>. QED
    BY <1>2, <2>1 DEF GalleryShape
<1>. QED
  BY <1>1, <1>2

LEMMA OpenedScene ==
  ASSUME GalleryShape, NEW scene, NEW input
  PROVE  openScene(gallery, scene, input) =
           [mode |-> "scene", active |-> scene, sceneState |-> sceneInit(scene, input),
            live |-> [gallery.live EXCEPT ![scene] = @ + 1], closeRequested |-> FALSE]
<1> DEFINE live == [gallery.live EXCEPT ![scene] = @ + 1]  fresh == sceneInit(scene, input)
<1>1. openScene(gallery, scene, input) =
        [gallery EXCEPT !.mode = "scene", !.active = scene, !.sceneState = fresh,
                        !.live = live, !.closeRequested = FALSE]
  BY DEF openScene
<1> HIDE DEF live, fresh
<1>2. openScene(gallery, scene, input) =
        [mode |-> "scene", active |-> scene, sceneState |-> fresh,
         live |-> live, closeRequested |-> FALSE]
  BY <1>1 DEF GalleryShape
<1>. QED
  BY <1>2 DEF fresh, live

LEMMA UpdatedScene ==
  ASSUME GalleryShape, NEW input
  PROVE  [gallery EXCEPT !.sceneState = sceneUpdate(gallery.active, @, input)] =
           [mode |-> gallery.mode, active |-> gallery.active,
            sceneState |-> sceneUpdate(gallery.active, gallery.sceneState, input),
            live |-> gallery.live, closeRequested |-> gallery.closeRequested]
<1> DEFINE new == sceneUpdate(gallery.active, gallery.sceneState, input)
<1>1. [gallery EXCEPT !.sceneState = sceneUpdate(gallery.active, @, input)] =
        [gallery EXCEPT !.sceneState = new]
  OBVIOUS
<1> HIDE DEF new
<1>2. [gallery EXCEPT !.sceneState = new] =
        [mode |-> gallery.mode, active |-> gallery.active, sceneState |-> new,
         live |-> gallery.live, closeRequested |-> gallery.closeRequested]
  BY DEF GalleryShape
<1>. QED
  BY <1>1, <1>2 DEF new

LEMMA FramesFit ==
  ASSUME SceneInv, NEW screen \in Screens, NEW input \in FrameInputs(screen),
         gallery' = advanceGallery(gallery, input)
  PROVE  SceneInv'
<1> USE DEF SceneInv
<1>1. CASE WantsBack(input)
  <2> DEFINE live == [gallery.live EXCEPT ![gallery.active] = @ - 1]
  <2>1. /\ gallery.mode = "scene" =>
             gallery' = [mode |-> "gallery", active |-> "nil", sceneState |-> NoState,
                         live |-> live, closeRequested |-> gallery.closeRequested]
        /\ gallery.mode = "gallery" =>
             gallery' = [mode |-> "gallery", active |-> gallery.active,
                         sceneState |-> gallery.sceneState, live |-> gallery.live,
                         closeRequested |-> TRUE]
    BY <1>1, FrameCases, LeftGallery
  <2> HIDE DEF live
  <2>. QED
    BY <2>1 DEF GalleryShape, SceneStateFits
<1>2. CASE Opens(input)
  <2> DEFINE scene == hitOf(gallery, input)  fresh == sceneInit(scene, input)
  <2>1. scene \in SixScenes /\ gallery' = openScene(gallery, scene, input)
    BY <1>2, FrameCases
  <2>2. fresh \in SceneStates(scene)
    BY <2>1, FreshStateFits
  <2> HIDE DEF scene
  <2> DEFINE live == [gallery.live EXCEPT ![scene] = @ + 1]
  <2>3. gallery' = [mode |-> "scene", active |-> scene, sceneState |-> fresh,
                    live |-> live, closeRequested |-> FALSE]
    BY <2>1, OpenedScene
  <2> HIDE DEF fresh, live
  <2>. QED
    BY <2>1, <2>2, <2>3 DEF GalleryShape, SceneStateFits
<1>3. CASE ~WantsBack(input) /\ ~Opens(input)
  <2>1. CASE gallery.mode = "scene"
    <3> DEFINE new == sceneUpdate(gallery.active, gallery.sceneState, input)
    <3>1. gallery' = [mode |-> gallery.mode, active |-> gallery.active, sceneState |-> new,
                      live |-> gallery.live, closeRequested |-> gallery.closeRequested]
      BY <1>3, <2>1, FrameCases, UpdatedScene
    <3>2. gallery.active \in SixScenes /\ gallery.sceneState \in SceneStates(gallery.active)
      BY <2>1 DEF GalleryShape, SceneStateFits
    <3>3. new \in SceneStates(gallery.active)
      BY <3>2, UpdatedStateFits
    <3> HIDE DEF new
    <3>. QED
      BY <2>1, <3>1, <3>2, <3>3 DEF GalleryShape, SceneStateFits
  <2>2. CASE gallery.mode # "scene"
    <3>1. gallery' = gallery
      BY <1>3, <2>2, FrameCases
    <3>. QED
      BY <3>1 DEF GalleryShape, SceneStateFits
  <2>. QED
    BY <2>1, <2>2
<1>. QED
  BY <1>1, <1>2, <1>3

\* Of a step of Next, the frame.
LEMMA StepsAreFrames ==
  ASSUME Next
  PROVE  \E screen \in Screens : \E input \in FrameInputs(screen) : Frame(input)
  BY InputsAreFrameInputs DEF Next

\* What a scene is given is what it was made with and has made of it, within
\* its bounds: no frame leaves one scene's state on the screen of another, an
\* eye without a point to look at, or a trail or a log that is too long
\* (open-scene, run-frame and the :init and :update of the scenes).
THEOREM SceneStatesFit == Spec => []SceneStateFits
<1>1. SceneInv /\ [Next]_vars => SceneInv'
  <2>1. ASSUME SceneInv, Next PROVE SceneInv'
    <3>1. PICK screen \in Screens : \E input \in FrameInputs(screen) : Frame(input)
      BY <2>1, StepsAreFrames
    <3>2. PICK input \in FrameInputs(screen) : Frame(input)
      BY <3>1
    <3>. QED
      BY <2>1, <3>2, FramesFit DEF Frame
  <2>2. ASSUME SceneInv, UNCHANGED vars PROVE SceneInv'
    BY <2>2 DEF vars, SceneInv, GalleryShape, SceneStateFits
  <2>. QED
    BY <2>1, <2>2
<1>2. SceneInv => SceneStateFits
  BY DEF SceneInv
<1>. QED
  BY <1>1, <1>2, NothingOpenAtFirst, PTL DEF Spec

-----------------------------------------------------------------------------
(* Fingers that stay                                                       *)
LEMMA DisjointHoldNoPoint ==
  ASSUME NEW p, NEW q, NEW point, Disjoint(p, q),
         p.x \in Int, p.y \in Int, p.width \in Int, p.height \in Int,
         q.x \in Int, q.y \in Int, q.width \in Int, q.height \in Int,
         point[1] \in Int, point[2] \in Int
  PROVE  ~(containsPoint(p, point) /\ containsPoint(q, point))
  BY DEF Disjoint, containsPoint

LEMMA LargeScreens == ASSUME NEW screen \in Screens PROVE LargeEnough(screen)
  BY ScreensAssumption DEF LargeEnough

LEMMA CardsAreInteger ==
  ASSUME NEW screen, LargeEnough(screen), NEW i \in 0..5
  PROVE  /\ Card(screen, 6, i).x \in Int /\ Card(screen, 6, i).y \in Int
         /\ Card(screen, 6, i).width \in Int /\ Card(screen, 6, i).height \in Int
<1> DEFINE n == columnsFor(screen)  w == cardWidth(screen)  h == cardHeight(screen, 6)
           m == margin(screen)  y == cardsY(screen)  g == gap(screen)
           ci == i % n  ri == i \div n
<1>1. /\ n \in {2, 3} /\ w \in Int /\ h \in Int /\ ci \in 0..(n - 1)
      /\ n = 2 => ri \in 0..2
      /\ n = 3 => ri \in 0..1
      /\ Card(screen, 6, i) = [x |-> m + ci * (w + g), y |-> y + ri * (h + g),
                               width |-> w, height |-> h]
  BY CardInItsPlace
<1>2. m \in Int /\ y \in Int /\ g \in Int
  BY SizesAreOrdered DEF cardsY
<1> HIDE DEF n, w, h, m, y, g, ci, ri
<1>3. ci \in Int /\ ri \in Int
  BY <1>1
<1>4. ci * (w + g) \in Int /\ ri * (h + g) \in Int
  BY <1>1, <1>2, <1>3
<1>. QED
  BY <1>1, <1>2, <1>4

\* What opens a scene is not under its Back target.
LEMMA CardsAreNotUnderBack ==
  ASSUME NEW screen \in Screens, NEW point \in Points, NEW i \in 0..5,
         containsPoint(Card(screen, 6, i), point)
  PROVE  ~containsPoint(BackTarget(screen), point)
<1>1. LargeEnough(screen)
  BY LargeScreens
<1>2. Disjoint(Card(screen, 6, i), BackTarget(screen))
  <2>1. CardsAreSound(screen, 6) /\ i \in 0..(6 - 1)
    BY <1>1, SixCardsAreSound
  <2>. QED
    BY <2>1 DEF CardsAreSound
<1> DEFINE card == Card(screen, 6, i)  target == BackTarget(screen)
<1>3. card.x \in Int /\ card.y \in Int /\ card.width \in Int /\ card.height \in Int
  BY <1>1, CardsAreInteger
<1>4. target.x \in Int /\ target.y \in Int /\ target.width \in Int /\ target.height \in Int
  BY <1>1, BackTargetIsAbove
<1>5. point[1] \in Int /\ point[2] \in Int
  BY InputAssumption
<1> HIDE DEF card, target
<1>6. ~(containsPoint(card, point) /\ containsPoint(target, point))
  BY <1>2, <1>3, <1>4, <1>5, DisjointHoldNoPoint DEF card, target
<1>. QED
  BY <1>6 DEF card, target

OpenerInv ==
  gallery.mode = "scene" =>
    /\ opener.screen \in Screens /\ opener.point \in Points
    /\ ~containsPoint(BackTarget(opener.screen), opener.point)

LEMMA OpenersStayClear ==
  ASSUME SceneInv, OpenerInv, NEW screen \in Screens, NEW input \in FrameInputs(screen),
         Frame(input)
  PROVE  OpenerInv'
<1>1. /\ gallery' = advanceGallery(gallery, input)
      /\ opener' = CASE gallery'.mode = "gallery" -> Nobody
                     [] gallery.mode = "gallery" /\ gallery'.mode = "scene" ->
                          [screen |-> input.screen, point |-> input.point]
                     [] OTHER -> opener
  BY DEF Frame
<1>2. GalleryShape /\ GalleryShape'
  BY <1>1, FramesFit DEF SceneInv
<1>3. CASE gallery.mode = "gallery" /\ gallery'.mode = "scene"
  <2>1. opener' = [screen |-> screen, point |-> input.point]
    BY <1>1, <1>3 DEF FrameInputs
  <2>2. Opens(input)
    <3>1. ASSUME WantsBack(input) PROVE gallery'.mode = "gallery"
      BY <1>1, <1>2, <1>3, <3>1, FrameCases, LeftGallery
    <3>. QED
      BY <1>1, <1>2, <1>3, <3>1, FrameCases
  <2>3. input.point \in Points
    BY <2>2 DEF Opens, FrameInputs
  <2>4. \E i \in 0..5 : containsPoint(Card(screen, 6, i), input.point)
    <3>1. hitTest(screen, SceneIds, input.point, "gallery") # "none"
      BY <1>3, <2>2 DEF Opens, hitOf, FrameInputs
    <3>. QED
      BY <3>1, HitIsACard
  <2>5. ~containsPoint(BackTarget(screen), input.point)
    BY <2>3, <2>4, CardsAreNotUnderBack
  <2>6. opener'.screen = screen /\ opener'.point = input.point
    BY <2>1
  <2>. QED
    BY <2>3, <2>5, <2>6 DEF OpenerInv
<1>4. CASE gallery.mode = "scene" /\ gallery'.mode = "scene"
  <2>1. opener' = opener
    BY <1>1, <1>4
  <2>. QED
    BY <1>4, <2>1 DEF OpenerInv
<1>5. CASE gallery'.mode = "gallery"
  BY <1>5 DEF OpenerInv
<1>. QED
  BY <1>2, <1>3, <1>4, <1>5 DEF GalleryShape

LEMMA ClearOpenersStay ==
  ASSUME GalleryShape, OpenerInv
  PROVE  PressedSceneStays
<1> SUFFICES ASSUME gallery.mode = "scene", NEW input \in InputsOf[opener.screen],
                    input.point = opener.point, ~input.back
             PROVE  advanceGallery(gallery, input).mode = "scene"
  BY DEF PressedSceneStays
<1>1. opener.screen \in Screens /\ ~containsPoint(BackTarget(opener.screen), opener.point)
  BY DEF OpenerInv
<1>2. input \in FrameInputs(opener.screen)
  BY <1>1, InputsAreFrameInputs
<1>3. ~WantsBack(input) /\ ~Opens(input)
  BY <1>1, <1>2 DEF WantsBack, Opens, canvasBack, hitOf, hitTest, FrameInputs
<1>4. advanceGallery(gallery, input) =
        [gallery EXCEPT !.sceneState = sceneUpdate(gallery.active, @, input)]
  BY <1>1, <1>2, <1>3, FrameCases
<1>. QED
  BY <1>4, UpdatedScene

\* A press that opens a scene is on a card, and no card reaches the Back target:
\* the finger may stay (the canvas Back target, loop.clj:417-418).
THEOREM PressedScenesStay == Spec => []PressedSceneStays
<1>1. Init => OpenerInv
  BY DEF Init, OpenerInv
<1>2. SceneInv /\ OpenerInv /\ [Next]_vars => (SceneInv /\ OpenerInv)'
  <2>1. ASSUME SceneInv, OpenerInv, Next PROVE (SceneInv /\ OpenerInv)'
    <3>1. PICK screen \in Screens : \E input \in FrameInputs(screen) : Frame(input)
      BY <2>1, StepsAreFrames
    <3>2. PICK input \in FrameInputs(screen) : Frame(input)
      BY <3>1
    <3>3. gallery' = advanceGallery(gallery, input)
      BY <3>2 DEF Frame
    <3>. QED
      BY <2>1, <3>2, <3>3, FramesFit, OpenersStayClear
  <2>2. ASSUME SceneInv, OpenerInv, UNCHANGED vars PROVE (SceneInv /\ OpenerInv)'
    BY <2>2 DEF vars, SceneInv, GalleryShape, SceneStateFits, OpenerInv
  <2>. QED
    BY <2>1, <2>2
<1>3. SceneInv /\ OpenerInv => PressedSceneStays
  BY ClearOpenersStay DEF SceneInv
<1>. QED
  BY <1>1, <1>2, <1>3, NothingOpenAtFirst, PTL DEF Spec

-----------------------------------------------------------------------------
(* The trail                                                               *)

\* Turning a device leaves its shorter side, and with it every size.
SameScale ==
  \A s, t \in Screens : smaller(s[1], s[2]) = smaller(t[1], t[2])

LEMMA OneBackTarget ==
  ASSUME SameScale, NEW s \in Screens, NEW t \in Screens
  PROVE  BackTarget(s) = BackTarget(t)
<1>1. smaller(s[1], s[2]) = smaller(t[1], t[2])
  BY DEF SameScale
<1>. QED
  BY <1>1 DEF BackTarget, margin, bodySize, titleSize

TrailInv ==
  gallery.mode = "scene" /\ gallery.active = "touch-trail" =>
    \A point \in ToSet(gallery.sceneState.points), screen \in Screens :
      ~containsPoint(BackTarget(screen), point)

LEMMA TrailStaysClear ==
  ASSUME SameScale, SceneInv, TrailInv, NEW screen \in Screens,
         NEW input \in FrameInputs(screen), gallery' = advanceGallery(gallery, input)
  PROVE  TrailInv'
<1>1. GalleryShape /\ SceneInv'
  BY FramesFit DEF SceneInv
<1>2. SUFFICES ASSUME gallery'.mode = "scene", gallery'.active = "touch-trail"
               PROVE  \A point \in ToSet(gallery'.sceneState.points), s \in Screens :
                        ~containsPoint(BackTarget(s), point)
  BY DEF TrailInv
<1>3. ~WantsBack(input)
  <2>1. ASSUME WantsBack(input) PROVE gallery'.mode = "gallery"
    BY <1>1, <2>1, FrameCases, LeftGallery DEF GalleryShape
  <2>. QED
    BY <1>2, <2>1
<1>4. CASE Opens(input)
  <2> DEFINE scene == hitOf(gallery, input)  live == [gallery.live EXCEPT ![scene] = @ + 1]
             fresh == sceneInit(scene, input)
  <2>1. gallery' = [mode |-> "scene", active |-> scene, sceneState |-> fresh,
                    live |-> live, closeRequested |-> FALSE]
    BY <1>1, <1>4, FrameCases, OpenedScene
  <2> HIDE DEF scene, live, fresh
  <2>2. scene = "touch-trail" /\ gallery'.sceneState = fresh
    BY <1>2, <2>1
  <2>3. fresh = [points |-> <<>>]
    BY <2>2 DEF sceneInit, fresh
  <2>4. ToSet(gallery'.sceneState.points) = {}
    <3>1. gallery'.sceneState.points = <<>>
      BY <2>2, <2>3
    <3>2. ToSet(<<>>) = {}
      BY DEF ToSet
    <3>. QED
      BY <3>1, <3>2
  <2>. QED
    BY <2>4
<1>5. CASE ~Opens(input)
  <2>1. gallery.mode = "scene"
    BY <1>1, <1>2, <1>3, <1>5, FrameCases DEF GalleryShape
  <2> DEFINE new == sceneUpdate(gallery.active, gallery.sceneState, input)
  <2>2. gallery' = [mode |-> gallery.mode, active |-> gallery.active, sceneState |-> new,
                    live |-> gallery.live, closeRequested |-> gallery.closeRequested]
    BY <1>1, <1>3, <1>5, <2>1, FrameCases, UpdatedScene
  <2> HIDE DEF new
  <2>3. gallery.active = "touch-trail" /\ gallery'.sceneState = new
    BY <1>2, <2>2
  <2>4. new = trailStep(gallery.sceneState, input)
    BY <2>3 DEF sceneUpdate, new
  <2>5. gallery.sceneState \in SceneStates("touch-trail")
    BY <2>1, <2>3 DEF SceneInv, SceneStateFits
  <2>6. /\ new \in SceneStates("touch-trail")
        /\ \A p \in ToSet(new.points) : p \in ToSet(gallery.sceneState.points) \/ p = input.point
    BY <2>4, <2>5, TrailFits
  <2>7. \A p \in ToSet(new.points) : p \in Points
    <3>1. new.points \in Seq(Points)
      BY <2>6, BoundedSequences, InputAssumption DEF SceneStates
    <3>. QED
      BY <3>1 DEF ToSet
  <2>8. input.point \in Points => ~containsPoint(BackTarget(screen), input.point)
    <3>1. hitOf(gallery, input) # "back"
      BY <1>3, <2>1 DEF WantsBack, canvasBack
    <3>2. input.screen = screen
      BY DEF FrameInputs
    <3>3. input.point \in Points => input.point # <<>>
      BY PointsAreNoGap
    <3>. QED
      BY <2>1, <3>1, <3>2, <3>3 DEF hitOf, hitTest
  <2>9. \A s \in Screens : BackTarget(s) = BackTarget(screen)
    BY OneBackTarget
  <2>. QED
    BY <2>1, <2>3, <2>6, <2>7, <2>8, <2>9 DEF TrailInv
<1>. QED
  BY <1>4, <1>5

\* A pointer on the Back target leaves Touch Trail in the very frame, so what is
\* dragged there is not drawn under it.  Screens of one scale: the target is
\* larger where the shorter side is, and a trail is kept as it is.
THEOREM TrailKeepsClear ==
  ASSUME SameScale
  PROVE  Spec => []TrailKeepsClearOfBack
<1>1. Init => TrailInv
  BY DEF Init, TrailInv
<1>2. SceneInv /\ TrailInv /\ [Next]_vars => (SceneInv /\ TrailInv)'
  <2>1. ASSUME SceneInv, TrailInv, Next PROVE (SceneInv /\ TrailInv)'
    <3>1. PICK screen \in Screens : \E input \in FrameInputs(screen) : Frame(input)
      BY <2>1, StepsAreFrames
    <3>2. PICK input \in FrameInputs(screen) : Frame(input)
      BY <3>1
    <3>3. gallery' = advanceGallery(gallery, input)
      BY <3>2 DEF Frame
    <3>. QED
      BY <2>1, <3>3, FramesFit, TrailStaysClear
  <2>2. ASSUME SceneInv, TrailInv, UNCHANGED vars PROVE (SceneInv /\ TrailInv)'
    BY <2>2 DEF vars, SceneInv, GalleryShape, SceneStateFits, TrailInv
  <2>. QED
    BY <2>1, <2>2
<1>3. SceneInv /\ TrailInv => TrailKeepsClearOfBack
  BY DEF SceneInv, GalleryShape, SceneStateFits, TrailInv, TrailKeepsClearOfBack
<1>. QED
  BY <1>1, <1>2, <1>3, NothingOpenAtFirst, PTL DEF Spec

-----------------------------------------------------------------------------
(* Frames of pixels are frames of Gallery                                  *)

\* The fields that tell the scenes' states apart.
FieldsOf(scene) ==
  CASE scene = "following-eyes"      -> {"target", "phase"}
    [] scene = "touch-trail"         -> {"points"}
    [] scene = "flappy-bird"         -> {"game"}
    [] scene = "virtual-controls"    -> {"lastPhase", "lastPosition"}
    [] scene = "touch-diagnostics"   -> {"count", "pointZero", "coordinates", "phase"}
    [] scene = "gesture-diagnostics" -> {"lastCode", "point", "log"}

LEMMA FieldsTellApart ==
  ASSUME NEW s \in SixScenes, NEW t \in SixScenes, FieldsOf(s) = FieldsOf(t)
  PROVE  s = t
<1>1. \A scene \in SixScenes :
        /\ ("target" \in FieldsOf(scene)) = (scene = "following-eyes")
        /\ ("points" \in FieldsOf(scene)) = (scene = "touch-trail")
        /\ ("game" \in FieldsOf(scene)) = (scene = "flappy-bird")
        /\ ("lastPhase" \in FieldsOf(scene)) = (scene = "virtual-controls")
        /\ ("count" \in FieldsOf(scene)) = (scene = "touch-diagnostics")
        /\ ("log" \in FieldsOf(scene)) = (scene = "gesture-diagnostics")
  BY TheScenes DEF FieldsOf
<1>. QED
  BY <1>1, TheScenes

LEMMA FieldsOfStates ==
  ASSUME NEW scene \in SixScenes
  PROVE  /\ \A state \in SceneStates(scene) : DOMAIN state = FieldsOf(scene)
         /\ \A input : DOMAIN sceneInit(scene, input) = FieldsOf(scene)
<1>1. CASE scene = "following-eyes"
  BY <1>1 DEF SceneStates, sceneInit, FieldsOf
<1>2. CASE scene = "touch-trail"
  BY <1>2 DEF SceneStates, sceneInit, FieldsOf
<1>3. CASE scene = "flappy-bird"
  BY <1>3 DEF SceneStates, sceneInit, FieldsOf
<1>4. CASE scene = "virtual-controls"
  BY <1>4 DEF SceneStates, sceneInit, placeholder, FieldsOf
<1>5. CASE scene = "touch-diagnostics"
  BY <1>5 DEF SceneStates, sceneInit, touchView, FieldsOf
<1>6. CASE scene = "gesture-diagnostics"
  BY <1>6 DEF SceneStates, sceneInit, FieldsOf
<1>. QED
  BY <1>1, <1>2, <1>3, <1>4, <1>5, <1>6, TheScenes

LEMMA SceneOfState ==
  ASSUME NEW scene \in SixScenes, NEW state \in SceneStates(scene)
  PROVE  SceneOf(state) = scene
<1> DEFINE dummy == [screen |-> <<1, 1>>, point |-> <<>>, phase |-> "idle", touches |-> 0]
<1>1. state # NoState
  <2>1. "nil" \notin FieldsOf(scene)
    BY TheScenes DEF FieldsOf
  <2>2. DOMAIN NoState = {"nil"}
    BY DEF NoState
  <2>. QED
    BY <2>1, <2>2, FieldsOfStates
<1>2. SceneOf(state) = CHOOSE s \in SixScenes : DOMAIN state = DOMAIN sceneInit(s, dummy)
  BY <1>1 DEF SceneOf, SixScenes
<1> HIDE DEF dummy
<1>3. \A s \in SixScenes : DOMAIN state = DOMAIN sceneInit(s, dummy) <=> s = scene
  BY FieldsOfStates, FieldsTellApart
<1>. QED
  BY <1>2, <1>3

\* The frame of Gallery that a frame of pixels is.
FrameOf(input) ==
  [back |-> input.back,
   hit  |-> IF gallery.mode = "scene"
            THEN IF canvasBack(gallery, input) THEN "back" ELSE controlAction(input)
            ELSE IF Opens(input) THEN hitOf(gallery, input) ELSE "none",
   key  |-> IF input.activate THEN "activate" ELSE IF input.previous THEN "previous" ELSE "none"]

abstractGallery == [gallery EXCEPT !.sceneState = SceneOf(gallery.sceneState)]

AbstractFits ==
  abstractGallery = [mode |-> gallery.mode, active |-> gallery.active,
                     sceneState |-> gallery.active, live |-> gallery.live,
                     closeRequested |-> gallery.closeRequested]

LEMMA AbstractShape == SceneInv => AbstractFits
<1> SUFFICES ASSUME SceneInv
             PROVE  abstractGallery = [mode |-> gallery.mode, active |-> gallery.active,
                                       sceneState |-> gallery.active, live |-> gallery.live,
                                       closeRequested |-> gallery.closeRequested]
  BY DEF AbstractFits
<1>1. SceneOf(gallery.sceneState) = gallery.active
  <2>1. CASE gallery.mode = "scene"
    BY <2>1, SceneOfState DEF SceneInv, GalleryShape, SceneStateFits
  <2>2. CASE gallery.mode # "scene"
    BY <2>2 DEF SceneInv, SceneStateFits, SceneOf
  <2>. QED
    BY <2>1, <2>2
<1> DEFINE scene == SceneOf(gallery.sceneState)
<1>2. abstractGallery = [gallery EXCEPT !.sceneState = scene]
  BY DEF abstractGallery
<1> HIDE DEF scene
<1>3. abstractGallery = [mode |-> gallery.mode, active |-> gallery.active, sceneState |-> scene,
                         live |-> gallery.live, closeRequested |-> gallery.closeRequested]
  BY <1>2 DEF SceneInv, GalleryShape
<1>. QED
  BY <1>1, <1>3 DEF scene

LEMMA FramesOfInputs ==
  ASSUME SceneInv, NEW screen \in Screens, NEW input \in FrameInputs(screen)
  PROVE  FrameOf(input) \in Abstract!Inputs
<1>1. input.back \in BOOLEAN
  BY DEF FrameInputs
<1>2. controlAction(input) \in {"none", "increment", "decrement", "reset"}
  BY HitIsAControl DEF controlAction
<1>3. Opens(input) => hitOf(gallery, input) \in ToSet(SceneIds)
  BY FrameCases DEF SceneInv, SixScenes
<1>. QED
  BY <1>1, <1>2, <1>3 DEF FrameOf, Abstract!Inputs, Abstract!Controls

LEMMA ControlsAreInteger ==
  ASSUME NEW screen, LargeEnough(screen), NEW i \in 1..3
  PROVE  /\ Control(screen, i).x \in Int /\ Control(screen, i).y \in Int
         /\ Control(screen, i).width \in Int /\ Control(screen, i).height \in Int
<1> DEFINE m == margin(screen)  b == bodySize(screen)  l == lineGap(screen)  g == gap(screen)
           w == quot(screen[1] - 2 * m - 2 * g, 3)
<1>1. m \in Int /\ b \in Int /\ l \in Int /\ g \in Int
  BY SizesAreOrdered DEF lineGap, larger
<1>2. screen[1] \in Int /\ screen[2] \in Int
  BY DEF LargeEnough
<1>3. Control(screen, i) = [x |-> m + (i - 1) * (w + g), y |-> screen[2] - (m + 2 * l + b),
                            width |-> w, height |-> b + m]
  BY DEF Control
<1> HIDE DEF m, b, l, g
<1>4. w \in Int
  BY <1>1, <1>2 DEF quot
<1> HIDE DEF w
<1>5. (i - 1) * (w + g) \in Int
  BY <1>1, <1>4
<1>. QED
  BY <1>1, <1>2, <1>3, <1>4, <1>5

\* A press on the Back target of a scene is not one on a control.
LEMMA BackDoesNotCount ==
  ASSUME NEW screen \in Screens, NEW input \in FrameInputs(screen), canvasBack(gallery, input)
  PROVE  controlAction(input) = "none"
<1> SUFFICES ASSUME input.phase = "press", input.point # <<>>, controlAction(input) # "none"
             PROVE  FALSE
  BY DEF controlAction
<1>1. input.screen = screen /\ input.point \in Points
  BY DEF FrameInputs
<1>2. containsPoint(BackTarget(screen), input.point)
  BY <1>1 DEF canvasBack, hitOf, hitTest
<1>3. PICK i \in 1..3 : containsPoint(Control(screen, i), input.point)
  BY <1>1, HitIsAControl DEF controlAction
<1>4. LargeEnough(screen)
  BY LargeScreens
<1> DEFINE control == Control(screen, i)  target == BackTarget(screen)
<1>5. Disjoint(control, target)
  BY <1>4, LargeControlsAreSound DEF ControlsAreSound
<1>6. control.x \in Int /\ control.y \in Int /\ control.width \in Int /\ control.height \in Int
  BY <1>4, ControlsAreInteger
<1>7. target.x \in Int /\ target.y \in Int /\ target.width \in Int /\ target.height \in Int
  BY <1>4, BackTargetIsAbove
<1>8. input.point[1] \in Int /\ input.point[2] \in Int
  BY <1>1, InputAssumption
<1> HIDE DEF control, target
<1>. QED
  BY <1>2, <1>3, <1>5, <1>6, <1>7, <1>8, DisjointHoldNoPoint DEF control, target

LEMMA SameCount ==
  ASSUME SceneInv, NEW screen \in Screens, NEW input \in FrameInputs(screen)
  PROVE  Abstract!counterEvent(abstractGallery.mode, FrameOf(input))
           = counterEvent(modeOf(gallery, input), input)
<1>1. abstractGallery.mode = gallery.mode /\ modeOf(gallery, input) = gallery.mode
  BY AbstractShape DEF modeOf, AbstractFits
<1>2. CASE gallery.mode # "scene"
  BY <1>1, <1>2 DEF counterEvent, Abstract!counterEvent
<1>3. CASE gallery.mode = "scene"
  <2> DEFINE action == controlAction(input)
             key == IF input.activate THEN "activate"
                    ELSE IF input.previous THEN "previous" ELSE "none"
             hit == IF canvasBack(gallery, input) THEN "back" ELSE action
  <2>1. FrameOf(input).hit = hit /\ FrameOf(input).key = key
    BY <1>3 DEF FrameOf
  <2>2. canvasBack(gallery, input) => action = "none"
    BY BackDoesNotCount
  <2>3. Abstract!counterEvent(abstractGallery.mode, FrameOf(input))
          = Abstract!ControlEvent(FrameOf(input))
    BY <1>1, <1>3 DEF Abstract!counterEvent
  <2>4. counterEvent(modeOf(gallery, input), input) =
          CASE action = "increment" -> "counter/inc"
            [] action = "decrement" -> "counter/dec"
            [] action = "reset"     -> "counter/reset"
            [] OTHER -> IF input.activate THEN "counter/inc"
                        ELSE IF input.previous THEN "counter/dec" ELSE "none"
    BY <1>1, <1>3 DEF counterEvent
  <2>5. action \in {"none", "increment", "decrement", "reset"}
    BY HitIsAControl DEF controlAction
  <2>. HIDE DEF action
  <2>. QED
    BY <2>1, <2>2, <2>3, <2>4, <2>5 DEF Abstract!ControlEvent
<1>. QED
  BY <1>2, <1>3

LEMMA SameSteps ==
  ASSUME NEW model, NEW event
  PROVE  Abstract!appStep(model, event) = appStep(model, event)
<1>1. Abstract!EmittedBy = EmittedBy /\ Abstract!LifecycleAfter = LifecycleAfter
  BY Zenon DEF EmittedBy, LifecycleAfter, Abstract!EmittedBy, Abstract!LifecycleAfter
<1>2. ASSUME NEW state, NEW effect
      PROVE  Abstract!RequestEffect(state, effect) = RequestEffect(state, effect)
  <2>1. Abstract!permittedEffect(state.platform, effect.type)
          = permittedEffect(state.platform, effect.type)
    BY Zenon DEF permittedEffect, effectCapability, EffectTypes, capabilities, Capabilities,
                 Abstract!permittedEffect, Abstract!effectCapability, Abstract!EffectTypes,
                 Abstract!capabilities, Abstract!Capabilities
  <2>. QED
    BY <2>1, Zenon DEF RequestEffect, Keep, Set, Effect,
                       Abstract!RequestEffect, Abstract!Keep, Abstract!Set, Abstract!Effect
<1>3. ASSUME NEW state, NEW type
      PROVE  Abstract!CounterStep(state, type) = CounterStep(state, type)
  BY Zenon DEF CounterStep, CounterValue, Keep, Effect, Abstract!CounterStep, Abstract!CounterValue,
               Abstract!Keep, Abstract!Effect
<1>4. ASSUME NEW e PROVE Abstract!Step(model, e) = Step(model, e)
  BY <1>1, <1>2, <1>3, Zenon DEF Step, CounterEvents, Set, Keep, Effect, Abstract!Step,
     Abstract!CounterEvents, Abstract!Set, Abstract!Keep, Abstract!Effect
<1>. QED
  BY <1>4, Zenon DEF appStep, Event, Abstract!appStep, Abstract!Event

LEMMA SameFrames ==
  ASSUME SceneInv, NEW screen \in Screens, NEW input \in FrameInputs(screen), Frame(input)
  PROVE  abstractGallery' = Abstract!advanceGallery(abstractGallery, FrameOf(input))
<1>1. gallery' = advanceGallery(gallery, input)
  BY DEF Frame
<1>2. SceneInv' /\ GalleryShape /\ GalleryShape'
  BY <1>1, FramesFit DEF SceneInv
<1>3. abstractGallery = [mode |-> gallery.mode, active |-> gallery.active,
                         sceneState |-> gallery.active, live |-> gallery.live,
                         closeRequested |-> gallery.closeRequested]
  BY AbstractShape DEF AbstractFits
<1>4. abstractGallery' = [mode |-> gallery'.mode, active |-> gallery'.active,
                          sceneState |-> gallery'.active, live |-> gallery'.live,
                          closeRequested |-> gallery'.closeRequested]
  <2>1. AbstractFits'
    BY <1>2, AbstractShape, PTL
  <2>. QED
    BY <2>1 DEF AbstractFits
<1> DEFINE abstract == FrameOf(input)
<1>5. /\ abstract.back = input.back
      /\ gallery.mode = "scene" => (abstract.hit = "back" <=> canvasBack(gallery, input))
      /\ gallery.mode = "gallery" =>
           abstract.hit = IF Opens(input) THEN hitOf(gallery, input) ELSE "none"
  <2>1. controlAction(input) \in {"none", "increment", "decrement", "reset"}
    BY HitIsAControl DEF controlAction
  <2>. QED
    BY <2>1 DEF FrameOf
<1> HIDE DEF abstract
<1>6. Abstract!WantsBack(abstractGallery, abstract) <=> WantsBack(input)
  BY <1>2, <1>3, <1>5 DEF Abstract!WantsBack, WantsBack, canvasBack, GalleryShape
<1>7. CASE WantsBack(input)
  <2>1. Abstract!advanceGallery(abstractGallery, abstract) = Abstract!back(abstractGallery)
    BY <1>6, <1>7 DEF Abstract!advanceGallery
  <2>2. gallery' = back(gallery)
    BY <1>1, <1>2, <1>7, FrameCases
  <2>3. CASE gallery.mode = "scene"
    <3> DEFINE live == [gallery.live EXCEPT ![gallery.active] = @ - 1]
    <3>1. gallery' = [mode |-> "gallery", active |-> "nil", sceneState |-> NoState,
                      live |-> live, closeRequested |-> gallery.closeRequested]
      BY <1>2, <2>2, <2>3, LeftGallery
    <3>2. Abstract!back(abstractGallery) =
            [abstractGallery EXCEPT !.mode = "gallery", !.active = "nil", !.sceneState = "nil",
                                    !.live[abstractGallery.active] = @ - 1]
      BY <1>3, <2>3 DEF Abstract!back
    <3>3. abstractGallery.active = gallery.active /\ abstractGallery.live = gallery.live
      BY <1>3
    <3>4. Abstract!back(abstractGallery) =
            [abstractGallery EXCEPT !.mode = "gallery", !.active = "nil", !.sceneState = "nil",
                                    !.live = live]
      BY <3>2, <3>3
    <3> HIDE DEF live
    <3>. QED
      BY <1>3, <1>4, <2>1, <3>1, <3>4 DEF abstract
  <2>4. CASE gallery.mode = "gallery"
    <3>1. gallery' = [mode |-> "gallery", active |-> gallery.active,
                      sceneState |-> gallery.sceneState, live |-> gallery.live,
                      closeRequested |-> TRUE]
      BY <1>2, <2>2, <2>4, LeftGallery
    <3>2. Abstract!back(abstractGallery) = [abstractGallery EXCEPT !.closeRequested = TRUE]
      BY <1>3, <2>4 DEF Abstract!back
    <3>. QED
      BY <1>3, <1>4, <2>1, <2>4, <3>1, <3>2 DEF abstract
  <2>. QED
    BY <1>2, <2>3, <2>4 DEF GalleryShape
<1>8. CASE Opens(input)
  <2> DEFINE scene == hitOf(gallery, input)  live == [gallery.live EXCEPT ![scene] = @ + 1]
             fresh == sceneInit(scene, input)
  <2>1. ~WantsBack(input) /\ gallery.mode = "gallery" /\ abstract.hit = scene
    BY <1>5, <1>8 DEF Opens
  <2>2. scene \in SixScenes
    BY <1>2, <1>8, FrameCases
  <2>3. gallery' = [mode |-> "scene", active |-> scene, sceneState |-> fresh,
                    live |-> live, closeRequested |-> FALSE]
    BY <1>1, <1>2, <1>8, FrameCases, OpenedScene
  <2> HIDE DEF scene, fresh
  <2>4. Abstract!advanceGallery(abstractGallery, abstract)
          = Abstract!openScene(abstractGallery, scene)
    BY <1>3, <1>6, <2>1, <2>2 DEF Abstract!advanceGallery, SixScenes
  <2>5. Abstract!openScene(abstractGallery, scene) =
          [abstractGallery EXCEPT !.mode = "scene", !.active = scene, !.sceneState = scene,
                                  !.live = live, !.closeRequested = FALSE]
    <3>1. abstractGallery.live = gallery.live
      BY <1>3
    <3>. QED
      BY <1>3, <3>1 DEF Abstract!openScene
  <2> HIDE DEF live
  <2>. QED
    BY <1>3, <1>4, <2>3, <2>4, <2>5 DEF abstract
<1>9. CASE ~WantsBack(input) /\ ~Opens(input)
  <2>1. Abstract!advanceGallery(abstractGallery, abstract) = abstractGallery
    <3>1. "none" \notin ToSet(SceneIds)
      BY TheScenes DEF SixScenes
    <3>. QED
      BY <1>3, <1>5, <1>6, <1>9, <3>1 DEF Abstract!advanceGallery
  <2>2. /\ gallery'.mode = gallery.mode /\ gallery'.active = gallery.active
        /\ gallery'.live = gallery.live /\ gallery'.closeRequested = gallery.closeRequested
    <3>1. CASE gallery.mode = "scene"
      <4> DEFINE new == sceneUpdate(gallery.active, gallery.sceneState, input)
      <4>1. gallery' = [mode |-> gallery.mode, active |-> gallery.active, sceneState |-> new,
                        live |-> gallery.live, closeRequested |-> gallery.closeRequested]
        BY <1>1, <1>2, <1>9, <3>1, FrameCases, UpdatedScene
      <4> HIDE DEF new
      <4>. QED
        BY <4>1
    <3>2. CASE gallery.mode # "scene"
      BY <1>1, <1>2, <1>9, <3>2, FrameCases
    <3>. QED
      BY <3>1, <3>2
  <2>. QED
    BY <1>3, <1>4, <2>1, <2>2 DEF abstract
<1>. QED
  BY <1>7, <1>8, <1>9

\* Every frame, from what Raylib reports to the scene it is handed to, is one
\* of Gallery: a press opens the scene of one card, or leaves a scene, or
\* counts, and does one of these only (advance-gallery, counter-event).
THEOREM FramesImplementGallery == Spec => ImplementsGallery
<1>1. Init => Abstract!GalleryInit
  <2> SUFFICES ASSUME Init PROVE abstractGallery = Abstract!initialGalleryState
                                 /\ app = Abstract!initialState
    BY DEF Abstract!GalleryInit, abstractGallery
  <2>1. AbstractFits
    BY NothingOpenAtFirst, AbstractShape
  <2>. QED
    BY <2>1 DEF AbstractFits, Init, Abstract!initialGalleryState, initialState,
                Abstract!initialState
<1>2. SceneInv /\ [Next]_vars => SceneInv' /\ [Abstract!GalleryNext]_(Abstract!galleryVars)
  <2>1. ASSUME SceneInv, Next PROVE SceneInv' /\ Abstract!GalleryNext
    <3>1. PICK screen \in Screens : \E input \in FrameInputs(screen) : Frame(input)
      BY <2>1, StepsAreFrames
    <3>2. PICK input \in FrameInputs(screen) : Frame(input)
      BY <3>1
    <3>3. SceneInv'
      BY <2>1, <3>2, FramesFit DEF Frame
    <3>4. abstractGallery' = Abstract!advanceGallery(abstractGallery, FrameOf(input))
      BY <2>1, <3>2, SameFrames
    <3>5. app' = Abstract!appStep(app, Abstract!counterEvent(abstractGallery.mode, FrameOf(input)))
      BY <2>1, <3>2, SameCount, SameSteps DEF Frame
    <3>6. Abstract!Frame(FrameOf(input))
      BY <3>4, <3>5 DEF Abstract!Frame, abstractGallery
    <3>7. FrameOf(input) \in Abstract!Inputs
      BY <2>1, FramesOfInputs
    <3>. QED
      BY <3>3, <3>6, <3>7 DEF Abstract!GalleryNext
  <2>2. ASSUME SceneInv, UNCHANGED vars
        PROVE  SceneInv' /\ UNCHANGED Abstract!galleryVars
    BY <2>2 DEF vars, SceneInv, GalleryShape, SceneStateFits, Abstract!galleryVars
  <2>. QED
    BY <2>1, <2>2
<1>. QED
  BY <1>1, <1>2, NothingOpenAtFirst, PTL DEF Spec, ImplementsGallery, Abstract!GallerySpec

-----------------------------------------------------------------------------
(* Words                                                                   *)

\* By equates.h, w is of type c.
Is(c, w) == matches(w, Mask[MaskOf(c)], Type[c])

-----------------------------------------------------------------------------
(* Words and masks                                                         *)
LEMMA WordsAreLarge ==
  /\ WordSize \in Nat /\ WordSize >= \h1000000 /\ WordSize % \h1000000 = 0
  /\ WholeWord \in Nat /\ WholeWord >= \hFFFFFF
<1>1. WordSize \in Nat \ {0} /\ WordSize % \h1000000 = 0
  BY WordAssumption
<1> HIDE DEF WordSize
<1>. QED
  BY <1>1, SMT DEF WholeWord

\* Masks of the lowest bits leave the remainder.
LEMMA LowMasks ==
  ASSUME NEW w \in Nat
  PROVE  /\ matches(w, \h3, \h1) <=> w % 4 = \h1
         /\ matches(w, \h7, \h0) <=> w % 8 = \h0
         /\ matches(w, \h7, \h1) <=> w % 8 = \h1
         /\ matches(w, \h7, \h2) <=> w % 8 = \h2
         /\ matches(w, \h7, \h3) <=> w % 8 = \h3
         /\ matches(w, \h7, \h5) <=> w % 8 = \h5
         /\ matches(w, \h7, \h6) <=> w % 8 = \h6
         /\ matches(w, \h7, \h7) <=> w % 8 = \h7
         /\ matches(w, \hF, \h0) <=> w % 16 = \h0
         /\ matches(w, \hF, \h2) <=> w % 16 = \h2
         /\ matches(w, \hF, \h3) <=> w % 16 = \h3
         /\ matches(w, \hF, \h6) <=> w % 16 = \h6
         /\ matches(w, \hF, \h8) <=> w % 16 = \h8
         /\ matches(w, \hF, \hA) <=> w % 16 = \hA
         /\ matches(w, \hF, \hB) <=> w % 16 = \hB
         /\ matches(w, \h1F, \h6) <=> w % 32 = \h6
         /\ matches(w, \h1F, \hE) <=> w % 32 = \hE
         /\ matches(w, \h3F, \h6) <=> w % 64 = \h6
         /\ matches(w, \h3F, \hE) <=> w % 64 = \hE
         /\ matches(w, \h3F, \h26) <=> w % 64 = \h26
         /\ matches(w, \h3F, \h2E) <=> w % 64 = \h2E
         /\ matches(w, \hF7, \h6) <=> w % 8 = 6 /\ (w \div 16) % 16 = 0
<1>1. /\ matches(w, \h3, \h1) <=> w % 4 = \h1
  BY WordsAreLarge, SMT DEF matches, Places, bit
<1>2. /\ matches(w, \h7, \h0) <=> w % 8 = \h0
      /\ matches(w, \h7, \h1) <=> w % 8 = \h1
      /\ matches(w, \h7, \h2) <=> w % 8 = \h2
      /\ matches(w, \h7, \h3) <=> w % 8 = \h3
      /\ matches(w, \h7, \h5) <=> w % 8 = \h5
      /\ matches(w, \h7, \h6) <=> w % 8 = \h6
      /\ matches(w, \h7, \h7) <=> w % 8 = \h7
  BY WordsAreLarge, SMT DEF matches, Places, bit
<1>3. /\ matches(w, \hF, \h0) <=> w % 16 = \h0
      /\ matches(w, \hF, \h2) <=> w % 16 = \h2
      /\ matches(w, \hF, \h3) <=> w % 16 = \h3
      /\ matches(w, \hF, \h6) <=> w % 16 = \h6
      /\ matches(w, \hF, \h8) <=> w % 16 = \h8
      /\ matches(w, \hF, \hA) <=> w % 16 = \hA
      /\ matches(w, \hF, \hB) <=> w % 16 = \hB
  BY WordsAreLarge, SMT DEF matches, Places, bit
<1>4. /\ matches(w, \h1F, \h6) <=> w % 32 = \h6
      /\ matches(w, \h1F, \hE) <=> w % 32 = \hE
  BY WordsAreLarge, SMT DEF matches, Places, bit
<1>5. /\ matches(w, \h3F, \h6) <=> w % 64 = \h6
      /\ matches(w, \h3F, \hE) <=> w % 64 = \hE
      /\ matches(w, \h3F, \h26) <=> w % 64 = \h26
      /\ matches(w, \h3F, \h2E) <=> w % 64 = \h2E
  BY WordsAreLarge, SMT DEF matches, Places, bit
<1>7. matches(w, \hF7, \h6) <=> w % 8 = 6 /\ (w \div 16) % 16 = 0
  BY WordsAreLarge, SMT DEF matches, Places, bit
<1>. QED
  BY <1>1, <1>2, <1>3, <1>4, <1>5, <1>7

\* The lower byte, and flags above it.
LowPlaces == {1, 2, 4, 8, \h10, \h20, \h40, \h80}

LEMMA FlagMasks ==
  ASSUME NEW w \in Nat
  PROVE  /\ matches(w, \hFF, \h16) <=> w % 256 = \h16
         /\ matches(w, \hFF, \h1E) <=> w % 256 = \h1E
         /\ matches(w, \hFF, \hBE) <=> w % 256 = \hBE
         /\ matches(w, \hFF, \hDE) <=> w % 256 = \hDE
         /\ matches(w, \h1FF, \h1E) <=> w % 256 = \h1E /\ bit(w, \h100) = 0
         /\ matches(w, \h1FF, \h11E) <=> w % 256 = \h1E /\ bit(w, \h100) = 1
         /\ matches(w, \h1FF, \h1BE) <=> w % 256 = \hBE /\ bit(w, \h100) = 1
         /\ matches(w, \h1FF, \h1DE) <=> w % 256 = \hDE /\ bit(w, \h100) = 1
         /\ matches(w, \h2FF, \h2BE) <=> w % 256 = \hBE /\ bit(w, \h200) = 1
         /\ matches(w, \h2FF, \h2DE) <=> w % 256 = \hDE /\ bit(w, \h200) = 1
         /\ matches(w, \h4FF, \hDE) <=> w % 256 = \hDE /\ bit(w, \h400) = 0
         /\ matches(w, \h4FF, \h4DE) <=> w % 256 = \hDE /\ bit(w, \h400) = 1
         /\ matches(w, \h5FF, \h1DE) <=> w % 256 = \hDE /\ bit(w, \h100) = 1 /\ bit(w, \h400) = 0
         /\ matches(w, \h5FF, \h5DE) <=> w % 256 = \hDE /\ bit(w, \h100) = 1 /\ bit(w, \h400) = 1
         /\ matches(w, \h6FF, \h2DE) <=> w % 256 = \hDE /\ bit(w, \h200) = 1 /\ bit(w, \h400) = 0
         /\ matches(w, \h6FF, \h6DE) <=> w % 256 = \hDE /\ bit(w, \h200) = 1 /\ bit(w, \h400) = 1
         /\ matches(w, \h8FF, \h8BE) <=> w % 256 = \hBE /\ bit(w, \h800) = 1
         /\ matches(w, \h10FF, \h10BE) <=> w % 256 = \hBE /\ bit(w, \h1000) = 1
         /\ matches(w, \h20FF, \h20BE) <=> w % 256 = \hBE /\ bit(w, \h2000) = 1
         /\ matches(w, \h40FF, \h40BE) <=> w % 256 = \hBE /\ bit(w, \h4000) = 1
<1>1. /\ w % 256 = \h16 <=> \A p \in LowPlaces : bit(w, p) = bit(\h16, p)
      /\ w % 256 = \h1E <=> \A p \in LowPlaces : bit(w, p) = bit(\h1E, p)
      /\ w % 256 = \hBE <=> \A p \in LowPlaces : bit(w, p) = bit(\hBE, p)
      /\ w % 256 = \hDE <=> \A p \in LowPlaces : bit(w, p) = bit(\hDE, p)
  BY SMTT(30) DEF bit, LowPlaces
<1>2. \A p \in Places : bit(w, p) \in {0, 1}
  BY SMT DEF bit, Places
<1>3. /\ \A p \in Places : bit(\hFF, p) = IF p \in LowPlaces THEN 1 ELSE 0
      /\ \A p \in Places : bit(\h1FF, p) = IF p \in LowPlaces \union {\h100} THEN 1 ELSE 0
      /\ \A p \in Places : bit(\h2FF, p) = IF p \in LowPlaces \union {\h200} THEN 1 ELSE 0
      /\ \A p \in Places : bit(\h4FF, p) = IF p \in LowPlaces \union {\h400} THEN 1 ELSE 0
      /\ \A p \in Places : bit(\h5FF, p) = IF p \in LowPlaces \union {\h100, \h400} THEN 1 ELSE 0
      /\ \A p \in Places : bit(\h6FF, p) = IF p \in LowPlaces \union {\h200, \h400} THEN 1 ELSE 0
      /\ \A p \in Places : bit(\h8FF, p) = IF p \in LowPlaces \union {\h800} THEN 1 ELSE 0
      /\ \A p \in Places : bit(\h10FF, p) = IF p \in LowPlaces \union {\h1000} THEN 1 ELSE 0
      /\ \A p \in Places : bit(\h20FF, p) = IF p \in LowPlaces \union {\h2000} THEN 1 ELSE 0
      /\ \A p \in Places : bit(\h40FF, p) = IF p \in LowPlaces \union {\h4000} THEN 1 ELSE 0
  BY SMT DEF bit, Places, LowPlaces
<1>4. /\ \A p \in Places : bit(\h11E, p) = IF p \in {\h100} THEN 1 ELSE bit(\h1E, p)
      /\ \A p \in Places : bit(\h1BE, p) = IF p \in {\h100} THEN 1 ELSE bit(\hBE, p)
      /\ \A p \in Places : bit(\h1DE, p) = IF p \in {\h100} THEN 1 ELSE bit(\hDE, p)
      /\ \A p \in Places : bit(\h2BE, p) = IF p \in {\h200} THEN 1 ELSE bit(\hBE, p)
      /\ \A p \in Places : bit(\h2DE, p) = IF p \in {\h200} THEN 1 ELSE bit(\hDE, p)
      /\ \A p \in Places : bit(\h4DE, p) = IF p \in {\h400} THEN 1 ELSE bit(\hDE, p)
      /\ \A p \in Places : bit(\h5DE, p) = IF p \in {\h100, \h400} THEN 1 ELSE bit(\hDE, p)
      /\ \A p \in Places : bit(\h6DE, p) = IF p \in {\h200, \h400} THEN 1 ELSE bit(\hDE, p)
      /\ \A p \in Places : bit(\h8BE, p) = IF p \in {\h800} THEN 1 ELSE bit(\hBE, p)
      /\ \A p \in Places : bit(\h10BE, p) = IF p \in {\h1000} THEN 1 ELSE bit(\hBE, p)
      /\ \A p \in Places : bit(\h20BE, p) = IF p \in {\h2000} THEN 1 ELSE bit(\hBE, p)
      /\ \A p \in Places : bit(\h40BE, p) = IF p \in {\h4000} THEN 1 ELSE bit(\hBE, p)
  BY SMT DEF bit, Places, LowPlaces
<1>5. \A t \in {\h16, \h1E, \hBE, \hDE} : \A p \in Places \ LowPlaces : bit(t, p) = 0
  BY SMT DEF bit, Places, LowPlaces
<1>6. matches(w, \h1FF, \h1E) <=> w % 256 = \h1E /\ bit(w, \h100) = 0
  BY <1>1, <1>2, <1>3, <1>4, <1>5, WordsAreLarge, SMT DEF matches, Places, LowPlaces
<1>7. matches(w, \h1FF, \h11E) <=> w % 256 = \h1E /\ bit(w, \h100) = 1
  BY <1>1, <1>2, <1>3, <1>4, <1>5, WordsAreLarge, SMT DEF matches, Places, LowPlaces
<1>8. matches(w, \h1FF, \h1BE) <=> w % 256 = \hBE /\ bit(w, \h100) = 1
  BY <1>1, <1>2, <1>3, <1>4, <1>5, WordsAreLarge, SMT DEF matches, Places, LowPlaces
<1>9. matches(w, \h1FF, \h1DE) <=> w % 256 = \hDE /\ bit(w, \h100) = 1
  BY <1>1, <1>2, <1>3, <1>4, <1>5, WordsAreLarge, SMT DEF matches, Places, LowPlaces
<1>10. matches(w, \h2FF, \h2BE) <=> w % 256 = \hBE /\ bit(w, \h200) = 1
  BY <1>1, <1>2, <1>3, <1>4, <1>5, WordsAreLarge, SMT DEF matches, Places, LowPlaces
<1>11. matches(w, \h2FF, \h2DE) <=> w % 256 = \hDE /\ bit(w, \h200) = 1
  BY <1>1, <1>2, <1>3, <1>4, <1>5, WordsAreLarge, SMT DEF matches, Places, LowPlaces
<1>12. matches(w, \h4FF, \hDE) <=> w % 256 = \hDE /\ bit(w, \h400) = 0
  BY <1>1, <1>2, <1>3, <1>4, <1>5, WordsAreLarge, SMT DEF matches, Places, LowPlaces
<1>13. matches(w, \h4FF, \h4DE) <=> w % 256 = \hDE /\ bit(w, \h400) = 1
  BY <1>1, <1>2, <1>3, <1>4, <1>5, WordsAreLarge, SMT DEF matches, Places, LowPlaces
<1>14. matches(w, \h5FF, \h1DE) <=> w % 256 = \hDE /\ bit(w, \h100) = 1 /\ bit(w, \h400) = 0
  BY <1>1, <1>2, <1>3, <1>4, <1>5, WordsAreLarge, SMT DEF matches, Places, LowPlaces
<1>15. matches(w, \h5FF, \h5DE) <=> w % 256 = \hDE /\ bit(w, \h100) = 1 /\ bit(w, \h400) = 1
  BY <1>1, <1>2, <1>3, <1>4, <1>5, WordsAreLarge, SMT DEF matches, Places, LowPlaces
<1>16. matches(w, \h6FF, \h2DE) <=> w % 256 = \hDE /\ bit(w, \h200) = 1 /\ bit(w, \h400) = 0
  BY <1>1, <1>2, <1>3, <1>4, <1>5, WordsAreLarge, SMT DEF matches, Places, LowPlaces
<1>17. matches(w, \h6FF, \h6DE) <=> w % 256 = \hDE /\ bit(w, \h200) = 1 /\ bit(w, \h400) = 1
  BY <1>1, <1>2, <1>3, <1>4, <1>5, WordsAreLarge, SMT DEF matches, Places, LowPlaces
<1>18. matches(w, \h8FF, \h8BE) <=> w % 256 = \hBE /\ bit(w, \h800) = 1
  BY <1>1, <1>2, <1>3, <1>4, <1>5, WordsAreLarge, SMT DEF matches, Places, LowPlaces
<1>19. matches(w, \h10FF, \h10BE) <=> w % 256 = \hBE /\ bit(w, \h1000) = 1
  BY <1>1, <1>2, <1>3, <1>4, <1>5, WordsAreLarge, SMT DEF matches, Places, LowPlaces
<1>20. matches(w, \h20FF, \h20BE) <=> w % 256 = \hBE /\ bit(w, \h2000) = 1
  BY <1>1, <1>2, <1>3, <1>4, <1>5, WordsAreLarge, SMT DEF matches, Places, LowPlaces
<1>21. matches(w, \h40FF, \h40BE) <=> w % 256 = \hBE /\ bit(w, \h4000) = 1
  BY <1>1, <1>2, <1>3, <1>4, <1>5, WordsAreLarge, SMT DEF matches, Places, LowPlaces
<1>22. matches(w, \hFF, \h16) <=> w % 256 = \h16
  BY <1>1, <1>2, <1>3, <1>4, <1>5, WordsAreLarge, SMT DEF matches, Places, LowPlaces
<1>23. matches(w, \hFF, \h1E) <=> w % 256 = \h1E
  BY <1>1, <1>2, <1>3, <1>4, <1>5, WordsAreLarge, SMT DEF matches, Places, LowPlaces
<1>24. matches(w, \hFF, \hBE) <=> w % 256 = \hBE
  BY <1>1, <1>2, <1>3, <1>4, <1>5, WordsAreLarge, SMT DEF matches, Places, LowPlaces
<1>25. matches(w, \hFF, \hDE) <=> w % 256 = \hDE
  BY <1>1, <1>2, <1>3, <1>4, <1>5, WordsAreLarge, SMT DEF matches, Places, LowPlaces
<1>. QED
  BY <1>6, <1>7, <1>8, <1>9, <1>10, <1>11, <1>12, <1>13, <1>14, <1>15, <1>16, <1>17, <1>18,
     <1>19, <1>20, <1>21, <1>22, <1>23, <1>24, <1>25

LEMMA WholeMask == ASSUME NEW w, NEW t PROVE matches(w, WholeWord, t) <=> w = t
  BY DEF matches

\* A mask of one bit.
LEMMA OneFlag ==
  ASSUME NEW w \in Nat, NEW p \in Places
  PROVE  matches(w, p, p) <=> bit(w, p) = 1
<1>1. p # WholeWord
  BY WordsAreLarge, SMT DEF Places
<1>2. \A q \in Places : bit(w, q) \in 0..1 /\ bit(p, q) = IF q = p THEN 1 ELSE 0
  BY SMT DEF bit, Places
<1>. QED
  BY <1>1, <1>2, SMT DEF matches

-----------------------------------------------------------------------------
(* equates.h: what it takes to be of a type                                *)
HeaderTypes ==
  {"vector", "mutable_vector", "immutable_vector", "fxvector", "flvector",
   "string", "mutable_string", "immutable_string", "bytevector", "mutable_bytevector",
   "immutable_bytevector", "bignum", "positive_bignum", "negative_bignum",
   "any_stencil_vector", "stencil_vector", "sys_stencil_vector", "other_number", "record",
   "box", "mutable_box", "immutable_box", "code", "system_code", "continuation_code",
   "guardian_code", "code_mutable_closure", "code_arity_in_closure", "code_single_valued",
   "port", "input_port", "output_port", "binary_port", "textual_port", "binary_input_port",
   "binary_output_port", "textual_input_port", "textual_output_port", "exactnum",
   "inexactnum", "ratnum", "phantom", "rtd_counts", "thread", "tlc"}

PointerTypes ==
  {"boolean", "char", "closure", "fixnum", "flonum", "immediate", "pair",
   "symbol", "typed_object"}

LEMMA TypesAndMasks ==
  /\ Mask[MaskOf("vector")] = \h7 /\ Type["vector"] = \h0
  /\ Mask[MaskOf("mutable_vector")] = \hF /\ Type["mutable_vector"] = \h0
  /\ Mask[MaskOf("immutable_vector")] = \hF /\ Type["immutable_vector"] = \h8
  /\ Mask[MaskOf("fxvector")] = \hF /\ Type["fxvector"] = \h3
  /\ Mask[MaskOf("flvector")] = \hF /\ Type["flvector"] = \hB
  /\ Mask[MaskOf("string")] = \h7 /\ Type["string"] = \h2
  /\ Mask[MaskOf("mutable_string")] = \hF /\ Type["mutable_string"] = \h2
  /\ Mask[MaskOf("immutable_string")] = \hF /\ Type["immutable_string"] = \hA
  /\ Mask[MaskOf("bytevector")] = \h3 /\ Type["bytevector"] = \h1
  /\ Mask[MaskOf("mutable_bytevector")] = \h7 /\ Type["mutable_bytevector"] = \h1
  /\ Mask[MaskOf("immutable_bytevector")] = \h7 /\ Type["immutable_bytevector"] = \h5
  /\ Mask[MaskOf("bignum")] = \h1F /\ Type["bignum"] = \h6
  /\ Mask[MaskOf("positive_bignum")] = \h3F /\ Type["positive_bignum"] = \h6
  /\ Mask[MaskOf("negative_bignum")] = \h3F /\ Type["negative_bignum"] = \h26
  /\ Mask[MaskOf("any_stencil_vector")] = \h1F /\ Type["any_stencil_vector"] = \hE
  /\ Mask[MaskOf("stencil_vector")] = \h3F /\ Type["stencil_vector"] = \hE
  /\ Mask[MaskOf("sys_stencil_vector")] = \h3F /\ Type["sys_stencil_vector"] = \h2E
  /\ Mask[MaskOf("other_number")] = \hF /\ Type["other_number"] = \h6
  /\ Mask[MaskOf("record")] = \h7 /\ Type["record"] = \h7
  /\ Mask[MaskOf("box")] = \hFF /\ Type["box"] = \h1E
  /\ Mask[MaskOf("mutable_box")] = \h1FF /\ Type["mutable_box"] = \h1E
  /\ Mask[MaskOf("immutable_box")] = \h1FF /\ Type["immutable_box"] = \h11E
  /\ Mask[MaskOf("code")] = \hFF /\ Type["code"] = \hBE
  /\ Mask[MaskOf("system_code")] = \h1FF /\ Type["system_code"] = \h1BE
  /\ Mask[MaskOf("continuation_code")] = \h2FF /\ Type["continuation_code"] = \h2BE
  /\ Mask[MaskOf("guardian_code")] = \h8FF /\ Type["guardian_code"] = \h8BE
  /\ Mask[MaskOf("code_mutable_closure")] = \h10FF /\ Type["code_mutable_closure"] = \h10BE
  /\ Mask[MaskOf("code_arity_in_closure")] = \h20FF /\ Type["code_arity_in_closure"] = \h20BE
  /\ Mask[MaskOf("code_single_valued")] = \h40FF /\ Type["code_single_valued"] = \h40BE
  /\ Mask[MaskOf("port")] = \hFF /\ Type["port"] = \hDE
  /\ Mask[MaskOf("input_port")] = \h1FF /\ Type["input_port"] = \h1DE
  /\ Mask[MaskOf("output_port")] = \h2FF /\ Type["output_port"] = \h2DE
  /\ Mask[MaskOf("binary_port")] = \h4FF /\ Type["binary_port"] = \h4DE
  /\ Mask[MaskOf("textual_port")] = \h4FF /\ Type["textual_port"] = \hDE
  /\ Mask[MaskOf("binary_input_port")] = \h5FF /\ Type["binary_input_port"] = \h5DE
  /\ Mask[MaskOf("binary_output_port")] = \h6FF /\ Type["binary_output_port"] = \h6DE
  /\ Mask[MaskOf("textual_input_port")] = \h5FF /\ Type["textual_input_port"] = \h1DE
  /\ Mask[MaskOf("textual_output_port")] = \h6FF /\ Type["textual_output_port"] = \h2DE
  /\ Mask[MaskOf("exactnum")] = WholeWord /\ Type["exactnum"] = \h56
  /\ Mask[MaskOf("inexactnum")] = WholeWord /\ Type["inexactnum"] = \h36
  /\ Mask[MaskOf("ratnum")] = WholeWord /\ Type["ratnum"] = \h16
  /\ Mask[MaskOf("phantom")] = WholeWord /\ Type["phantom"] = \h7E
  /\ Mask[MaskOf("rtd_counts")] = WholeWord /\ Type["rtd_counts"] = \h9E
  /\ Mask[MaskOf("thread")] = WholeWord /\ Type["thread"] = \h5E
  /\ Mask[MaskOf("tlc")] = WholeWord /\ Type["tlc"] = \hFE
  /\ Mask[MaskOf("boolean")] = \hF7 /\ Type["boolean"] = \h6
  /\ Mask[MaskOf("char")] = \hFF /\ Type["char"] = \h16
  /\ Mask[MaskOf("closure")] = \h7 /\ Type["closure"] = \h5
  /\ Mask[MaskOf("fixnum")] = \h7 /\ Type["fixnum"] = \h0
  /\ Mask[MaskOf("flonum")] = \h7 /\ Type["flonum"] = \h2
  /\ Mask[MaskOf("immediate")] = \h7 /\ Type["immediate"] = \h6
  /\ Mask[MaskOf("pair")] = \h7 /\ Type["pair"] = \h1
  /\ Mask[MaskOf("symbol")] = \h7 /\ Type["symbol"] = \h3
  /\ Mask[MaskOf("typed_object")] = \h7 /\ Type["typed_object"] = \h7
  BY SMT DEF Mask, Type, MaskOf

LEMMA TypesAreDescribed ==
  Described = IF IsAPointer THEN PointerTypes ELSE HeaderTypes
<1>1. \A c \in DOMAIN Type : MaskOf(c) \in DOMAIN Mask <=> c # "io_port"
  BY SMT DEF Mask, Type, MaskOf
<1>2. DOMAIN Type = HeaderTypes \union PointerTypes \union {"io_port"}
  BY SMT DEF Type, HeaderTypes, PointerTypes
<1>3. \A c \in HeaderTypes : c \notin PointerClasses /\ c # "io_port"
  BY DEF HeaderTypes, PointerClasses, Immediates, Constants, Pointers
<1>4. \A c \in PointerTypes : c \in PointerClasses /\ c # "io_port"
  BY DEF PointerTypes, PointerClasses, Immediates, Constants, Pointers
<1>5. "io_port" \notin PointerClasses
  BY DEF PointerClasses, Immediates, Constants, Pointers
<1>. QED
  BY <1>1, <1>2, <1>3, <1>4, <1>5 DEF Described

LEMMA HeaderTests ==
  ASSUME NEW w \in Nat
  PROVE  /\ Is("vector", w) <=> w % 8 = \h0
         /\ Is("mutable_vector", w) <=> w % 16 = \h0
         /\ Is("immutable_vector", w) <=> w % 16 = \h8
         /\ Is("fxvector", w) <=> w % 16 = \h3
         /\ Is("flvector", w) <=> w % 16 = \hB
         /\ Is("string", w) <=> w % 8 = \h2
         /\ Is("mutable_string", w) <=> w % 16 = \h2
         /\ Is("immutable_string", w) <=> w % 16 = \hA
         /\ Is("bytevector", w) <=> w % 4 = \h1
         /\ Is("mutable_bytevector", w) <=> w % 8 = \h1
         /\ Is("immutable_bytevector", w) <=> w % 8 = \h5
         /\ Is("bignum", w) <=> w % 32 = \h6
         /\ Is("positive_bignum", w) <=> w % 64 = \h6
         /\ Is("negative_bignum", w) <=> w % 64 = \h26
         /\ Is("any_stencil_vector", w) <=> w % 32 = \hE
         /\ Is("stencil_vector", w) <=> w % 64 = \hE
         /\ Is("sys_stencil_vector", w) <=> w % 64 = \h2E
         /\ Is("other_number", w) <=> w % 16 = \h6
         /\ Is("record", w) <=> w % 8 = \h7
         /\ Is("box", w) <=> w % 256 = \h1E
         /\ Is("mutable_box", w) <=> w % 256 = \h1E /\ bit(w, \h100) = 0
         /\ Is("immutable_box", w) <=> w % 256 = \h1E /\ bit(w, \h100) = 1
         /\ Is("code", w) <=> w % 256 = \hBE
         /\ Is("system_code", w) <=> w % 256 = \hBE /\ bit(w, \h100) = 1
         /\ Is("continuation_code", w) <=> w % 256 = \hBE /\ bit(w, \h200) = 1
         /\ Is("guardian_code", w) <=> w % 256 = \hBE /\ bit(w, \h800) = 1
         /\ Is("code_mutable_closure", w) <=> w % 256 = \hBE /\ bit(w, \h1000) = 1
         /\ Is("code_arity_in_closure", w) <=> w % 256 = \hBE /\ bit(w, \h2000) = 1
         /\ Is("code_single_valued", w) <=> w % 256 = \hBE /\ bit(w, \h4000) = 1
         /\ Is("port", w) <=> w % 256 = \hDE
         /\ Is("input_port", w) <=> w % 256 = \hDE /\ bit(w, \h100) = 1
         /\ Is("output_port", w) <=> w % 256 = \hDE /\ bit(w, \h200) = 1
         /\ Is("binary_port", w) <=> w % 256 = \hDE /\ bit(w, \h400) = 1
         /\ Is("textual_port", w) <=> w % 256 = \hDE /\ bit(w, \h400) = 0
         /\ Is("binary_input_port", w) <=> w % 256 = \hDE /\ bit(w, \h100) = 1 /\ bit(w, \h400) = 1
         /\ Is("binary_output_port", w) <=> w % 256 = \hDE /\ bit(w, \h200) = 1 /\ bit(w, \h400) = 1
         /\ Is("textual_input_port", w) <=> w % 256 = \hDE /\ bit(w, \h100) = 1 /\ bit(w, \h400) = 0
         /\ Is("textual_output_port", w) <=>
              w % 256 = \hDE /\ bit(w, \h200) = 1 /\ bit(w, \h400) = 0
         /\ Is("exactnum", w) <=> w = \h56
         /\ Is("inexactnum", w) <=> w = \h36
         /\ Is("ratnum", w) <=> w = \h16
         /\ Is("phantom", w) <=> w = \h7E
         /\ Is("rtd_counts", w) <=> w = \h9E
         /\ Is("thread", w) <=> w = \h5E
         /\ Is("tlc", w) <=> w = \hFE
  BY TypesAndMasks, LowMasks, FlagMasks, WholeMask DEF Is

LEMMA PointerTests ==
  ASSUME NEW w \in Nat
  PROVE  /\ Is("boolean", w) <=> w % 8 = 6 /\ (w \div 16) % 16 = 0
         /\ Is("char", w) <=> w % 256 = \h16
         /\ Is("closure", w) <=> w % 8 = \h5
         /\ Is("fixnum", w) <=> w % 8 = \h0
         /\ Is("flonum", w) <=> w % 8 = \h2
         /\ Is("immediate", w) <=> w % 8 = \h6
         /\ Is("pair", w) <=> w % 8 = \h1
         /\ Is("symbol", w) <=> w % 8 = \h3
         /\ Is("typed_object", w) <=> w % 8 = \h7
  BY TypesAndMasks, LowMasks, FlagMasks, WholeMask DEF Is

\* The types of w are those of S.
OfTypes(w, S) == \A c \in HeaderTypes : Is(c, w) <=> c \in S

LEMMA TypesOfHeaders ==
  ASSUME NEW w \in Nat
  PROVE  /\ w % 16 = 0 => OfTypes(w, {"vector", "mutable_vector"})
         /\ w % 16 = 8 => OfTypes(w, {"vector", "immutable_vector"})
         /\ w % 16 = 3 => OfTypes(w, {"fxvector"})
         /\ w % 16 = 11 => OfTypes(w, {"flvector"})
         /\ w % 16 = 2 => OfTypes(w, {"string", "mutable_string"})
         /\ w % 16 = 10 => OfTypes(w, {"string", "immutable_string"})
         /\ w % 8 = 1 => OfTypes(w, {"bytevector", "mutable_bytevector"})
         /\ w % 8 = 5 => OfTypes(w, {"bytevector", "immutable_bytevector"})
         /\ w % 8 = 7 => OfTypes(w, {"record"})
         /\ w % 64 = 6 => OfTypes(w, {"bignum", "positive_bignum", "other_number"})
         /\ w % 64 = \h26 => OfTypes(w, {"bignum", "negative_bignum", "other_number"})
         /\ w % 64 = 14 => OfTypes(w, {"any_stencil_vector", "stencil_vector"})
         /\ w % 64 = \h2E => OfTypes(w, {"any_stencil_vector", "sys_stencil_vector"})
         /\ w = \h1E => OfTypes(w, {"box", "mutable_box"})
         /\ w = \h11E => OfTypes(w, {"box", "immutable_box"})
         /\ w = \h36 => OfTypes(w, {"inexactnum", "other_number"})
         /\ w = \h56 => OfTypes(w, {"exactnum", "other_number"})
         /\ w = \h16 => OfTypes(w, {"ratnum", "other_number"})
         /\ w = \h5E => OfTypes(w, {"thread"})
         /\ w = \hFE => OfTypes(w, {"tlc"})
         /\ w = \h7E => OfTypes(w, {"phantom"})
         /\ w = \h9E => OfTypes(w, {"rtd_counts"})
<1>1. ASSUME w % 16 = 0 PROVE OfTypes(w, {"vector", "mutable_vector"})
  BY <1>1, HeaderTests, SMT DEF OfTypes, HeaderTypes, bit
<1>2. ASSUME w % 16 = 8 PROVE OfTypes(w, {"vector", "immutable_vector"})
  BY <1>2, HeaderTests, SMT DEF OfTypes, HeaderTypes, bit
<1>3. ASSUME w % 16 = 3 PROVE OfTypes(w, {"fxvector"})
  BY <1>3, HeaderTests, SMT DEF OfTypes, HeaderTypes, bit
<1>4. ASSUME w % 16 = 11 PROVE OfTypes(w, {"flvector"})
  BY <1>4, HeaderTests, SMT DEF OfTypes, HeaderTypes, bit
<1>5. ASSUME w % 16 = 2 PROVE OfTypes(w, {"string", "mutable_string"})
  BY <1>5, HeaderTests, SMT DEF OfTypes, HeaderTypes, bit
<1>6. ASSUME w % 16 = 10 PROVE OfTypes(w, {"string", "immutable_string"})
  BY <1>6, HeaderTests, SMT DEF OfTypes, HeaderTypes, bit
<1>7. ASSUME w % 8 = 1 PROVE OfTypes(w, {"bytevector", "mutable_bytevector"})
  BY <1>7, HeaderTests, SMT DEF OfTypes, HeaderTypes, bit
<1>8. ASSUME w % 8 = 5 PROVE OfTypes(w, {"bytevector", "immutable_bytevector"})
  BY <1>8, HeaderTests, SMT DEF OfTypes, HeaderTypes, bit
<1>9. ASSUME w % 8 = 7 PROVE OfTypes(w, {"record"})
  BY <1>9, HeaderTests, SMT DEF OfTypes, HeaderTypes, bit
<1>10. ASSUME w % 64 = 6 PROVE OfTypes(w, {"bignum", "positive_bignum", "other_number"})
  BY <1>10, HeaderTests, SMT DEF OfTypes, HeaderTypes, bit
<1>11. ASSUME w % 64 = \h26 PROVE OfTypes(w, {"bignum", "negative_bignum", "other_number"})
  BY <1>11, HeaderTests, SMT DEF OfTypes, HeaderTypes, bit
<1>12. ASSUME w % 64 = 14 PROVE OfTypes(w, {"any_stencil_vector", "stencil_vector"})
  BY <1>12, HeaderTests, SMT DEF OfTypes, HeaderTypes, bit
<1>13. ASSUME w % 64 = \h2E PROVE OfTypes(w, {"any_stencil_vector", "sys_stencil_vector"})
  BY <1>13, HeaderTests, SMT DEF OfTypes, HeaderTypes, bit
<1>14. ASSUME w = \h1E PROVE OfTypes(w, {"box", "mutable_box"})
  BY <1>14, HeaderTests, SMT DEF OfTypes, HeaderTypes, bit
<1>15. ASSUME w = \h11E PROVE OfTypes(w, {"box", "immutable_box"})
  BY <1>15, HeaderTests, SMT DEF OfTypes, HeaderTypes, bit
<1>16. ASSUME w = \h36 PROVE OfTypes(w, {"inexactnum", "other_number"})
  BY <1>16, HeaderTests, SMT DEF OfTypes, HeaderTypes, bit
<1>17. ASSUME w = \h56 PROVE OfTypes(w, {"exactnum", "other_number"})
  BY <1>17, HeaderTests, SMT DEF OfTypes, HeaderTypes, bit
<1>18. ASSUME w = \h16 PROVE OfTypes(w, {"ratnum", "other_number"})
  BY <1>18, HeaderTests, SMT DEF OfTypes, HeaderTypes, bit
<1>19. ASSUME w = \h5E PROVE OfTypes(w, {"thread"})
  BY <1>19, HeaderTests, SMT DEF OfTypes, HeaderTypes, bit
<1>20. ASSUME w = \hFE PROVE OfTypes(w, {"tlc"})
  BY <1>20, HeaderTests, SMT DEF OfTypes, HeaderTypes, bit
<1>21. ASSUME w = \h7E PROVE OfTypes(w, {"phantom"})
  BY <1>21, HeaderTests, SMT DEF OfTypes, HeaderTypes, bit
<1>22. ASSUME w = \h9E PROVE OfTypes(w, {"rtd_counts"})
  BY <1>22, HeaderTests, SMT DEF OfTypes, HeaderTypes, bit
<1>. QED
  BY <1>1, <1>2, <1>3, <1>4, <1>5, <1>6, <1>7, <1>8, <1>9, <1>10, <1>11, <1>12, <1>13, <1>14,
     <1>15, <1>16, <1>17, <1>18, <1>19, <1>20, <1>21, <1>22

-----------------------------------------------------------------------------
(* Flags, joined and shifted                                               *)
FieldPlaces ==
  {1, 2, 4, 8, \h10, \h20, \h40, \h80, \h100, \h200, \h400, \h800, \h1000, \h2000, \h4000, \h8000}

\* Four bits below a number.
Extends(n, a, b, c, d, m) == n = a + 2 * b + 4 * c + 8 * d + \h10 * m

LEMMA FourBits ==
  ASSUME NEW a \in 0..1, NEW b \in 0..1, NEW c \in 0..1, NEW d \in 0..1, NEW m \in Nat,
         NEW n, Extends(n, a, b, c, d, m)
  PROVE  /\ n \in Nat /\ n \div \h10 = m
         /\ bit(n, 1) = a /\ bit(n, 2) = b /\ bit(n, 4) = c /\ bit(n, 8) = d
  BY SMT DEF bit, Extends

LEMMA BitsAbove ==
  ASSUME NEW v \in Nat, NEW m, m = v \div \h10
  PROVE  /\ bit(v, \h10) = bit(m, 1) /\ bit(v, \h20) = bit(m, 2)
         /\ bit(v, \h40) = bit(m, 4) /\ bit(v, \h80) = bit(m, 8)
         /\ bit(v, \h100) = bit(m, \h10) /\ bit(v, \h200) = bit(m, \h20)
         /\ bit(v, \h400) = bit(m, \h40) /\ bit(v, \h800) = bit(m, \h80)
         /\ bit(v, \h1000) = bit(m, \h100) /\ bit(v, \h2000) = bit(m, \h200)
         /\ bit(v, \h4000) = bit(m, \h400) /\ bit(v, \h8000) = bit(m, \h800)
<1>1. m \in Nat /\ \A p \in FieldPlaces : v \div (\h10 * p) = m \div p
  BY SMT DEF FieldPlaces
<1>. QED
  BY <1>1, SMT DEF bit, FieldPlaces

LEMMA SixteenBits ==
  ASSUME NEW b, \A p \in FieldPlaces : b[p] \in 0..1,
         NEW n, NEW n1 \in Nat, NEW n2 \in Nat, NEW n3 \in Nat,
         Extends(n, b[1], b[2], b[4], b[8], n1),
         Extends(n1, b[\h10], b[\h20], b[\h40], b[\h80], n2),
         Extends(n2, b[\h100], b[\h200], b[\h400], b[\h800], n3),
         Extends(n3, b[\h1000], b[\h2000], b[\h4000], b[\h8000], 0)
  PROVE  n \in Nat /\ \A p \in FieldPlaces : bit(n, p) = b[p]
<1>0. /\ b[1] \in 0..1 /\ b[2] \in 0..1 /\ b[4] \in 0..1 /\ b[8] \in 0..1
      /\ b[\h10] \in 0..1 /\ b[\h20] \in 0..1 /\ b[\h40] \in 0..1 /\ b[\h80] \in 0..1
      /\ b[\h100] \in 0..1 /\ b[\h200] \in 0..1 /\ b[\h400] \in 0..1 /\ b[\h800] \in 0..1
      /\ b[\h1000] \in 0..1 /\ b[\h2000] \in 0..1 /\ b[\h4000] \in 0..1 /\ b[\h8000] \in 0..1
  BY SMT DEF FieldPlaces
<1>1. /\ n \in Nat /\ n \div \h10 = n1
      /\ bit(n, 1) = b[1] /\ bit(n, 2) = b[2] /\ bit(n, 4) = b[4] /\ bit(n, 8) = b[8]
  BY <1>0, FourBits, SMT
<1>2. /\ n1 \div \h10 = n2
      /\ bit(n1, 1) = b[\h10] /\ bit(n1, 2) = b[\h20] /\ bit(n1, 4) = b[\h40]
      /\ bit(n1, 8) = b[\h80]
  BY <1>0, FourBits, SMT
<1>3. /\ n2 \div \h10 = n3
      /\ bit(n2, 1) = b[\h100] /\ bit(n2, 2) = b[\h200] /\ bit(n2, 4) = b[\h400]
      /\ bit(n2, 8) = b[\h800]
  BY <1>0, FourBits, SMT
<1>4. /\ bit(n3, 1) = b[\h1000] /\ bit(n3, 2) = b[\h2000] /\ bit(n3, 4) = b[\h4000]
      /\ bit(n3, 8) = b[\h8000]
  <2>1. 0 \in Nat
    OBVIOUS
  <2>. QED
    BY <1>0, <2>1, FourBits, SMT
<1>5. /\ bit(n, \h10) = bit(n1, 1) /\ bit(n, \h20) = bit(n1, 2)
      /\ bit(n, \h40) = bit(n1, 4) /\ bit(n, \h80) = bit(n1, 8)
      /\ bit(n, \h100) = bit(n1, \h10) /\ bit(n, \h200) = bit(n1, \h20)
      /\ bit(n, \h400) = bit(n1, \h40) /\ bit(n, \h800) = bit(n1, \h80)
      /\ bit(n, \h1000) = bit(n1, \h100) /\ bit(n, \h2000) = bit(n1, \h200)
      /\ bit(n, \h4000) = bit(n1, \h400) /\ bit(n, \h8000) = bit(n1, \h800)
  BY <1>1, BitsAbove, SMT
<1>6. /\ bit(n1, \h10) = bit(n2, 1) /\ bit(n1, \h20) = bit(n2, 2)
      /\ bit(n1, \h40) = bit(n2, 4) /\ bit(n1, \h80) = bit(n2, 8)
      /\ bit(n1, \h100) = bit(n2, \h10) /\ bit(n1, \h200) = bit(n2, \h20)
      /\ bit(n1, \h400) = bit(n2, \h40) /\ bit(n1, \h800) = bit(n2, \h80)
  BY <1>2, BitsAbove, SMT
<1>7. /\ bit(n2, \h10) = bit(n3, 1) /\ bit(n2, \h20) = bit(n3, 2)
      /\ bit(n2, \h40) = bit(n3, 4) /\ bit(n2, \h80) = bit(n3, 8)
  BY <1>3, BitsAbove, SMT
<1>8. ASSUME NEW p \in FieldPlaces PROVE bit(n, p) = b[p]
  BY <1>1, <1>2, <1>3, <1>4, <1>5, <1>6, <1>7, SMT DEF FieldPlaces
<1>. QED
  BY <1>1, <1>8

\* Flags that are joined are the bits of what they are joined to.
LEMMA BitsOfJoined ==
  ASSUME NEW flags, NEW table
  PROVE  /\ joined(flags, table) \in Nat
         /\ \A p \in FieldPlaces :
              bit(joined(flags, table), p) = IF \E f \in flags : table[f] = p THEN 1 ELSE 0
<1> DEFINE b  == [p \in FieldPlaces |-> IF \E f \in flags : table[f] = p THEN 1 ELSE 0]
           n3 == b[\h1000] + 2 * b[\h2000] + 4 * b[\h4000] + 8 * b[\h8000]
           n2 == b[\h100] + 2 * b[\h200] + 4 * b[\h400] + 8 * b[\h800] + \h10 * n3
           n1 == b[\h10] + 2 * b[\h20] + 4 * b[\h40] + 8 * b[\h80] + \h10 * n2
           n  == b[1] + 2 * b[2] + 4 * b[4] + 8 * b[8] + \h10 * n1
<1>1. joined(flags, table) = n
  BY SMT DEF joined, FieldPlaces
<1>2. \A p \in FieldPlaces : b[p] \in 0..1
  OBVIOUS
<1>3. \A p \in FieldPlaces : b[p] = IF \E f \in flags : table[f] = p THEN 1 ELSE 0
  OBVIOUS
<1> HIDE DEF b
<1>4. n3 \in Nat
  BY <1>2, SMT DEF FieldPlaces
<1>5. n2 \in Nat
  <2> HIDE DEF n3
  <2>. QED
    BY <1>2, <1>4, SMT DEF FieldPlaces
<1>6. n1 \in Nat
  <2> HIDE DEF n2
  <2>. QED
    BY <1>2, <1>5, SMT DEF FieldPlaces
<1>7. Extends(n3, b[\h1000], b[\h2000], b[\h4000], b[\h8000], 0)
  BY <1>4, SMT DEF Extends
<1>8. /\ Extends(n, b[1], b[2], b[4], b[8], n1)
      /\ Extends(n1, b[\h10], b[\h20], b[\h40], b[\h80], n2)
      /\ Extends(n2, b[\h100], b[\h200], b[\h400], b[\h800], n3)
  BY DEF Extends
<1> HIDE DEF n, n1, n2, n3
<1>9. n \in Nat /\ \A p \in FieldPlaces : bit(n, p) = b[p]
  BY <1>2, <1>4, <1>5, <1>6, <1>7, <1>8, SixteenBits, SMTT(30)
<1>. QED
  BY <1>1, <1>3, <1>9

\* What is above the lower byte.
Byte == 256

LEMMA Shifted ==
  ASSUME NEW n \in Nat, NEW low \in 0..(Byte - 1), NEW w, w = low + Byte * n
  PROVE  /\ w \in Nat /\ w % Byte = low
         /\ \A p \in FieldPlaces : bit(w, Byte * p) = bit(n, p)
<1>1. w \in Nat /\ w % 256 = low /\ w \div 256 = n
  BY SMT DEF Byte
<1>2. ASSUME NEW p \in FieldPlaces PROVE w \div (256 * p) = (w \div 256) \div p
  BY <1>1, SMT DEF FieldPlaces
<1>. QED
  BY <1>1, <1>2, SMT DEF bit, Byte

\* Each flag of a code object and of a port has a bit of its own in the header,
\* and the masks of equates.h for ports are at those bits.
LEMMA FlagsOfCode ==
  ASSUME NEW flags \in SUBSET DOMAIN CodeFlags, NEW w,
         w = Type["code"] + 2^code_flags_offset * joined(flags, CodeFlags)
  PROVE  /\ w \in Nat /\ w % 256 = \hBE
         /\ \A f \in DOMAIN CodeFlags : bit(w, Byte * CodeFlags[f]) = 1 <=> f \in flags
<1> DEFINE n == joined(flags, CodeFlags)
<1>1. /\ n \in Nat
      /\ \A p \in FieldPlaces : bit(n, p) = IF \E f \in flags : CodeFlags[f] = p THEN 1 ELSE 0
  BY BitsOfJoined
<1>2. w = \hBE + 256 * n
  BY TypesAndMasks, SMT DEF code_flags_offset
<1> HIDE DEF n
<1>3. w \in Nat /\ w % 256 = \hBE /\ \A p \in FieldPlaces : bit(w, Byte * p) = bit(n, p)
  <2> DEFINE low == \hBE
  <2>1. low \in 0..(Byte - 1) /\ w = low + Byte * n
    BY <1>2, SMT DEF Byte
  <2> HIDE DEF low
  <2>2. w \in Nat /\ w % Byte = low /\ \A p \in FieldPlaces : bit(w, Byte * p) = bit(n, p)
    BY <1>1, <2>1, Shifted
  <2>. QED
    BY <2>2, SMT DEF low, Byte
<1>4. \A f \in DOMAIN CodeFlags : CodeFlags[f] \in FieldPlaces
  BY SMT DEF CodeFlags, FieldPlaces
<1>5. \A f, g \in DOMAIN CodeFlags : CodeFlags[f] = CodeFlags[g] => f = g
  BY SMT DEF CodeFlags
<1>. QED
  BY <1>1, <1>3, <1>4, <1>5, SMT

LEMMA FlagsOfPorts ==
  ASSUME NEW flags \in SUBSET DOMAIN PortFlags, NEW w,
         w = Type["port"] + 2^port_flags_offset * joined(flags, port_flag)
  PROVE  /\ w \in Nat /\ w % 256 = \hDE
         /\ \A f \in DOMAIN PortFlags : bit(w, PortFlags[f]) = 1 <=> f \in flags
<1> DEFINE n == joined(flags, port_flag)
<1>1. /\ n \in Nat
      /\ \A p \in FieldPlaces : bit(n, p) = IF \E f \in flags : port_flag[f] = p THEN 1 ELSE 0
  BY BitsOfJoined
<1>2. w = \hDE + 256 * n
  BY TypesAndMasks, SMT DEF port_flags_offset
<1> HIDE DEF n
<1>3. w \in Nat /\ w % 256 = \hDE /\ \A p \in FieldPlaces : bit(w, Byte * p) = bit(n, p)
  <2> DEFINE low == \hDE
  <2>1. low \in 0..(Byte - 1) /\ w = low + Byte * n
    BY <1>2, SMT DEF Byte
  <2> HIDE DEF low
  <2>2. w \in Nat /\ w % Byte = low /\ \A p \in FieldPlaces : bit(w, Byte * p) = bit(n, p)
    BY <1>1, <2>1, Shifted
  <2>. QED
    BY <2>2, SMT DEF low, Byte
<1>4. \A f \in DOMAIN PortFlags : port_flag[f] \in FieldPlaces /\ PortFlags[f] = Byte * port_flag[f]
  BY SMT DEF Byte, PortFlags, port_flag, FieldPlaces
<1>5. \A f, g \in DOMAIN PortFlags : port_flag[f] = port_flag[g] => f = g
  BY SMT DEF port_flag, PortFlags
<1>. QED
  BY <1>1, <1>3, <1>4, <1>5, SMT

LEMMA TypesOfCode ==
  ASSUME NEW flags \in SUBSET DOMAIN CodeFlags, NEW w,
         w = Type["code"] + 2^code_flags_offset * joined(flags, CodeFlags)
  PROVE  w \in Nat /\ OfTypes(w, {"code"} \cup {CodeClass[f] : f \in flags \cap DOMAIN CodeClass})
<1>1. /\ w \in Nat /\ w % 256 = \hBE
      /\ \A f \in DOMAIN CodeFlags : bit(w, Byte * CodeFlags[f]) = 1 <=> f \in flags
  BY FlagsOfCode
<1>2. /\ bit(w, \h100) = 1 <=> "system" \in flags
      /\ bit(w, \h200) = 1 <=> "continuation" \in flags
      /\ bit(w, \h800) = 1 <=> "guardian" \in flags
      /\ bit(w, \h1000) = 1 <=> "mutable_closure" \in flags
      /\ bit(w, \h2000) = 1 <=> "arity_in_closure" \in flags
      /\ bit(w, \h4000) = 1 <=> "single_valued" \in flags
  BY <1>1, SMT DEF CodeFlags, Byte
<1> DEFINE S == {"code"} \cup {CodeClass[f] : f \in flags \cap DOMAIN CodeClass}
<1>3. /\ "system_code" \in S <=> "system" \in flags
      /\ "continuation_code" \in S <=> "continuation" \in flags
      /\ "guardian_code" \in S <=> "guardian" \in flags
      /\ "code_mutable_closure" \in S <=> "mutable_closure" \in flags
      /\ "code_arity_in_closure" \in S <=> "arity_in_closure" \in flags
      /\ "code_single_valued" \in S <=> "single_valued" \in flags
      /\ "code" \in S
  BY SMT DEF CodeClass
<1>4. S \subseteq {"system_code", "continuation_code", "guardian_code", "code_mutable_closure",
                   "code_arity_in_closure", "code_single_valued", "code"}
  BY SMT DEF CodeClass
<1> HIDE DEF S
<1>5. OfTypes(w, S)
  <2>1. /\ Is("code", w)
        /\ Is("system_code", w) <=> "system_code" \in S
        /\ Is("continuation_code", w) <=> "continuation_code" \in S
        /\ Is("guardian_code", w) <=> "guardian_code" \in S
        /\ Is("code_mutable_closure", w) <=> "code_mutable_closure" \in S
        /\ Is("code_arity_in_closure", w) <=> "code_arity_in_closure" \in S
        /\ Is("code_single_valued", w) <=> "code_single_valued" \in S
    BY <1>1, <1>2, <1>3, HeaderTests
  <2>2. \A c \in HeaderTypes \ {"system_code", "continuation_code", "guardian_code",
           "code_mutable_closure", "code_arity_in_closure", "code_single_valued", "code"} :
           ~ Is(c, w)
    BY <1>1, HeaderTests, SMT DEF HeaderTypes
  <2>. QED
    BY <1>3, <1>4, <2>1, <2>2 DEF OfTypes
<1>. QED
  BY <1>1, <1>5 DEF S

LEMMA TypesOfPorts ==
  ASSUME NEW flags \in SUBSET DOMAIN PortFlags, NEW w,
         w = Type["port"] + 2^port_flags_offset * joined(flags, port_flag)
  PROVE  w \in Nat /\ OfTypes(w, PortClasses(flags))
<1>1. /\ w \in Nat /\ w % 256 = \hDE
      /\ \A f \in DOMAIN PortFlags : bit(w, PortFlags[f]) = 1 <=> f \in flags
  BY FlagsOfPorts
<1>2. /\ bit(w, \h100) = 1 <=> "input" \in flags
      /\ bit(w, \h200) = 1 <=> "output" \in flags
      /\ bit(w, \h400) = 1 <=> "binary" \in flags
      /\ bit(w, \h400) = 0 <=> "binary" \notin flags
  <2>1. bit(w, \h400) \in 0..1
    BY <1>1, SMT DEF bit
  <2>. QED
    BY <1>1, <2>1, SMT DEF PortFlags
<1> DEFINE S == PortClasses(flags)
<1>3. /\ "port" \in S
      /\ "input_port" \in S <=> "input" \in flags
      /\ "output_port" \in S <=> "output" \in flags
      /\ "binary_port" \in S <=> "binary" \in flags
      /\ "textual_port" \in S <=> "binary" \notin flags
      /\ "binary_input_port" \in S <=> "binary" \in flags /\ "input" \in flags
      /\ "binary_output_port" \in S <=> "binary" \in flags /\ "output" \in flags
      /\ "textual_input_port" \in S <=> "binary" \notin flags /\ "input" \in flags
      /\ "textual_output_port" \in S <=> "binary" \notin flags /\ "output" \in flags
  BY SMT DEF PortClasses, PortIs
<1>4. S \subseteq {"port", "input_port", "output_port", "binary_port", "textual_port",
                   "binary_input_port", "binary_output_port", "textual_input_port",
                   "textual_output_port"}
  BY SMT DEF PortClasses, PortIs
<1> HIDE DEF S
<1>5. OfTypes(w, S)
  <2>1. /\ Is("port", w)
        /\ Is("input_port", w) <=> "input_port" \in S
        /\ Is("output_port", w) <=> "output_port" \in S
        /\ Is("binary_port", w) <=> "binary_port" \in S
        /\ Is("textual_port", w) <=> "textual_port" \in S
        /\ Is("binary_input_port", w) <=> "binary_input_port" \in S
        /\ Is("binary_output_port", w) <=> "binary_output_port" \in S
        /\ Is("textual_input_port", w) <=> "textual_input_port" \in S
        /\ Is("textual_output_port", w) <=> "textual_output_port" \in S
    BY <1>1, <1>2, <1>3, HeaderTests
  <2>2. \A c \in HeaderTypes \ {"port", "input_port", "output_port", "binary_port", "textual_port",
           "binary_input_port", "binary_output_port", "textual_input_port",
           "textual_output_port"} : ~ Is(c, w)
    BY <1>1, HeaderTests, SMT DEF HeaderTypes
  <2>. QED
    BY <1>3, <1>4, <2>1, <2>2 DEF OfTypes
<1>. QED
  BY <1>1, <1>5 DEF S

\* The types of a pointer or an immediate w are those of S.
OfPointerTypes(w, S) == \A c \in PointerTypes : Is(c, w) <=> c \in S

LEMMA TypesOfPointers ==
  ASSUME NEW w \in Nat
  PROVE  /\ w % 8 = 0 => OfPointerTypes(w, {"fixnum"})
         /\ w % 8 = 1 => OfPointerTypes(w, {"pair"})
         /\ w % 8 = 2 => OfPointerTypes(w, {"flonum"})
         /\ w % 8 = 3 => OfPointerTypes(w, {"symbol"})
         /\ w % 8 = 5 => OfPointerTypes(w, {"closure"})
         /\ w % 8 = 7 => OfPointerTypes(w, {"typed_object"})
         /\ w % 256 = \h16 => OfPointerTypes(w, {"char", "immediate"})
         /\ w \in {Sfalse, Strue} => OfPointerTypes(w, {"boolean", "immediate"})
         /\ w \in {Snil, Seof_object, Sbwp_object, Svoid} => OfPointerTypes(w, {"immediate"})
<1>1. ASSUME w % 8 = 0 PROVE OfPointerTypes(w, {"fixnum"})
  BY <1>1, PointerTests, SMT DEF OfPointerTypes, PointerTypes
<1>2. ASSUME w % 8 = 1 PROVE OfPointerTypes(w, {"pair"})
  BY <1>2, PointerTests, SMT DEF OfPointerTypes, PointerTypes
<1>3. ASSUME w % 8 = 2 PROVE OfPointerTypes(w, {"flonum"})
  BY <1>3, PointerTests, SMT DEF OfPointerTypes, PointerTypes
<1>4. ASSUME w % 8 = 3 PROVE OfPointerTypes(w, {"symbol"})
  BY <1>4, PointerTests, SMT DEF OfPointerTypes, PointerTypes
<1>5. ASSUME w % 8 = 5 PROVE OfPointerTypes(w, {"closure"})
  BY <1>5, PointerTests, SMT DEF OfPointerTypes, PointerTypes
<1>6. ASSUME w % 8 = 7 PROVE OfPointerTypes(w, {"typed_object"})
  BY <1>6, PointerTests, SMT DEF OfPointerTypes, PointerTypes
<1>7. ASSUME w % 256 = \h16 PROVE OfPointerTypes(w, {"char", "immediate"})
  BY <1>7, PointerTests, SMT DEF OfPointerTypes, PointerTypes
<1>8. ASSUME w \in {Sfalse, Strue} PROVE OfPointerTypes(w, {"boolean", "immediate"})
  BY <1>8, PointerTests, SMT DEF OfPointerTypes, PointerTypes, Sfalse, Strue
<1>9. ASSUME w \in {Snil, Seof_object, Sbwp_object, Svoid} PROVE OfPointerTypes(w, {"immediate"})
  BY <1>9, PointerTests, SMT DEF OfPointerTypes, PointerTypes, Snil, Seof_object, Sbwp_object, Svoid
<1>. QED
  BY <1>1, <1>2, <1>3, <1>4, <1>5, <1>6, <1>7, <1>8, <1>9

-----------------------------------------------------------------------------
(* scheme.h: where its masks and types repeat those of equates.h           *)
Constant == [nil |-> Snil, eof |-> Seof_object, bwp |-> Sbwp_object]

LEMMA PredicatesRepeatTypes ==
  ASSUME NEW w \in Nat
  PROVE  /\ DOMAIN HeaderPredicates \subseteq HeaderTypes
         /\ \A c \in DOMAIN HeaderPredicates : Holds(HeaderPredicates[c], w) <=> Is(c, w)
         /\ \A c \in DOMAIN PointerPredicates \ DOMAIN Constant :
              c \in PointerTypes /\ (Holds(PointerPredicates[c], w) <=> Is(c, w))
         /\ \A c \in DOMAIN Constant :
              Holds(PointerPredicates[c], w) <=> w = Constant[c]
<1>1. DOMAIN HeaderPredicates \subseteq HeaderTypes
  BY SMT DEF HeaderPredicates, HeaderTypes
<1>2. \A c \in DOMAIN HeaderPredicates :
        HeaderPredicates[c][1] = Mask[MaskOf(c)] /\ HeaderPredicates[c][2] = Type[c]
  BY TypesAndMasks, SMT DEF HeaderPredicates
<1>3. \A c \in DOMAIN PointerPredicates \ DOMAIN Constant :
        /\ c \in PointerTypes
        /\ PointerPredicates[c][1] = Mask[MaskOf(c)] /\ PointerPredicates[c][2] = Type[c]
  BY TypesAndMasks, SMT DEF PointerPredicates, PointerTypes, Constant
<1>4. \A c \in DOMAIN Constant :
        PointerPredicates[c][1] = WholeWord /\ PointerPredicates[c][2] = Constant[c]
  BY SMT DEF PointerPredicates, Constant, Snil, Seof_object, Sbwp_object
<1>. QED
  BY <1>1, <1>2, <1>3, <1>4, WholeMask DEF Holds, Is

\* What it takes to be classified, for a header and for a pointer.
LEMMA HeadersClassified ==
  ASSUME word \in Nat, NEW S, OfTypes(word, S), ~ IsAPointer,
         \A c \in HeaderTypes : c \in S <=> c \in ClassesOf(made.class, made.holds)
  PROVE  WordsAreClassified
<1>1. Described = HeaderTypes
  BY TypesAreDescribed
<1>2. EachWordIsItsClass
  BY <1>1 DEF EachWordIsItsClass, OfTypes, Is
<1>3. PredicatesAgree
  BY PredicatesRepeatTypes DEF PredicatesAgree, OfTypes
<1>. QED
  BY <1>2, <1>3 DEF WordsAreClassified

LEMMA PointersClassified ==
  ASSUME word \in Nat, NEW S, OfPointerTypes(word, S), IsAPointer,
         \A c \in PointerTypes : c \in S <=> c \in ClassesOf(made.class, made.holds),
         \A c \in DOMAIN Constant : word = Constant[c] <=> c \in ClassesOf(made.class, made.holds)
  PROVE  WordsAreClassified
<1>1. Described = PointerTypes
  BY TypesAreDescribed
<1>2. EachWordIsItsClass
  BY <1>1 DEF EachWordIsItsClass, OfPointerTypes, Is
<1>3. PredicatesAgree
  BY PredicatesRepeatTypes DEF PredicatesAgree, OfPointerTypes
<1>. QED
  BY <1>2, <1>3 DEF WordsAreClassified

-----------------------------------------------------------------------------
(* The words that are made                                                 *)
LEMMA WordsWrap ==
  ASSUME NEW i \in Int, -WordSize <= i, i < WordSize
  PROVE  uptr(i) = IF i >= 0 THEN i ELSE i + WordSize
<1>1. WordSize \in Nat \ {0}
  BY WordsAreLarge, SMT
<1>2. \A a, b \in Int : b > 0 /\ 0 <= a /\ a < b => a % b = a /\ (a - b) % b = a
  BY SMT
<1>3. CASE i >= 0
  BY <1>1, <1>2, <1>3, SMT DEF uptr
<1>4. CASE i < 0
  <2>1. i + WordSize \in Int /\ 0 <= i + WordSize /\ i + WordSize < WordSize
    BY <1>1, <1>4, SMT
  <2>2. ((i + WordSize) - WordSize) % WordSize = i + WordSize
    BY <1>1, <1>2, <2>1, SMT
  <2>. QED
    BY <1>1, <1>4, <2>2, SMT DEF uptr
<1>. QED
  BY <1>3, <1>4, SMT

LEMMA WordSizeDivides ==
  \E k \in Nat : WordSize = \h1000000 * k /\ k > 0
<1>1. WordSize \in Nat /\ WordSize >= \h1000000 /\ WordSize % \h1000000 = 0
  BY WordsAreLarge
<1>2. WordSize \div \h1000000 \in Nat /\ WordSize = \h1000000 * (WordSize \div \h1000000)
  BY <1>1, SMT
<1>3. WordSize \div \h1000000 > 0
  BY <1>1, SMT
<1>. QED
  BY <1>2, <1>3, SMT

\* The classes of what is made, class by class.
LEMMA ClassesOfEach ==
  ASSUME NEW h
  PROVE  /\ \A c \in {"fixnum", "pair", "symbol", "closure", "flonum", "typed_object",
                      "fxvector", "flvector", "thread", "tlc", "phantom", "rtd_counts",
                      "record"} : ClassesOf(c, h) = {c}
         /\ \A c \in {"char", "boolean", "nil", "eof", "bwp", "void"} :
              ClassesOf(c, h) = {c, "immediate"}
         /\ \A c \in {"mutable_vector", "immutable_vector"} : ClassesOf(c, h) = {c, "vector"}
         /\ \A c \in {"mutable_string", "immutable_string"} : ClassesOf(c, h) = {c, "string"}
         /\ \A c \in {"mutable_bytevector", "immutable_bytevector"} :
              ClassesOf(c, h) = {c, "bytevector"}
         /\ \A c \in {"positive_bignum", "negative_bignum"} :
              ClassesOf(c, h) = {c, "bignum", "other_number"}
         /\ \A c \in {"inexactnum", "exactnum", "ratnum"} : ClassesOf(c, h) = {c, "other_number"}
         /\ \A c \in {"stencil_vector", "sys_stencil_vector"} :
              ClassesOf(c, h) = {c, "any_stencil_vector"}
         /\ \A c \in {"mutable_box", "immutable_box"} : ClassesOf(c, h) = {c, "box"}
         /\ ClassesOf("code", h) = {"code"} \cup {CodeClass[f] : f \in h \cap DOMAIN CodeClass}
         /\ ClassesOf("port", h) = PortClasses(h)
<1> USE DEF ClassesOf, General, Immediates, Constants, OtherNumbers
<1>1. \A c \in {"fixnum", "pair", "symbol", "closure", "flonum", "typed_object",
                "fxvector", "flvector", "thread", "tlc", "phantom", "rtd_counts",
                "record"} : ClassesOf(c, h) = {c}
  BY SMT
<1>2. \A c \in {"char", "boolean", "nil", "eof", "bwp", "void"} :
        ClassesOf(c, h) = {c, "immediate"}
  BY SMT
<1>3. /\ \A c \in {"mutable_vector", "immutable_vector"} : ClassesOf(c, h) = {c, "vector"}
      /\ \A c \in {"mutable_string", "immutable_string"} : ClassesOf(c, h) = {c, "string"}
      /\ \A c \in {"mutable_bytevector", "immutable_bytevector"} :
           ClassesOf(c, h) = {c, "bytevector"}
  BY SMT
<1>4. \A c \in {"positive_bignum", "negative_bignum"} :
        ClassesOf(c, h) = {c, "bignum", "other_number"}
  BY SMT
<1>5. \A c \in {"inexactnum", "exactnum", "ratnum"} : ClassesOf(c, h) = {c, "other_number"}
  BY SMT
<1>6. /\ \A c \in {"stencil_vector", "sys_stencil_vector"} :
           ClassesOf(c, h) = {c, "any_stencil_vector"}
      /\ \A c \in {"mutable_box", "immutable_box"} : ClassesOf(c, h) = {c, "box"}
  BY SMT
<1>7. ClassesOf("code", h) = {"code"} \cup {CodeClass[f] : f \in h \cap DOMAIN CodeClass}
  BY SMT
<1>8. ClassesOf("port", h) = PortClasses(h)
  BY SMT
<1>. QED
  BY <1>1, <1>2, <1>3, <1>4, <1>5, <1>6, <1>7, <1>8

\* What is made, with contents up to the limits of a word.
Contents == 0..(WordSize \div 2^8 - 1)

Made(class, holds, w) == made = [class |-> class, holds |-> holds] /\ word = w

FixnumMade ==
  \E x \in most_negative_fixnum..most_positive_fixnum : Made("fixnum", x, Sfixnum(x))
CharMade == \E c \in Contents : Made("char", c, Schar(c))
BooleanMade == \E b \in BOOLEAN : Made("boolean", b, Sboolean(b))
ConstantMade ==
  \/ Made("nil", 0, Snil)
  \/ Made("eof", 0, Seof_object)
  \/ Made("bwp", 0, Sbwp_object)
  \/ Made("void", 0, Svoid)
PointerMade ==
  \E class \in {"pair", "symbol", "closure", "flonum", "typed_object"}, at \in Contents :
     Made(class, at * 16, at * 16 + Type[class])
SizedMade ==
  \E class \in DOMAIN Sized : \E n \in 0..MaximumLength[General(class)] :
     Made(class, n, uptr(n * Sized[class].factor + Type[class]))
StencilVectorMade ==
  \E class \in {"stencil_vector", "sys_stencil_vector"},
     mask \in 0..(WordSize \div 2^stencilMaskOffset - 1) :
     Made(class, mask, mask * 2^stencilMaskOffset + Type[class])
PlainMade ==
  \E class \in {"mutable_box", "immutable_box", "inexactnum", "exactnum", "ratnum", "thread",
                "tlc", "phantom", "rtd_counts"} :
     Made(class, 0, Type[class])
RecordMade == \E at \in Contents : Made("record", at * 16, at * 16 + Type["typed_object"])
CodeMade ==
  \E flags \in SUBSET DOMAIN CodeFlags :
     Made("code", flags, Type["code"] + 2^code_flags_offset * joined(flags, CodeFlags))
PortMade ==
  \E flags \in SUBSET DOMAIN PortFlags :
     Made("port", flags, Type["port"] + 2^port_flags_offset * joined(flags, port_flag))

MadeInv ==
  \/ made = Nothing
  \/ FixnumMade \/ CharMade \/ BooleanMade \/ ConstantMade \/ PointerMade
  \/ SizedMade \/ StencilVectorMade \/ PlainMade \/ RecordMade \/ CodeMade \/ PortMade

LEMMA ContentsFit ==
  /\ Payloads \subseteq Contents
  /\ \A n \in Contents : n \in Nat /\ n * 256 + 255 < WordSize
  /\ \A n \in Contents : n \in 0..(WordSize \div 2^6 - 1) /\ n \in 0..(WordSize \div 2^4 - 1)
<1>1. WordSize \in Nat
  BY WordsAreLarge
<1>2. PICK k \in Nat : WordSize = \h1000000 * k /\ k > 0
  BY WordSizeDivides
<1>3. /\ WordSize \div 2^8 = \h10000 * k /\ WordSize \div 2^6 = \h40000 * k
      /\ WordSize \div 2^4 = \h100000 * k
  BY <1>2, SMT
<1>4. Payloads \subseteq Contents
  BY WordAssumption DEF Contents
<1>. QED
  BY <1>2, <1>3, <1>4, SMT DEF Contents

LEMMA NumbersFit ==
  /\ most_negative_fixnum \in Int /\ most_positive_fixnum \in Int
  /\ most_negative_fixnum <= most_positive_fixnum
<1>1. WordSize \in Nat /\ WordSize >= 16
  BY WordsAreLarge, SMT
<1>. QED
  BY <1>1, SMT DEF most_negative_fixnum, most_positive_fixnum, fixnum_offset

LEMMA LengthsFit ==
  \A class \in DOMAIN Sized :
    Payloads \cup {MaximumLength[General(class)]} \subseteq 0..MaximumLength[General(class)]
<1>1. ASSUME NEW class \in DOMAIN Sized
      PROVE  MaximumLength[General(class)] \in {WordSize \div 2^6 - 1, WordSize \div 2^4 - 1}
  BY <1>1, SMT DEF Sized, General, MaximumLength
<1>2. \A m \in {WordSize \div 2^6 - 1, WordSize \div 2^4 - 1} : m \in Nat
  BY WordsAreLarge, SMT
<1>. QED
  BY <1>1, <1>2, ContentsFit, SMT

LEMMA MadeByConstructors == ChezSpec => []MadeInv
<1>1. ChezInit => MadeInv
  BY DEF ChezInit, MadeInv
<1>2. MadeInv /\ [ChezNext]_chezVars => MadeInv'
  <2> SUFFICES ASSUME MadeInv, [ChezNext]_chezVars PROVE MadeInv'
    OBVIOUS
  <2> USE DEF Make, Made
  <2>1. CASE MakeFixnum
    BY <2>1, WordAssumption, NumbersFit DEF MakeFixnum, FixnumMade, MadeInv
  <2>2. CASE MakeChar
    BY <2>2, ContentsFit DEF MakeChar, CharMade, MadeInv
  <2>3. CASE MakeBoolean
    BY <2>3 DEF MakeBoolean, BooleanMade, MadeInv
  <2>4. CASE MakeConstant
    BY <2>4 DEF MakeConstant, ConstantMade, MadeInv
  <2>5. CASE MakePointer
    BY <2>5, ContentsFit DEF MakePointer, PointerMade, MadeInv
  <2>6. CASE MakeSized
    BY <2>6, LengthsFit DEF MakeSized, SizedMade, MadeInv
  <2>7. CASE MakeStencilVector
    <3>1. Payloads \cup {WordSize \div 2^stencilMaskOffset - 1}
            \subseteq 0..(WordSize \div 2^stencilMaskOffset - 1)
      BY ContentsFit, WordsAreLarge, SMT DEF stencilMaskOffset
    <3>. QED
      BY <2>7, <3>1 DEF MakeStencilVector, StencilVectorMade, MadeInv
  <2>8. CASE MakePlain
    BY <2>8 DEF MakePlain, PlainMade, MadeInv
  <2>9. CASE MakeRecord
    BY <2>9, ContentsFit DEF MakeRecord, RecordMade, MadeInv
  <2>10. CASE MakeCode
    BY <2>10 DEF MakeCode, CodeMade, MadeInv
  <2>11. CASE MakePort
    BY <2>11, FlagsAssumption DEF MakePort, PortMade, MadeInv
  <2>12. CASE Drop
    BY <2>12 DEF Drop, MadeInv
  <2>13. CASE UNCHANGED chezVars
    BY <2>13 DEF chezVars, MadeInv, FixnumMade, CharMade, BooleanMade, ConstantMade, PointerMade,
       SizedMade, StencilVectorMade, PlainMade, RecordMade, CodeMade, PortMade
  <2>. QED
    BY <2>1, <2>2, <2>3, <2>4, <2>5, <2>6, <2>7, <2>8, <2>9, <2>10, <2>11, <2>12, <2>13
       DEF ChezNext
<1>. QED
  BY <1>1, <1>2, PTL DEF ChezSpec

-----------------------------------------------------------------------------
(* Each kind of value is classified and decoded                            *)

\* What has no length and no sign is decoded by class.
LEMMA DecodedUnsized ==
  ASSUME made.class \in {"fixnum", "char", "boolean", "nil", "eof", "bwp", "void", "pair", "symbol",
                         "closure", "flonum", "typed_object", "stencil_vector",
                         "sys_stencil_vector", "mutable_box", "immutable_box", "inexactnum",
                         "exactnum", "ratnum", "thread", "tlc", "phantom", "rtd_counts", "record",
                         "code", "port", "nothing"},
         made.class = "fixnum" =>
           /\ Sfixnum_value(word) = made.holds
           /\ word = uptr(made.holds * fixnum_factor + Type.fixnum),
         made.class = "char" => Schar_value(word) = made.holds,
         made.class = "boolean" => Sboolean_value(word) = made.holds,
         made.class \in {"stencil_vector", "sys_stencil_vector"} =>
           Sstencil_vector_length(word) = Spopcount(made.holds),
         made.class = "port" =>
           {f \in DOMAIN PortFlags : matches(word, PortFlags[f], PortFlags[f])} = made.holds,
         made.class = "pair" => word \in Nat /\ word % 8 = 1,
         made.class = "flonum" => word \in Nat /\ word % 8 = 2,
         made.class = "typed_object" => word \in Nat /\ word % 8 = 7
  PROVE  Decoded
<1>1. made.class \notin DOMAIN Sized /\ General(made.class) # "bignum"
  BY SMT DEF Sized, General
<1>2. made.class = "pair" =>
        /\ Displacement.car = pairLayout.car /\ Displacement.cdr = pairLayout.cdr
        /\ (word + Displacement.car) % 8 = 0 /\ (word + Displacement.cdr) % 8 = 0
  BY SMT DEF Displacement, pairLayout
<1>3. made.class = "flonum" => (word + Displacement.flonum) % 8 = 0
  BY SMT DEF Displacement
<1>4. made.class = "typed_object" =>
       /\ (word + Displacement.header) % 8 = 0
       /\ \A class \in DOMAIN Sized :
            /\ Sized[class].type = Displacement.header
            /\ Sized[class].data = Displacement.data
  BY SMT DEF Displacement, Sized, vectorLayout, fxvectorLayout, flvectorLayout, stringLayout,
     bytevectorLayout, bignumLayout
<1>. QED
  BY <1>1, <1>2, <1>3, <1>4 DEF Decoded

LEMMA Fixnums == FixnumMade => WordsAreClassified /\ Decoded
<1> SUFFICES ASSUME NEW x \in most_negative_fixnum..most_positive_fixnum,
                    Made("fixnum", x, Sfixnum(x))
             PROVE  WordsAreClassified /\ Decoded
  BY DEF FixnumMade
<1>1. made.class = "fixnum" /\ made.holds = x /\ word = Sfixnum(x)
  BY DEF Made
<1>2. PICK k \in Nat : WordSize = \h1000000 * k /\ k > 0
  BY WordSizeDivides
<1>3. x \in Int /\ -(\h100000 * k) <= x /\ x < \h100000 * k
  BY <1>2, SMT DEF most_negative_fixnum, most_positive_fixnum, fixnum_offset
<1>4. word = IF x >= 0 THEN x * 8 ELSE x * 8 + WordSize
  <2>1. x * 8 \in Int /\ -WordSize <= x * 8 /\ x * 8 < WordSize
    BY <1>2, <1>3, SMT
  <2>. QED
    BY <1>1, <2>1, WordsWrap, SMT DEF Sfixnum
<1>5. word \in Nat /\ word % 8 = 0
  BY <1>2, <1>3, <1>4, SMT
<1>6. iptr(word) = x * 8
  BY <1>2, <1>3, <1>4, SMT DEF iptr
<1>7. WordsAreClassified
  <2>1. OfPointerTypes(word, {"fixnum"})
    BY <1>5, TypesOfPointers
  <2>2. ClassesOf(made.class, made.holds) = {"fixnum"}
    BY <1>1, ClassesOfEach
  <2>3. \A c \in DOMAIN Constant : word # Constant[c] /\ c # "fixnum"
    BY <1>5, SMT DEF Constant, Snil, Seof_object, Sbwp_object
  <2>4. IsAPointer
    BY <1>1 DEF IsAPointer, PointerClasses
  <2>. QED
    BY <1>5, <2>1, <2>2, <2>3, <2>4, PointersClassified
<1>8. Decoded
  <2>1. Sfixnum_value(word) = x
    BY <1>3, <1>6, SMT DEF Sfixnum_value
  <2>2. word = uptr(x * fixnum_factor + Type.fixnum)
    <3>1. x * fixnum_factor + Type.fixnum = x * 8
      BY <1>3, TypesAndMasks, SMT DEF fixnum_factor, fixnum_offset
    <3>. QED
      BY <1>1, <3>1 DEF Sfixnum
  <2>. QED
    BY <1>1, <2>1, <2>2, DecodedUnsized
<1>. QED
  BY <1>7, <1>8

LEMMA Chars == CharMade => WordsAreClassified /\ Decoded
<1> SUFFICES ASSUME NEW c \in Contents, Made("char", c, Schar(c))
             PROVE  WordsAreClassified /\ Decoded
  BY DEF CharMade
<1>1. made.class = "char" /\ made.holds = c /\ word = Schar(c)
  BY DEF Made
<1>2. c \in Nat /\ c * 256 + 255 < WordSize
  BY ContentsFit
<1>3. word = c * 256 + \h16
  <2>1. c * 256 + \h16 \in Int /\ -WordSize <= c * 256 + \h16 /\ c * 256 + \h16 < WordSize
    BY <1>2, WordsAreLarge, SMT
  <2>. QED
    BY <1>1, <1>2, <2>1, WordsWrap, SMT DEF Schar
<1>4. word \in Nat /\ word % 256 = \h16 /\ word \div 2^8 = c
  BY <1>2, <1>3, SMT
<1>5. WordsAreClassified
  <2>1. OfPointerTypes(word, {"char", "immediate"})
    BY <1>4, TypesOfPointers
  <2>2. ClassesOf(made.class, made.holds) = {"char", "immediate"}
    BY <1>1, ClassesOfEach
  <2>3. \A d \in DOMAIN Constant : word # Constant[d] /\ d \notin {"char", "immediate"}
    BY <1>4, SMT DEF Constant, Snil, Seof_object, Sbwp_object
  <2>4. IsAPointer
    BY <1>1 DEF IsAPointer, PointerClasses, Immediates
  <2>. QED
    BY <1>4, <2>1, <2>2, <2>3, <2>4, PointersClassified
<1>6. Decoded
  BY <1>1, <1>4, DecodedUnsized DEF Schar_value
<1>. QED
  BY <1>5, <1>6

LEMMA Booleans == BooleanMade => WordsAreClassified /\ Decoded
<1> SUFFICES ASSUME NEW b \in BOOLEAN, Made("boolean", b, Sboolean(b))
             PROVE  WordsAreClassified /\ Decoded
  BY DEF BooleanMade
<1>1. made.class = "boolean" /\ made.holds = b /\ word = Sboolean(b)
  BY DEF Made
<1>2. word \in {Sfalse, Strue} /\ word \in Nat
  BY <1>1, SMT DEF Sboolean, Sfalse, Strue
<1>3. WordsAreClassified
  <2>1. OfPointerTypes(word, {"boolean", "immediate"})
    BY <1>2, TypesOfPointers
  <2>2. ClassesOf(made.class, made.holds) = {"boolean", "immediate"}
    BY <1>1, ClassesOfEach
  <2>3. \A c \in DOMAIN Constant : word # Constant[c] /\ c \notin {"boolean", "immediate"}
    BY <1>2, SMT DEF Constant, Snil, Seof_object, Sbwp_object, Sfalse, Strue
  <2>4. IsAPointer
    BY <1>1 DEF IsAPointer, PointerClasses, Immediates
  <2>. QED
    BY <1>2, <2>1, <2>2, <2>3, <2>4, PointersClassified
<1>4. Sboolean_value(word) = b
  BY <1>1, SMT DEF Sboolean_value, Sboolean, Sfalse, Strue
<1>5. Decoded
  BY <1>1, <1>4, DecodedUnsized
<1>. QED
  BY <1>3, <1>5

LEMMA TheConstants == ConstantMade => WordsAreClassified /\ Decoded
<1> SUFFICES ASSUME ConstantMade PROVE WordsAreClassified /\ Decoded
  OBVIOUS
<1>1. /\ made.class \in {"nil", "eof", "bwp", "void"}
      /\ word \in {Snil, Seof_object, Sbwp_object, Svoid} /\ word \in Nat
      /\ \A c \in DOMAIN Constant : word = Constant[c] <=> c = made.class
  BY SMT DEF ConstantMade, Made, Constant, Snil, Seof_object, Sbwp_object, Svoid
<1>2. OfPointerTypes(word, {"immediate"})
  BY <1>1, TypesOfPointers
<1>3. ClassesOf(made.class, made.holds) = {made.class, "immediate"}
  BY <1>1, ClassesOfEach
<1>4. IsAPointer
  BY <1>1 DEF IsAPointer, PointerClasses, Immediates, Constants
<1>5. made.class \notin PointerTypes /\ "immediate" \notin DOMAIN Constant
  BY <1>1 DEF PointerTypes, Constant
<1>6. WordsAreClassified
  BY <1>1, <1>2, <1>3, <1>4, <1>5, PointersClassified
<1>7. Decoded
  BY <1>1, DecodedUnsized
<1>. QED
  BY <1>6, <1>7

LEMMA PointersMade == PointerMade => WordsAreClassified /\ Decoded
<1> SUFFICES ASSUME NEW class \in {"pair", "symbol", "closure", "flonum", "typed_object"},
                    NEW at \in Contents, Made(class, at * 16, at * 16 + Type[class])
             PROVE  WordsAreClassified /\ Decoded
  BY DEF PointerMade
<1>1. made.class = class /\ word = at * 16 + Type[class]
  BY DEF Made
<1>2. at \in Nat
  BY ContentsFit
<1>3. /\ word \in Nat
      /\ class = "pair" => word % 8 = 1
      /\ class = "symbol" => word % 8 = 3
      /\ class = "closure" => word % 8 = 5
      /\ class = "flonum" => word % 8 = 2
      /\ class = "typed_object" => word % 8 = 7
  BY <1>1, <1>2, TypesAndMasks, SMT
<1>4. OfPointerTypes(word, {class})
  BY <1>3, TypesOfPointers
<1>5. ClassesOf(made.class, made.holds) = {class}
  BY <1>1, ClassesOfEach
<1>6. \A c \in DOMAIN Constant : word # Constant[c] /\ c # class
  BY <1>3, SMT DEF Constant, Snil, Seof_object, Sbwp_object
<1>7. IsAPointer
  BY <1>1 DEF IsAPointer, PointerClasses, Pointers
<1>8. WordsAreClassified
  BY <1>3, <1>4, <1>5, <1>6, <1>7, PointersClassified
<1>9. Decoded
  BY <1>1, <1>3, DecodedUnsized
<1>. QED
  BY <1>8, <1>9

\* A header with a length above its type.
LEMMA SizedWords ==
  ASSUME NEW class \in DOMAIN Sized, NEW n \in 0..MaximumLength[General(class)],
         Made(class, n, uptr(n * Sized[class].factor + Type[class]))
  PROVE  n \in Nat /\ word = n * Sized[class].factor + Type[class]
<1>1. PICK k \in Nat : WordSize = \h1000000 * k /\ k > 0
  BY WordSizeDivides
<1>2. \/ /\ Sized[class].factor = 8 /\ Type[class] \in 0..7
         /\ MaximumLength[General(class)] = WordSize \div 2^4 - 1
      \/ /\ Sized[class].factor = 16 /\ Type[class] \in 0..15
         /\ MaximumLength[General(class)] = WordSize \div 2^4 - 1
      \/ /\ Sized[class].factor = 64 /\ Type[class] \in 0..63
         /\ MaximumLength[General(class)] = WordSize \div 2^6 - 1
  <2>1. class \in {"mutable_bytevector", "immutable_bytevector"} =>
          /\ Sized[class].factor = 8 /\ General(class) = "bytevector" /\ Type[class] \in 0..7
    BY TypesAndMasks, SMT DEF Sized, General, bytevectorLayout
  <2>2. class \in {"positive_bignum", "negative_bignum"} =>
          /\ Sized[class].factor = 64 /\ General(class) = "bignum" /\ Type[class] \in 0..63
    BY TypesAndMasks, SMT DEF Sized, General, bignumLayout
  <2>3. class \notin {"mutable_bytevector", "immutable_bytevector", "positive_bignum",
                     "negative_bignum"} =>
          /\ Sized[class].factor = 16 /\ Type[class] \in 0..15
          /\ General(class) \in {"vector", "string", "fxvector", "flvector"}
    BY TypesAndMasks, SMT DEF Sized, General, vectorLayout, fxvectorLayout, flvectorLayout,
       stringLayout
  <2>4. /\ \A c \in {"vector", "string", "fxvector", "flvector", "bytevector"} :
             MaximumLength[c] = WordSize \div 2^4 - 1
        /\ MaximumLength["bignum"] = WordSize \div 2^6 - 1
    BY SMT DEF MaximumLength
  <2>. QED
    BY <2>1, <2>2, <2>3, <2>4
<1> DEFINE w == n * Sized[class].factor + Type[class]
<1>3. n \in Nat /\ w \in Int /\ -WordSize <= w /\ w >= 0 /\ w < WordSize
  <2>1. CASE Sized[class].factor \in {8, 16}
    <3>1. n \in Nat /\ n < \h100000 * k /\ Type[class] \in 0..15
      BY <1>1, <1>2, <2>1, SMT
    <3>. QED
      BY <1>1, <2>1, <3>1, SMT
  <2>2. CASE Sized[class].factor = 64
    <3>1. n \in Nat /\ n < \h40000 * k /\ Type[class] \in 0..63
      BY <1>1, <1>2, <2>2, SMT
    <3>. QED
      BY <1>1, <2>2, <3>1, SMT
  <2>. QED
    BY <1>2, <2>1, <2>2
<1>4. word = uptr(w)
  BY DEF Made
<1> HIDE DEF w
<1>5. word = w
  BY <1>3, <1>4, WordsWrap, SMT
<1>. QED
  BY <1>3, <1>5 DEF w

\* What is left to show of a header with a length.
LEMMA DecodedSized ==
  ASSUME made.class \in DOMAIN Sized,
         General(made.class) \in DOMAIN LengthShift =>
           Slength(General(made.class), word) = made.holds,
         General(made.class) \in {"vector", "string", "bytevector"} =>
           LET flag == Sized[made.class].immutable
           IN matches(word, flag, flag) <=> made.class = Immutable[General(made.class)],
         General(made.class) = "bignum" =>
           (matches(word, Mask.bignum_sign, Mask.bignum_sign) <=> made.class = "negative_bignum")
  PROVE  Decoded
<1>1. made.class \in {"mutable_vector", "immutable_vector", "fxvector", "flvector",
                      "mutable_string", "immutable_string", "mutable_bytevector",
                      "immutable_bytevector", "positive_bignum", "negative_bignum"}
  BY SMT DEF Sized
<1>2. /\ made.class \notin {"fixnum", "char", "boolean", "stencil_vector", "sys_stencil_vector"}
      /\ made.class \notin {"port", "pair", "flonum", "typed_object"}
  BY <1>1
<1>. QED
  BY <1>2 DEF Decoded

LEMMA Vectors ==
  ASSUME NEW n \in Nat,
         NEW class \in {"mutable_vector", "immutable_vector", "fxvector", "flvector"},
         made.class = class, made.holds = n, word = n * Sized[class].factor + Type[class]
  PROVE  WordsAreClassified /\ Decoded
<1>1. /\ word \in Nat /\ word \div 16 = n
      /\ class = "mutable_vector" => word % 16 = 0
      /\ class = "immutable_vector" => word % 16 = 8
      /\ class = "fxvector" => word % 16 = 3
      /\ class = "flvector" => word % 16 = 11
  <2>1. Sized[class].factor = 16
    BY SMT DEF Sized, vectorLayout, fxvectorLayout, flvectorLayout
  <2>2. /\ Type[class] \in 0..15
        /\ class = "mutable_vector" => Type[class] = 0
        /\ class = "immutable_vector" => Type[class] = 8
        /\ class = "fxvector" => Type[class] = 3
        /\ class = "flvector" => Type[class] = 11
    BY TypesAndMasks, SMT
  <2>3. word = n * 16 + Type[class]
    BY <2>1
  <2> DEFINE t == Type[class]
  <2> HIDE DEF t
  <2>4. /\ word \in Nat /\ word \div 16 = n /\ word % 16 = t
    <3>1. t \in 0..15 /\ word = n * 16 + t
      BY <2>2, <2>3 DEF t
    <3>. QED
      BY <3>1, SMT
  <2>. QED
    BY <2>2, <2>4 DEF t
<1>2. ~ IsAPointer
  BY SMT DEF IsAPointer, PointerClasses, Immediates, Constants, Pointers
<1>3. WordsAreClassified
  <2>1. CASE class \in {"mutable_vector", "immutable_vector"}
    <3>1. OfTypes(word, {"vector", class})
      <4>1. CASE class = "mutable_vector"
        BY <1>1, <4>1, TypesOfHeaders
      <4>2. CASE class = "immutable_vector"
        BY <1>1, <4>2, TypesOfHeaders
      <4>. QED
        BY <2>1, <4>1, <4>2
    <3>2. ClassesOf(made.class, made.holds) = {class, "vector"}
      BY <2>1, ClassesOfEach
    <3>. QED
      BY <1>1, <1>2, <3>1, <3>2, HeadersClassified
  <2>2. CASE class \in {"fxvector", "flvector"}
    <3>1. OfTypes(word, {class})
      <4>1. CASE class = "fxvector"
        BY <1>1, <4>1, TypesOfHeaders
      <4>2. CASE class = "flvector"
        BY <1>1, <4>2, TypesOfHeaders
      <4>. QED
        BY <2>2, <4>1, <4>2
    <3>2. ClassesOf(made.class, made.holds) = {class}
      BY <2>2, ClassesOfEach
    <3>. QED
      BY <1>1, <1>2, <3>1, <3>2, HeadersClassified
  <2>. QED
    BY <2>1, <2>2
<1>4. Decoded
  <2>1. made.class \in DOMAIN Sized /\ General(made.class) # "bignum"
    BY SMT DEF Sized, General
  <2>2. Slength(General(made.class), word) = n
    <3>1. LengthShift[General(made.class)] = 4
      BY SMT DEF LengthShift, General
    <3>2. 2^4 = 16
      BY SMT
    <3>. QED
      BY <1>1, <3>1, <3>2 DEF Slength
  <2>3. General(made.class) \in {"vector", "string", "bytevector"} =>
          /\ class \in {"mutable_vector", "immutable_vector"}
          /\ General(made.class) = "vector" /\ Sized[made.class].immutable = 8
    BY SMT DEF General, Sized, vectorLayout
  <2>4. matches(word, 8, 8) <=> bit(word, 8) = 1
    BY <1>1, OneFlag, SMT DEF Places
  <2>5. class \in {"mutable_vector", "immutable_vector"} =>
          (bit(word, 8) = 1 <=> class = "immutable_vector")
    BY <1>1, SMT DEF bit
  <2>6. Immutable["vector"] = "immutable_vector"
    BY DEF Immutable
  <2>. QED
    BY <2>1, <2>2, <2>3, <2>4, <2>5, <2>6, DecodedSized
<1>. QED
  BY <1>3, <1>4

LEMMA Strings ==
  ASSUME NEW n \in Nat, NEW class \in {"mutable_string", "immutable_string"},
         made.class = class, made.holds = n, word = n * Sized[class].factor + Type[class]
  PROVE  WordsAreClassified /\ Decoded
<1>1. /\ word \in Nat /\ word \div 16 = n
      /\ class = "mutable_string" => word % 16 = 2
      /\ class = "immutable_string" => word % 16 = 10
  <2>1. Sized[class].factor = 16
    BY SMT DEF Sized, stringLayout
  <2>. QED
    BY <2>1, TypesAndMasks, SMT
<1>2. ~ IsAPointer
  BY SMT DEF IsAPointer, PointerClasses, Immediates, Constants, Pointers
<1>3. WordsAreClassified
  <2>1. OfTypes(word, {"string", class})
    <3>1. CASE class = "mutable_string"
      BY <1>1, <3>1, TypesOfHeaders
    <3>2. CASE class = "immutable_string"
      BY <1>1, <3>2, TypesOfHeaders
    <3>. QED
      BY <3>1, <3>2
  <2>2. ClassesOf(made.class, made.holds) = {class, "string"}
    BY ClassesOfEach
  <2>. QED
    BY <1>1, <1>2, <2>1, <2>2, HeadersClassified
<1>4. Decoded
  <2>1. /\ made.class \in DOMAIN Sized /\ General(made.class) = "string"
        /\ Sized[made.class].immutable = 8
    BY SMT DEF Sized, General, stringLayout
  <2>2. Slength(General(made.class), word) = n
    <3>1. LengthShift[General(made.class)] = 4
      BY SMT DEF LengthShift, General
    <3>2. 2^4 = 16
      BY SMT
    <3>. QED
      BY <1>1, <3>1, <3>2 DEF Slength
  <2>3. matches(word, 8, 8) <=> bit(word, 8) = 1
    BY <1>1, OneFlag, SMT DEF Places
  <2>4. bit(word, 8) = 1 <=> class = "immutable_string"
    BY <1>1, SMT DEF bit
  <2>5. Immutable["string"] = "immutable_string"
    BY DEF Immutable
  <2>. QED
    BY <2>1, <2>2, <2>3, <2>4, <2>5, DecodedSized
<1>. QED
  BY <1>3, <1>4

LEMMA Bytevectors ==
  ASSUME NEW n \in Nat, NEW class \in {"mutable_bytevector", "immutable_bytevector"},
         made.class = class, made.holds = n, word = n * Sized[class].factor + Type[class]
  PROVE  WordsAreClassified /\ Decoded
<1>1. /\ word \in Nat /\ word \div 8 = n
      /\ class = "mutable_bytevector" => word % 8 = 1
      /\ class = "immutable_bytevector" => word % 8 = 5
  <2>1. Sized[class].factor = 8
    BY SMT DEF Sized, bytevectorLayout
  <2>. QED
    BY <2>1, TypesAndMasks, SMT
<1>2. ~ IsAPointer
  BY SMT DEF IsAPointer, PointerClasses, Immediates, Constants, Pointers
<1>3. WordsAreClassified
  <2>1. OfTypes(word, {"bytevector", class})
    <3>1. CASE class = "mutable_bytevector"
      BY <1>1, <3>1, TypesOfHeaders
    <3>2. CASE class = "immutable_bytevector"
      BY <1>1, <3>2, TypesOfHeaders
    <3>. QED
      BY <3>1, <3>2
  <2>2. ClassesOf(made.class, made.holds) = {class, "bytevector"}
    BY ClassesOfEach
  <2>. QED
    BY <1>1, <1>2, <2>1, <2>2, HeadersClassified
<1>4. Decoded
  <2>1. /\ made.class \in DOMAIN Sized /\ General(made.class) = "bytevector"
        /\ Sized[made.class].immutable = 4
    BY SMT DEF Sized, General, bytevectorLayout
  <2>2. Slength(General(made.class), word) = n
    <3>1. LengthShift[General(made.class)] = 3
      BY SMT DEF LengthShift, General
    <3>2. 2^3 = 8
      BY SMT
    <3>. QED
      BY <1>1, <3>1, <3>2 DEF Slength
  <2>3. matches(word, 4, 4) <=> bit(word, 4) = 1
    BY <1>1, OneFlag, SMT DEF Places
  <2>4. bit(word, 4) = 1 <=> class = "immutable_bytevector"
    BY <1>1, SMT DEF bit
  <2>5. Immutable["bytevector"] = "immutable_bytevector"
    BY DEF Immutable
  <2>. QED
    BY <2>1, <2>2, <2>3, <2>4, <2>5, DecodedSized
<1>. QED
  BY <1>3, <1>4

LEMMA Bignums ==
  ASSUME NEW n \in Nat, NEW class \in {"positive_bignum", "negative_bignum"},
         made.class = class, made.holds = n, word = n * Sized[class].factor + Type[class]
  PROVE  WordsAreClassified /\ Decoded
<1>1. /\ word \in Nat
      /\ class = "positive_bignum" => word % 64 = 6
      /\ class = "negative_bignum" => word % 64 = \h26
  <2>1. Sized[class].factor = 64
    BY SMT DEF Sized, bignumLayout
  <2>. QED
    BY <2>1, TypesAndMasks, SMT
<1>2. ~ IsAPointer
  BY SMT DEF IsAPointer, PointerClasses, Immediates, Constants, Pointers
<1>3. WordsAreClassified
  <2>1. OfTypes(word, {"bignum", class, "other_number"})
    <3>1. CASE class = "positive_bignum"
      BY <1>1, <3>1, TypesOfHeaders
    <3>2. CASE class = "negative_bignum"
      BY <1>1, <3>2, TypesOfHeaders
    <3>. QED
      BY <3>1, <3>2
  <2>2. ClassesOf(made.class, made.holds) = {class, "bignum", "other_number"}
    BY ClassesOfEach
  <2>. QED
    BY <1>1, <1>2, <2>1, <2>2, HeadersClassified
<1>4. Decoded
  <2>1. /\ made.class \in DOMAIN Sized /\ General(made.class) = "bignum"
        /\ General(made.class) \notin DOMAIN LengthShift
    BY SMT DEF Sized, General, LengthShift
  <2>2. Mask.bignum_sign = \h20
    BY SMT DEF Mask
  <2>3. matches(word, \h20, \h20) <=> bit(word, \h20) = 1
    BY <1>1, OneFlag, SMT DEF Places
  <2>4. bit(word, \h20) = 1 <=> class = "negative_bignum"
    BY <1>1, SMT DEF bit
  <2>. QED
    BY <2>1, <2>2, <2>3, <2>4, DecodedSized
<1>. QED
  BY <1>3, <1>4

LEMMA SizedObjects == SizedMade => WordsAreClassified /\ Decoded
<1> SUFFICES ASSUME NEW class \in DOMAIN Sized, NEW n \in 0..MaximumLength[General(class)],
                    Made(class, n, uptr(n * Sized[class].factor + Type[class]))
             PROVE  WordsAreClassified /\ Decoded
  BY DEF SizedMade
<1>1. /\ made.class = class /\ made.holds = n
      /\ n \in Nat /\ word = n * Sized[class].factor + Type[class]
  BY SizedWords DEF Made
<1>2. class \in {"mutable_vector", "immutable_vector", "fxvector", "flvector"}
        \cup {"mutable_string", "immutable_string"}
        \cup {"mutable_bytevector", "immutable_bytevector"}
        \cup {"positive_bignum", "negative_bignum"}
  BY SMT DEF Sized
<1>. QED
  BY <1>1, <1>2, Vectors, Strings, Bytevectors, Bignums

LEMMA StencilVectors == StencilVectorMade => WordsAreClassified /\ Decoded
<1> SUFFICES ASSUME NEW class \in {"stencil_vector", "sys_stencil_vector"},
                    NEW mask \in 0..(WordSize \div 2^stencilMaskOffset - 1),
                    Made(class, mask, mask * 2^stencilMaskOffset + Type[class])
             PROVE  WordsAreClassified /\ Decoded
  BY DEF StencilVectorMade
<1>1. /\ made.class = class /\ made.holds = mask
      /\ mask \in Nat /\ word = mask * 64 + Type[class]
  BY WordsAreLarge, SMT DEF Made, stencilMaskOffset
<1>2. /\ word \in Nat /\ word \div 64 = mask
      /\ class = "stencil_vector" => word % 64 = 14
      /\ class = "sys_stencil_vector" => word % 64 = \h2E
  BY <1>1, TypesAndMasks, SMT
<1>3. ~ IsAPointer
  BY <1>1, SMT DEF IsAPointer, PointerClasses, Immediates, Constants, Pointers
<1>4. WordsAreClassified
  <2>1. OfTypes(word, {"any_stencil_vector", class})
    <3>1. CASE class = "stencil_vector"
      BY <1>2, <3>1, TypesOfHeaders
    <3>2. CASE class = "sys_stencil_vector"
      BY <1>2, <3>2, TypesOfHeaders
    <3>. QED
      BY <3>1, <3>2
  <2>2. ClassesOf(made.class, made.holds) = {class, "any_stencil_vector"}
    BY <1>1, ClassesOfEach
  <2>. QED
    BY <1>2, <1>3, <2>1, <2>2, HeadersClassified
<1>5. Decoded
  <2>1. 2^6 = 64
    BY SMT
  <2>2. Sstencil_vector_length(word) = Spopcount(mask)
    BY <1>2, <2>1 DEF Sstencil_vector_length
  <2>. QED
    BY <1>1, <2>2, DecodedUnsized
<1>. QED
  BY <1>4, <1>5

LEMMA PlainObjects == PlainMade => WordsAreClassified /\ Decoded
<1> SUFFICES ASSUME NEW class \in {"mutable_box", "immutable_box", "inexactnum", "exactnum",
                                   "ratnum", "thread", "tlc", "phantom", "rtd_counts"},
                    Made(class, 0, Type[class])
             PROVE  WordsAreClassified /\ Decoded
  BY DEF PlainMade
<1>1. made.class = class /\ word = Type[class]
  BY DEF Made
<1>2. /\ word \in Nat
      /\ class = "mutable_box" => word = \h1E
      /\ class = "immutable_box" => word = \h11E
      /\ class = "inexactnum" => word = \h36
      /\ class = "exactnum" => word = \h56
      /\ class = "ratnum" => word = \h16
      /\ class = "thread" => word = \h5E
      /\ class = "tlc" => word = \hFE
      /\ class = "phantom" => word = \h7E
      /\ class = "rtd_counts" => word = \h9E
  BY <1>1, TypesAndMasks, SMT
<1>3. ~ IsAPointer
  BY <1>1, SMT DEF IsAPointer, PointerClasses, Immediates, Constants, Pointers
<1>4. WordsAreClassified
  <2>1. CASE class \in {"mutable_box", "immutable_box"}
    <3>1. OfTypes(word, {"box", class})
      <4>1. CASE class = "mutable_box"
        BY <1>2, <4>1, TypesOfHeaders
      <4>2. CASE class = "immutable_box"
        BY <1>2, <4>2, TypesOfHeaders
      <4>. QED
        BY <2>1, <4>1, <4>2
    <3>2. ClassesOf(made.class, made.holds) = {class, "box"}
      BY <1>1, <2>1, ClassesOfEach
    <3>. QED
      BY <1>2, <1>3, <3>1, <3>2, HeadersClassified
  <2>2. CASE class \in {"inexactnum", "exactnum", "ratnum"}
    <3>1. OfTypes(word, {class, "other_number"})
      <4>1. CASE class = "inexactnum"
        BY <1>2, <4>1, TypesOfHeaders
      <4>2. CASE class = "exactnum"
        BY <1>2, <4>2, TypesOfHeaders
      <4>3. CASE class = "ratnum"
        BY <1>2, <4>3, TypesOfHeaders
      <4>. QED
        BY <2>2, <4>1, <4>2, <4>3
    <3>2. ClassesOf(made.class, made.holds) = {class, "other_number"}
      BY <1>1, <2>2, ClassesOfEach
    <3>. QED
      BY <1>2, <1>3, <3>1, <3>2, HeadersClassified
  <2>3. CASE class \in {"thread", "tlc", "phantom", "rtd_counts"}
    <3>1. OfTypes(word, {class})
      <4>1. CASE class = "thread"
        BY <1>2, <4>1, TypesOfHeaders
      <4>2. CASE class = "tlc"
        BY <1>2, <4>2, TypesOfHeaders
      <4>3. CASE class = "phantom"
        BY <1>2, <4>3, TypesOfHeaders
      <4>4. CASE class = "rtd_counts"
        BY <1>2, <4>4, TypesOfHeaders
      <4>. QED
        BY <2>3, <4>1, <4>2, <4>3, <4>4
    <3>2. ClassesOf(made.class, made.holds) = {class}
      BY <1>1, <2>3, ClassesOfEach
    <3>. QED
      BY <1>2, <1>3, <3>1, <3>2, HeadersClassified
  <2>. QED
    BY <2>1, <2>2, <2>3
<1>5. Decoded
  BY <1>1, DecodedUnsized
<1>. QED
  BY <1>4, <1>5

LEMMA Records == RecordMade => WordsAreClassified /\ Decoded
<1> SUFFICES ASSUME NEW at \in Contents,
                    Made("record", at * 16, at * 16 + Type["typed_object"])
             PROVE  WordsAreClassified /\ Decoded
  BY DEF RecordMade
<1>1. made.class = "record" /\ word = at * 16 + 7
  BY TypesAndMasks, SMT DEF Made
<1>2. word \in Nat /\ word % 8 = 7
  BY <1>1, ContentsFit, SMT
<1>3. ~ IsAPointer
  BY <1>1, SMT DEF IsAPointer, PointerClasses, Immediates, Constants, Pointers
<1>4. OfTypes(word, {"record"})
  BY <1>2, TypesOfHeaders
<1>5. ClassesOf(made.class, made.holds) = {"record"}
  BY <1>1, ClassesOfEach
<1>6. WordsAreClassified
  BY <1>2, <1>3, <1>4, <1>5, HeadersClassified
<1>7. Decoded
  BY <1>1, DecodedUnsized
<1>. QED
  BY <1>6, <1>7

LEMMA CodeObjects == CodeMade => WordsAreClassified /\ Decoded
<1> SUFFICES ASSUME NEW flags \in SUBSET DOMAIN CodeFlags,
                    Made("code", flags,
                         Type["code"] + 2^code_flags_offset * joined(flags, CodeFlags))
             PROVE  WordsAreClassified /\ Decoded
  BY DEF CodeMade
<1>1. /\ made.class = "code" /\ made.holds = flags
      /\ word = Type["code"] + 2^code_flags_offset * joined(flags, CodeFlags)
  BY DEF Made
<1> DEFINE S == {"code"} \cup {CodeClass[f] : f \in flags \cap DOMAIN CodeClass}
<1>2. word \in Nat /\ OfTypes(word, S)
  BY <1>1, TypesOfCode
<1>3. ClassesOf(made.class, made.holds) = S
  BY <1>1, ClassesOfEach
<1>4. ~ IsAPointer
  BY <1>1, SMT DEF IsAPointer, PointerClasses, Immediates, Constants, Pointers
<1> HIDE DEF S
<1>5. WordsAreClassified
  BY <1>2, <1>3, <1>4, HeadersClassified
<1>6. Decoded
  BY <1>1, DecodedUnsized
<1>. QED
  BY <1>5, <1>6

LEMMA Ports == PortMade => WordsAreClassified /\ Decoded
<1> SUFFICES ASSUME NEW flags \in SUBSET DOMAIN PortFlags,
                    Made("port", flags,
                         Type["port"] + 2^port_flags_offset * joined(flags, port_flag))
             PROVE  WordsAreClassified /\ Decoded
  BY DEF PortMade
<1>1. /\ made.class = "port" /\ made.holds = flags
      /\ word = Type["port"] + 2^port_flags_offset * joined(flags, port_flag)
  BY DEF Made
<1>2. word \in Nat /\ OfTypes(word, PortClasses(flags))
  BY <1>1, TypesOfPorts
<1>3. ClassesOf(made.class, made.holds) = PortClasses(flags)
  BY <1>1, ClassesOfEach
<1>4. ~ IsAPointer
  BY <1>1, SMT DEF IsAPointer, PointerClasses, Immediates, Constants, Pointers
<1>5. WordsAreClassified
  BY <1>2, <1>3, <1>4, HeadersClassified
<1>6. Decoded
  <2>1. \A f \in DOMAIN PortFlags : bit(word, PortFlags[f]) = 1 <=> f \in flags
    BY <1>1, FlagsOfPorts
  <2>2. \A f \in DOMAIN PortFlags : PortFlags[f] \in Places
    BY SMT DEF PortFlags, Places
  <2>3. {f \in DOMAIN PortFlags : matches(word, PortFlags[f], PortFlags[f])} = flags
    BY <1>2, <2>1, <2>2, OneFlag
  <2>. QED
    BY <1>1, <2>3, DecodedUnsized
<1>. QED
  BY <1>5, <1>6

LEMMA WhatIsMadeIsRead == MadeInv => WordsAreClassified /\ Decoded
<1>1. made = Nothing => WordsAreClassified /\ Decoded
  <2> SUFFICES ASSUME made = Nothing PROVE Decoded
    BY DEF WordsAreClassified
  <2>1. made.class = "nothing"
    BY DEF Nothing
  <2>. QED
    BY <2>1, DecodedUnsized
<1>. QED
  BY <1>1, Fixnums, Chars, Booleans, TheConstants, PointersMade, SizedObjects, StencilVectors,
     PlainObjects, Records, CodeObjects, Ports DEF MadeInv

-----------------------------------------------------------------------------
(* The theorems                                                            *)

\* However wide words are, and whatever values are made of the contents that
\* have room in them: by the masks and types of equates.h a word is of the class
\* it was made of and of that class's generalisations, and of no other, and the
\* predicates of scheme.h say the same.
THEOREM EveryWordIsClassified == ChezSpec => []WordsAreClassified
<1>1. MadeInv => WordsAreClassified
  BY WhatIsMadeIsRead
<1>. QED
  BY <1>1, MadeByConstructors, PTL

\* However wide words are: the accessors of scheme.h give back what the
\* constructors of scheme.h and the layouts of equates.h put into a word,
\* numbers at the limits of fixnums, the longest lengths, and each flag of a
\* port by itself.
THEOREM EveryWordIsDecoded == ChezSpec => []Decoded
<1>1. MadeInv => Decoded
  BY WhatIsMadeIsRead
<1>. QED
  BY <1>1, MadeByConstructors, PTL

-----------------------------------------------------------------------------
(* The parts together                                                      *)

allVars == <<subject, vars, chezVars, abiVars>>

\* A behaviour of the parts is one of each of them: the steps of the others,
\* and every step of a part a behaviour is not about, leave a part alone.
LEMMA PartsAreEachPart == PartsSpec => Spec /\ ChezSpec /\ AbiInit /\ [][AbiNext]_abiVars
<1>1. PartsInit => Init /\ ChezInit /\ AbiInit
  BY DEF PartsInit
<1>2. [PartsNext]_<<subject, vars, chezVars, abiVars>> =>
        [Next]_vars /\ [ChezNext]_chezVars /\ [AbiNext]_abiVars
  BY Zenon DEF PartsNext
<1>. QED
  BY <1>1, <1>2, PTL DEF PartsSpec, Spec, ChezSpec

\* Whatever edits lead to a declaration of a struct, and however many: verify!
\* of abi.clj accepts it only if its size is C's and every field that the
\* program sets lies where C reads it; and it accepts the source's.
THEOREM VerifiedFieldsStayInPlace == PartsSpec => []VerifiedFieldsAreInPlace
<1>1. AbiInit /\ [][AbiNext]_abiVars => []AbiInv
  BY AbiInvInit, AbiInvNext, PTL
<1>. QED
  BY <1>1, PartsAreEachPart, VerifiedIsInPlace, PTL

\* The parts have no state in common: what is proved of the gallery's frames and
\* of the words of the C probe holds in the behaviours of all parts.
THEOREM PartsKeepTheirProperties ==
  ASSUME SameScale
  PROVE  PartsSpec => /\ []SceneStateFits /\ []PressedSceneStays /\ []TrailKeepsClearOfBack
                      /\ []LayoutIsSound /\ ImplementsGallery
                      /\ []WordsAreClassified /\ []Decoded
BY PartsAreEachPart, SceneStatesFit, PressedScenesStay, TrailKeepsClear, LayoutStaysSound,
   FramesImplementGallery, EveryWordIsClassified, EveryWordIsDecoded, PTL
=============================================================================
