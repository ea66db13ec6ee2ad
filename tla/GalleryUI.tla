----------------------------- MODULE GalleryUI -----------------------------
(***************************************************************************)
(* The gallery's geometry in pixels: the sizes of diagnostics/layout, the  *)
(* cards, the Back target and the counter controls of gallery_ui.cljc, and *)
(* what a point hits.  A screen is <<width, height>>, both at least 1      *)
(* (screen-metrics); colours, titles and the DPI scale are left out.       *)
(***************************************************************************)
EXTENDS Integers, Sequences

larger(a, b)  == IF a >= b THEN a ELSE b
smaller(a, b) == IF a <= b THEN a ELSE b

\* quot truncates toward zero.
quot(a, b) == IF a >= 0 THEN a \div b ELSE -((-a) \div b)

\* diagnostics/screen-metrics, of the width and height Raylib reports.
screenMetrics(width, height) == <<larger(1, width), larger(1, height)>>

\* diagnostics/layout
margin(screen)    == larger(16, smaller(screen[1], screen[2]) \div 30)
titleSize(screen) == larger(24, smaller(screen[1], screen[2]) \div 18)
bodySize(screen)  == larger(16, titleSize(screen) \div 2)
lineGap(screen)   == bodySize(screen) + larger(8, bodySize(screen) \div 2)

gap(screen) == larger(12, margin(screen) \div 2)

-----------------------------------------------------------------------------
(* gallery-layout: count cards in columns and rows between a header and a  *)
(* footer.  index is the card's place, from 0.                             *)
columnsFor(screen) == IF screen[1] * 3 >= screen[2] * 2 THEN 3 ELSE 2

rowsFor(screen, count) == (count + columnsFor(screen) - 1) \div columnsFor(screen)

rectangle(x, y, width, height) ==
  [x |-> x, y |-> y, width |-> larger(1, width), height |-> larger(1, height)]

\* Mutant: the lines of the header are forgotten.
cardsYWithoutLines(screen) == margin(screen) + titleSize(screen)

cardsY(screen)      == margin(screen) + titleSize(screen) + 2 * lineGap(screen)
footerSpace(screen) == margin(screen) + 2 * lineGap(screen) + bodySize(screen)

\* Mutant: the margin is kept on the left only.
cardWidthToTheEdge(screen) ==
  quot(screen[1] - margin(screen) - (columnsFor(screen) - 1) * gap(screen), columnsFor(screen))

cardWidth(screen) ==
  quot(screen[1] - 2 * margin(screen) - (columnsFor(screen) - 1) * gap(screen),
       columnsFor(screen))

cardHeight(screen, count) ==
  LET rows == rowsFor(screen, count)
  IN  quot(screen[2] - cardsY(screen) - footerSpace(screen) - (rows - 1) * gap(screen), rows)

Card(screen, count, index) ==
  LET column == index % columnsFor(screen)
      row    == index \div columnsFor(screen)
  IN  rectangle(margin(screen) + column * (cardWidth(screen) + gap(screen)),
                cardsY(screen) + row * (cardHeight(screen, count) + gap(screen)),
                cardWidth(screen), cardHeight(screen, count))

BackTarget(screen) ==
  rectangle(margin(screen), margin(screen), larger(260, 10 * bodySize(screen)),
            larger(48, bodySize(screen) + margin(screen)))

\* counter-controls: decrement, increment and reset, from the left.
ControlActions == <<"decrement", "increment", "reset">>

Control(screen, index) ==
  LET width == quot(screen[1] - 2 * margin(screen) - 2 * gap(screen), 3)
  IN  [x |-> margin(screen) + (index - 1) * (width + gap(screen)),
       y |-> screen[2] - (margin(screen) + 2 * lineGap(screen) + bodySize(screen)),
       width |-> width, height |-> bodySize(screen) + margin(screen)]

-----------------------------------------------------------------------------
containsPoint(rect, point) ==
  /\ rect.x <= point[1] /\ point[1] < rect.x + rect.width
  /\ rect.y <= point[2] /\ point[2] < rect.y + rect.height

\* The first of n rectangles that holds the point, 0 if none does.
FirstHit(n, Rect(_), point) ==
  IF \E i \in 1..n : containsPoint(Rect(i), point)
  THEN CHOOSE i \in 1..n : /\ containsPoint(Rect(i), point)
                           /\ \A j \in 1..(i - 1) : ~containsPoint(Rect(j), point)
  ELSE 0

\* hit-test: what a point hits in a mode; without a point, nothing.
hitTest(screen, sceneIds, point, mode) ==
  IF point = <<>> THEN "none"
  ELSE IF mode = "scene"
       THEN IF containsPoint(BackTarget(screen), point) THEN "back" ELSE "none"
       ELSE LET i == FirstHit(Len(sceneIds),
                              LAMBDA k : Card(screen, Len(sceneIds), k - 1), point)
            IN  IF i = 0 THEN "none" ELSE sceneIds[i]

hitTestControls(screen, point) ==
  LET i == FirstHit(3, LAMBDA k : Control(screen, k), point)
  IN  IF i = 0 THEN "none" ELSE ControlActions[i]

-----------------------------------------------------------------------------
(* What the layout promises                                                *)
Disjoint(p, q) ==
  \/ p.x + p.width <= q.x \/ q.x + q.width <= p.x
  \/ p.y + p.height <= q.y \/ q.y + q.height <= p.y

Within(rect, left, top, right, bottom) ==
  /\ left <= rect.x /\ rect.x + rect.width <= right
  /\ top <= rect.y /\ rect.y + rect.height <= bottom

\* The cards of a gallery keep clear of each other, of the header, the footer
\* and the margins, and of where a scene has its Back target.
CardsAreSound(screen, count) ==
  \A i \in 0..(count - 1) :
    /\ Within(Card(screen, count, i), margin(screen), cardsY(screen),
              screen[1] - margin(screen), screen[2] - footerSpace(screen))
    /\ Disjoint(Card(screen, count, i), BackTarget(screen))
    /\ \A j \in 0..(count - 1) : i # j => Disjoint(Card(screen, count, i), Card(screen, count, j))

\* The counter's controls keep clear of each other, of the margins, of the
\* footer line and of the Back target.
ControlsAreSound(screen) ==
  \A i \in 1..3 :
    /\ Within(Control(screen, i), margin(screen), margin(screen), screen[1] - margin(screen),
              screen[2] - (margin(screen) + lineGap(screen)))
    /\ Disjoint(Control(screen, i), BackTarget(screen))
    /\ \A j \in 1..3 : i # j => Disjoint(Control(screen, i), Control(screen, j))
=============================================================================
