\* Lengths are those of the code in steps of twenty pixels; a clamped frame
\* scrolls four times as far as the code's, which is the harder case.
CONSTANTS
  Screens <- MCScreens
  BirdX = 7
  BirdRadius = 1
  PipeWidth = 3
  GapHeight = 9
  PipeSpacing = 12
  EdgeMargin = 4
  HalfGravity = 1
  FlapSpeed = 4
  ScrollSpeed = 1
  MaxDelta = 2
  Deltas = {0, 1, 2, 40}
  MaxScore = 4
SPECIFICATION Spec
CHECK_DEADLOCK FALSE
INVARIANTS
  PipesKeepApart
  ScoreCountsPipes
  NoTunnelling
  PartitionsAgree
