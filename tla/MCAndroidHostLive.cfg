\* Two activities in one process: a recreation, or a relaunch while the old one
\* is still stopping.  Two debug clients: one that stays silent and one whose form
\* never returns; no button, no return.
CONSTANTS
  MaxActivities = 2
  MaxMoves = 0
  MaxInputs = 2
  Buttons = {}
  Requests = {1, 2}
  Endless = {2}
  Silent = {1}
SPECIFICATION FairSpec
CHECK_DEADLOCK FALSE
PROPERTIES
  DestroyedActivitiesEnd
  ClientsAreAnswered
  QueuesDrain
