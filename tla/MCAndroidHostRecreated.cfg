\* Two activities in one process: a recreation, or a relaunch while the old one
\* is still stopping.  No button, no debug client.
CONSTANTS
  MaxActivities = 2
  MaxMoves = 0
  MaxInputs = 0
  Buttons = {}
  Requests = {}
  Endless = {}
  Silent = {}
SPECIFICATION Spec
CHECK_DEADLOCK FALSE
INVARIANT OneRuntimeThread
