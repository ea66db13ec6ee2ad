\* Two activities in one process: a recreation, or a relaunch while the old one
\* is still stopping.  Two inputs of any kind: a press of one of two buttons, the
\* return of a paused or stopped activity, a debug client.
CONSTANTS
  MaxActivities = 2
  MaxMoves = 2
  MaxInputs = 2
  Buttons = {"counter/inc", "permission/request-notifications"}
  Requests = {1, 2}
  Endless = {}
  Silent = {}
SPECIFICATION Spec
CHECK_DEADLOCK FALSE
INVARIANTS
  ModelFollowsOwner
  ClosedAfterLastEvent
  AnswersMatchRequests
