\* The permission button, and an answered dialog.
CONSTANTS
  MaxActivities = 2
  MaxMoves = 1
  MaxInputs = 1
  Buttons = {"permission/request-notifications"}
  Requests = {}
  Endless = {}
  Silent = {}
SPECIFICATION FairSpec
CHECK_DEADLOCK FALSE
PROPERTY ResultEventsAreQueued
