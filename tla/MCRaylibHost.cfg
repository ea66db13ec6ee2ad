\* Every native program; in the gallery two scenes, every input in every frame
\* and a debug session that submits three owner requests to a queue of two.
CONSTANTS
  s1 = s1
  s2 = s2
  Scenes = {s1, s2}
  MaxFrames = 5
  MaxPending = 2
  MaxResults = 1
  Requests = {1, 2, 3}
SPECIFICATION FairSpec
CHECK_DEADLOCK FALSE
INVARIANTS
  ScenesArePaired
  OrderlyCloseDisposes
  HostInv
  EndIsClean
PROPERTIES
  ProcessEnds
