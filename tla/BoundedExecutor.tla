--------------------------- MODULE BoundedExecutor ---------------------------
(***************************************************************************)
(* What the documentation of the Raylib owner queue promises the users of  *)
(* a debug session (experiments/RAY-017-android-raylib-nrepl/README.md):   *)
(* at most MaxPending requests wait, they run one at a time in the order   *)
(* of their submission, each of them once, and the results of the          *)
(* MaxResults newest are kept.  There are no snapshots, no                 *)
(* compare-and-set and no frames.                                          *)
(***************************************************************************)
EXTENDS Naturals, Sequences

CONSTANTS Requests, MaxPending, MaxResults

VARIABLES
  submitted,  \* the requests accepted so far
  waiting,    \* the requests that have not been started, oldest first
  running,    \* the request that runs, as a sequence of at most one
  kept        \* the requests whose results are kept, oldest first

executorVars == <<submitted, waiting, running, kept>>

Init ==
  /\ submitted = {}
  /\ waiting = <<>>
  /\ running = <<>>
  /\ kept = <<>>

Submit(request) ==
  /\ request \notin submitted
  /\ Len(waiting) < MaxPending
  /\ submitted' = submitted \union {request}
  /\ waiting' = Append(waiting, request)
  /\ UNCHANGED <<running, kept>>

Start ==
  /\ waiting # <<>>
  /\ running = <<>>
  /\ running' = <<Head(waiting)>>
  /\ waiting' = Tail(waiting)
  /\ UNCHANGED <<submitted, kept>>

Finish ==
  /\ running # <<>>
  /\ running' = <<>>
  /\ kept' = IF Len(kept) < MaxResults THEN kept \o running ELSE Tail(kept) \o running
  /\ UNCHANGED <<submitted, waiting>>

Next == (\E request \in Requests : Submit(request)) \/ Start \/ Finish

Spec == Init /\ [][Next]_executorVars
=============================================================================
