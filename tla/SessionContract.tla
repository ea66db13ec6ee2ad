-------------------------- MODULE SessionContract --------------------------
(***************************************************************************)
(* What docs/adr/0002-single-jolt-runtime-thread.md asks of the native     *)
(* session of a process, without the flags, pointers and lock that provide *)
(* it: one thread opens it, only that thread runs exports, one at a time,  *)
(* it is closed once between two exports, and it is never opened again.    *)
(***************************************************************************)
CONSTANTS Threads, NoThread

VARIABLES
  phase,   \* "fresh", "opening", "open", "failed" or "closed"
  owner,   \* the thread that opened the session
  busy,    \* the threads that are running an export
  dead     \* the process has crashed in native code

contractVars == <<phase, owner, busy, dead>>

Init ==
  /\ phase = "fresh"
  /\ owner = NoThread
  /\ busy = {}
  /\ dead = FALSE

Claim(t) ==
  /\ phase = "fresh"
  /\ phase' = "opening"
  /\ owner' = t
  /\ UNCHANGED <<busy, dead>>

Move(from, to) ==
  /\ phase = from
  /\ busy = {}
  /\ phase' = to
  /\ UNCHANGED <<owner, busy, dead>>

Enter ==
  /\ phase = "open"
  /\ busy = {}
  /\ busy' = {owner}
  /\ UNCHANGED <<phase, owner, dead>>

Leave ==
  /\ phase = "open"
  /\ busy = {owner}
  /\ busy' = {}
  /\ UNCHANGED <<phase, owner, dead>>

\* Only a session whose opening failed may take the process down.
Crash ==
  /\ phase = "failed"
  /\ dead' = TRUE
  /\ UNCHANGED <<phase, owner, busy>>

Next ==
  /\ ~dead
  /\ \/ \E t \in Threads : Claim(t)
     \/ Move("opening", "open")
     \/ Move("opening", "failed")
     \/ Enter
     \/ Leave
     \/ Move("open", "closed")
     \/ Crash

Spec == Init /\ [][Next]_contractVars
=============================================================================
