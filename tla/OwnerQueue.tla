----------------------------- MODULE OwnerQueue -----------------------------
(***************************************************************************)
(* The debug work queue between nREPL workers and the Raylib frame owner:  *)
(* the pure state of raylib/src/poc/raylib/repl_queue.cljc in the atom     *)
(* owner-work, and its users in raylib/android-loop/src/poc/raylib/loop.clj.*)
(* Both sides read a snapshot of the atom, compute the next state from it  *)
(* and compare-and-set it; those are separate steps, so that any number of *)
(* workers and the owner interleave between them.                          *)
(***************************************************************************)
EXTENDS Naturals, Sequences, FiniteSets

CONSTANTS
  Clients,      \* nREPL workers
  MaxPending,   \* max-pending
  MaxResults,   \* max-results
  MaxRequests,  \* bound: calls of submit-owner! over the run
  Throwing      \* the request ids whose work throws

ASSUME QueueAssumption ==
  /\ MaxPending \in Nat \ {0}
  /\ MaxResults \in Nat \ {0}
  /\ MaxRequests \in Nat

VARIABLES
  queue,        \* the atom owner-work
  sequence,     \* the atom owner-request-sequence
  pc,           \* where each worker is: "idle", "read" or "swap"
  id,           \* the request-id of each worker's call
  before,       \* the snapshot each worker took
  loop,         \* the owner: "frame", "poll", "take", "work" or "stopped"
  ownerBefore,  \* the owner's snapshot
  accepted,     \* history: the requests enqueued, in order
  taken         \* history: the requests the owner took, in order

clientVars == <<sequence, pc, id, before>>
ownerVars  == <<loop, ownerBefore>>
vars       == <<queue, clientVars, ownerVars, accepted, taken>>

Ids == 1..MaxRequests

-----------------------------------------------------------------------------
(* repl_queue.cljc                                                         *)
initialState == [pending |-> <<>>, results |-> <<>>, resultOrder |-> <<>>]

Full(state) == Len(state.pending) >= MaxPending

enqueue(state, request) == [state EXCEPT !.pending = Append(@, request)]

takeNext(state) == [state EXCEPT !.pending = Tail(@)]

Elements(s) == {s[i] : i \in DOMAIN s}

\* Mutant: the newest results are evicted.
dropNewest(order) == IF Len(order) > MaxResults THEN Len(order) - 1 ELSE 0

\* How many of the oldest results are evicted, past MaxResults.
Excess(order) == IF Len(order) > MaxResults THEN Len(order) - MaxResults ELSE 0

\* complete: store the result and evict the oldest beyond the limit.
complete(state, request, status) ==
  LET known    == request \in DOMAIN state.results
      order    == IF known THEN state.resultOrder ELSE Append(state.resultOrder, request)
      retained == SubSeq(order, Excess(order) + 1, Len(order))
      evicted  == Elements(SubSeq(order, 1, Excess(order)))
      all      == DOMAIN state.results \union {request}
  IN  [state EXCEPT
         !.resultOrder = retained,
         !.results = [r \in all \ evicted |->
                        IF r = request THEN status ELSE state.results[r]]]

-----------------------------------------------------------------------------
Init ==
  /\ queue = initialState
  /\ sequence = 0
  /\ pc = [c \in Clients |-> "idle"]
  /\ id = [c \in Clients |-> 0]
  /\ before = [c \in Clients |-> initialState]
  /\ loop = "frame"
  /\ ownerBefore = initialState
  /\ accepted = <<>>
  /\ taken = <<>>

(* submit-owner!, on any nREPL worker.                                     *)

\* Mutant: the id counts what is in the queue instead of what was submitted.
DrawCountedId(c) ==
  /\ pc[c] = "idle"
  /\ sequence < MaxRequests
  /\ sequence' = sequence + 1
  /\ id' = [id EXCEPT ![c] = Len(queue.pending) + Len(queue.resultOrder) + 1]
  /\ pc' = [pc EXCEPT ![c] = "read"]
  /\ UNCHANGED <<queue, before, ownerVars, accepted, taken>>

\* The id is drawn before it is known whether there is room.
DrawId(c) ==
  /\ pc[c] = "idle"
  /\ sequence < MaxRequests
  /\ sequence' = sequence + 1
  /\ id' = [id EXCEPT ![c] = sequence']
  /\ pc' = [pc EXCEPT ![c] = "read"]
  /\ UNCHANGED <<queue, before, ownerVars, accepted, taken>>

\* {:status :queue-full} needs no compare-and-set.
ReadQueue(c) ==
  /\ pc[c] = "read"
  /\ before' = [before EXCEPT ![c] = queue]
  /\ pc' = [pc EXCEPT ![c] = IF Full(queue) THEN "idle" ELSE "swap"]
  /\ UNCHANGED <<queue, sequence, id, ownerVars, accepted, taken>>

\* Mutant: reset! instead of compare-and-set!.
EnqueueBlindly(c) ==
  /\ pc[c] = "swap"
  /\ queue' = enqueue(before[c], id[c])
  /\ accepted' = Append(accepted, id[c])
  /\ pc' = [pc EXCEPT ![c] = "idle"]
  /\ UNCHANGED <<sequence, id, before, ownerVars, taken>>

\* {:status :queued}
Enqueue(c) ==
  /\ pc[c] = "swap"
  /\ queue = before[c]
  /\ queue' = enqueue(before[c], id[c])
  /\ accepted' = Append(accepted, id[c])
  /\ pc' = [pc EXCEPT ![c] = "idle"]
  /\ UNCHANGED <<sequence, id, before, ownerVars, taken>>

RetryEnqueue(c) ==
  /\ pc[c] = "swap"
  /\ queue # before[c]
  /\ pc' = [pc EXCEPT ![c] = "read"]
  /\ UNCHANGED <<queue, sequence, id, before, ownerVars, accepted, taken>>

(* process-one-owner-request!, once in each frame of run-loop.             *)

\* Mutant: no request is taken while the results are full.
PollWhileRoom ==
  /\ loop = "frame"
  /\ Len(queue.resultOrder) < MaxResults
  /\ loop' = "poll"
  /\ UNCHANGED <<queue, clientVars, ownerBefore, accepted, taken>>

NextFrame ==
  /\ loop = "frame"
  /\ loop' = "poll"
  /\ UNCHANGED <<queue, clientVars, ownerBefore, accepted, taken>>

ReadPending ==
  /\ loop = "poll"
  /\ ownerBefore' = queue
  /\ loop' = IF queue.pending = <<>> THEN "frame" ELSE "take"
  /\ UNCHANGED <<queue, clientVars, accepted, taken>>

\* Mutant: reset! instead of compare-and-set!.
TakeBlindly ==
  /\ loop = "take"
  /\ queue' = takeNext(ownerBefore)
  /\ taken' = Append(taken, Head(ownerBefore.pending))
  /\ loop' = "work"
  /\ UNCHANGED <<clientVars, ownerBefore, accepted>>

Take ==
  /\ loop = "take"
  /\ queue = ownerBefore
  /\ queue' = takeNext(ownerBefore)
  /\ taken' = Append(taken, Head(ownerBefore.pending))
  /\ loop' = "work"
  /\ UNCHANGED <<clientVars, ownerBefore, accepted>>

RetryTake ==
  /\ loop = "take"
  /\ queue # ownerBefore
  /\ loop' = "poll"
  /\ UNCHANGED <<queue, clientVars, ownerBefore, accepted, taken>>

\* The work returns or throws, and its result is swapped in, onto whatever the
\* queue has become while it ran.
StatusOf(request) == IF request \in Throwing THEN "error" ELSE "ok"

\* Mutant: the result is merged into the snapshot the request was taken from.
CompleteSnapshot ==
  /\ loop = "work"
  /\ LET request == taken[Len(taken)]
     IN  queue' = complete(takeNext(ownerBefore), request, StatusOf(request))
  /\ loop' = "frame"
  /\ UNCHANGED <<clientVars, ownerBefore, accepted, taken>>

Complete ==
  /\ loop = "work"
  /\ LET request == taken[Len(taken)]
     IN  queue' = complete(queue, request, StatusOf(request))
  /\ loop' = "frame"
  /\ UNCHANGED <<clientVars, ownerBefore, accepted, taken>>

\* run-loop returns: its time is over, or Back was pressed in the gallery.
Stop ==
  /\ loop = "frame"
  /\ loop' = "stopped"
  /\ UNCHANGED <<queue, clientVars, ownerBefore, accepted, taken>>

-----------------------------------------------------------------------------
ClientStep(c) == DrawId(c) \/ ReadQueue(c) \/ Enqueue(c) \/ RetryEnqueue(c)

FrameStep == NextFrame \/ ReadPending \/ Take \/ RetryTake \/ Complete

Next == (\E c \in Clients : ClientStep(c)) \/ FrameStep \/ Stop

Spec == Init /\ [][Next]_vars

\* The owner's loop goes on from frame to frame; owner work is short, as
\* submit-owner! asks.  Workers owe nothing, and the loop need not stop.
FairSpec == Spec /\ WF_vars(FrameStep)

-----------------------------------------------------------------------------
States ==
  [pending : Seq(Ids), results : UNION {[S -> {"ok", "error"}] : S \in SUBSET Ids},
   resultOrder : Seq(Ids)]

TypeOK ==
  /\ queue \in States
  /\ sequence \in 0..MaxRequests
  /\ pc \in [Clients -> {"idle", "read", "swap"}]
  /\ id \in [Clients -> 0..MaxRequests]
  /\ before \in [Clients -> States]
  /\ loop \in {"frame", "poll", "take", "work", "stopped"}
  /\ ownerBefore \in States
  /\ accepted \in Seq(Ids)
  /\ taken \in Seq(Ids)

\* Every accepted request is taken once, in the order of acceptance: what was
\* taken, followed by what is pending, is what was accepted.  No snapshot that
\* has gone stale ever overwrites an enqueue or a take of another thread
\* (compare-and-set! in submit-owner! and take-owner-request!).
ExecutedInOrder == accepted = taken \o queue.pending

\* The requests whose work has ended.
Completed == IF loop = "work" THEN SubSeq(taken, 1, Len(taken) - 1) ELSE taken

Newest(order) == SubSeq(order, Excess(order) + 1, Len(order))

\* owner-result finds exactly the results of the newest MaxResults completed
\* requests, each with its own status; a stored result is not lost to an
\* enqueue that was under way while it was stored (complete).
NewestResultsKept ==
  /\ queue.resultOrder = Newest(Completed)
  /\ queue.results = [r \in Elements(Newest(Completed)) |-> StatusOf(r)]

\* Racing workers never share an id, and an accepted one is not submitted again.
IdsAreUnique ==
  /\ \A c \in Clients : pc[c] # "idle" => id[c] \notin Elements(accepted)
  /\ \A c, d \in Clients : pc[c] # "idle" /\ pc[d] # "idle" /\ c # d => id[c] # id[d]

-----------------------------------------------------------------------------
(* What makes these inductive: the ids in use were drawn, accepted ones    *)
(* differ, and a snapshot that may be swapped was worth swapping.          *)
Distinct(s) == \A i, j \in DOMAIN s : s[i] = s[j] => i = j

IdsWereDrawn ==
  /\ Elements(accepted) \subseteq 1..sequence
  /\ \A c \in Clients : pc[c] # "idle" => id[c] \in 1..sequence
  /\ Distinct(accepted)

SnapshotsAllowTheStep ==
  /\ \A c \in Clients : pc[c] = "swap" => ~Full(before[c])
  /\ loop = "take" => ownerBefore.pending # <<>>
  /\ loop = "work" => taken # <<>>

\* Neither the pending requests nor the results ever exceed their limit, with
\* any number of workers past the check for room at once.
Bounded ==
  /\ Len(queue.pending) <= MaxPending
  /\ Len(queue.resultOrder) <= MaxResults

QueueInv ==
  /\ TypeOK
  /\ ExecutedInOrder
  /\ NewestResultsKept
  /\ IdsAreUnique
  /\ IdsWereDrawn
  /\ SnapshotsAllowTheStep
  /\ Bounded

\* An accepted request is executed unless the loop stops: the owner's retries
\* end, because once the queue is full no worker changes it any more.
QueuedIsExecuted ==
  \A r \in Ids : (r \in Elements(accepted)) ~> (r \in Elements(Completed) \/ loop = "stopped")

Executor == INSTANCE BoundedExecutor
              WITH Requests  <- Ids,
                   submitted <- Elements(accepted),
                   waiting   <- queue.pending,
                   running   <- IF loop = "work" THEN <<taken[Len(taken)]>> ELSE <<>>,
                   kept      <- queue.resultOrder

\* With its snapshots and retries the queue implements the executor that the
\* documentation describes.
ImplementsExecutor == Executor!Spec
=============================================================================
