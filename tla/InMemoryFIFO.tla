---------------------------- MODULE InMemoryFIFO ----------------------------
(***************************************************************************)
(* The in-memory queue (internal/queue/fifo_queue.go) at the level of its  *)
(* mutex and condition variable, with the one consumer the program gives   *)
(* it, processLoop (internal/queue/worker.go), and any producers.          *)
(*                                                                         *)
(* Every other operation is one critical section of mu.  Dequeue is not:   *)
(* notEmpty.Wait releases mu, and the goroutine it starts in each turn of  *)
(* its loop, which waits for the context and then signals, never takes mu. *)
(* That goroutine is called the watcher of the turn.                       *)
(***************************************************************************)
EXTENDS Integers, FiniteSets, SequencesExt

CONSTANTS
    Ids,       \* items, each enqueued at most once
    MaxSize    \* capacity

ASSUME FIFOAssumption == IsFiniteSet(Ids) /\ MaxSize \in Nat \ {0}

VARIABLES
    items,      \* the slice, of [id, ready]
    loop,       \* where processLoop is
    watcher,    \* the watcher of the current turn
    leftover,   \* watchers of earlier turns that still wait for the context
    ctxDone     \* the context is cancelled

\* History: the ids accepted by Enqueue, and those that have left the queue.
VARIABLES accepted, left

vars == <<items, loop, watcher, leftover, ctxDone, accepted, left>>

Items == [id : Ids, ready : BOOLEAN]

Queued == {items[i].id : i \in DOMAIN items}

Init ==
    /\ items = <<>>
    /\ loop = "top"
    /\ watcher = "none"
    /\ leftover = 0
    /\ ctxDone = FALSE
    /\ accepted = {}
    /\ left = {}

\* processLoop holds mu: between Lock and Wait, and after Wait.
Held == loop \in {"scan", "arming", "woken"}

\* sync.Cond.Signal: wakes the consumer if it is in the notify list, and is
\* forgotten otherwise.
Signalled == IF loop = "parked" THEN "relock" ELSE loop

-----------------------------------------------------------------------------
(* Producers and the other operations.                                     *)

\* Mutant of Enqueue: no signal for an item that is not ready yet.
EnqueueQuietly(x, ready) ==
    /\ ~Held
    /\ x \notin accepted
    /\ Len(items) < MaxSize
    /\ items' = Append(items, [id |-> x, ready |-> ready])
    /\ accepted' = accepted \cup {x}
    /\ loop' = IF ready THEN Signalled ELSE loop
    /\ UNCHANGED <<watcher, leftover, ctxDone, left>>

\* Mutant of Enqueue: the capacity test lets one item too many in.
EnqueueOneTooMany(x, ready) ==
    /\ ~Held
    /\ x \notin accepted
    /\ Len(items) <= MaxSize
    /\ items' = Append(items, [id |-> x, ready |-> ready])
    /\ accepted' = accepted \cup {x}
    /\ loop' = Signalled
    /\ UNCHANGED <<watcher, leftover, ctxDone, left>>

\* Enqueue of a new request, or of a refused one with ProcessAfter set.  A full
\* queue changes nothing.
Enqueue(x, ready) ==
    /\ ~Held
    /\ x \notin accepted
    /\ Len(items) < MaxSize
    /\ items' = Append(items, [id |-> x, ready |-> ready])
    /\ accepted' = accepted \cup {x}
    /\ loop' = Signalled
    /\ UNCHANGED <<watcher, leftover, ctxDone, left>>

\* The delay of an item ends.
Ripen(i) ==
    /\ ~items[i].ready
    /\ items' = [items EXCEPT ![i].ready = TRUE]
    /\ UNCHANGED <<loop, watcher, leftover, ctxDone, accepted, left>>

\* cleanupExpired keeps the items at kept[1] < ... < kept[n]; see Balancer.
CleanupExpired ==
    /\ ~Held
    /\ \E n \in 0 .. Len(items) - 1 : \E kept \in [1 .. n -> DOMAIN items] :
         /\ \A i, j \in 1 .. n : i < j => kept[i] < kept[j]
         /\ items' = [i \in 1 .. n |-> items[kept[i]]]
         /\ left' = left \cup {items[k].id : k \in {k \in DOMAIN items : \A i \in 1 .. n : kept[i] # k}}
    /\ UNCHANGED <<loop, watcher, leftover, ctxDone, accepted>>

\* Mutant of Clear: it signals, like Enqueue.
ClearSignals ==
    /\ ~Held
    /\ items' = <<>>
    /\ left' = left \cup Queued
    /\ loop' = Signalled
    /\ UNCHANGED <<watcher, leftover, ctxDone, accepted>>

Clear ==
    /\ ~Held
    /\ items' = <<>>
    /\ left' = left \cup Queued
    /\ UNCHANGED <<loop, watcher, leftover, ctxDone, accepted>>

-----------------------------------------------------------------------------
(* processLoop and Dequeue.                                                *)

Top ==
    /\ loop = "top"
    /\ loop' = IF ctxDone THEN "exited" ELSE "lock"
    /\ UNCHANGED <<items, watcher, leftover, ctxDone, accepted, left>>

Lock ==
    /\ loop = "lock"
    /\ loop' = "scan"
    /\ UNCHANGED <<items, watcher, leftover, ctxDone, accepted, left>>

\* Nothing to take: a watcher is started for this turn.
StartWatcher ==
    /\ loop = "scan"
    /\ items = <<>>
    /\ watcher' = "armed"
    /\ loop' = "arming"
    /\ UNCHANGED <<items, leftover, ctxDone, accepted, left>>

\* Wait joins the notify list and releases mu.
Park ==
    /\ loop = "arming"
    /\ loop' = "parked"
    /\ UNCHANGED <<items, watcher, leftover, ctxDone, accepted, left>>

Relock ==
    /\ loop = "relock"
    /\ loop' = "woken"
    /\ UNCHANGED <<items, watcher, leftover, ctxDone, accepted, left>>

\* After Wait: return ctx.Err() if done is closed, else look at the queue again.
\* Either way this turn's watcher is abandoned.
CheckDone ==
    /\ loop = "woken"
    /\ loop' = IF watcher = "closed" THEN "top" ELSE "scan"
    /\ leftover' = IF watcher = "armed" THEN leftover + 1 ELSE leftover
    /\ watcher' = "none"
    /\ UNCHANGED <<items, ctxDone, accepted, left>>

\* Dequeue returns the first item that is ready.
Take ==
    /\ loop = "scan"
    /\ \E k \in DOMAIN items :
         /\ items[k].ready
         /\ \A i \in DOMAIN items : i < k => ~items[i].ready
         /\ items' = RemoveAt(items, k)
         /\ left' = left \cup {items[k].id}
    /\ loop' = "top"
    /\ UNCHANGED <<watcher, leftover, ctxDone, accepted>>

\* Mutant of NoneReady: the consumer blocks, as on an empty queue.
NoneReadyParks ==
    /\ loop = "scan"
    /\ items # <<>>
    /\ \A i \in DOMAIN items : ~items[i].ready
    /\ watcher' = "armed"
    /\ loop' = "arming"
    /\ UNCHANGED <<items, leftover, ctxDone, accepted, left>>

\* Dequeue returns ErrQueueEmpty, and processLoop polls.
NoneReady ==
    /\ loop = "scan"
    /\ items # <<>>
    /\ \A i \in DOMAIN items : ~items[i].ready
    /\ loop' = "top"
    /\ UNCHANGED <<items, watcher, leftover, ctxDone, accepted, left>>

-----------------------------------------------------------------------------
(* The context and the watchers.                                           *)

Cancel ==
    /\ ~ctxDone
    /\ ctxDone' = TRUE
    /\ UNCHANGED <<items, loop, watcher, leftover, accepted, left>>

\* The current watcher signals, without mu ...
WatcherSignals ==
    /\ ctxDone
    /\ watcher = "armed"
    /\ watcher' = "signalled"
    /\ loop' = Signalled
    /\ UNCHANGED <<items, leftover, ctxDone, accepted, left>>

\* ... and only then closes done.
WatcherCloses ==
    /\ watcher = "signalled"
    /\ watcher' = "closed"
    /\ UNCHANGED <<items, loop, leftover, ctxDone, accepted, left>>

\* A watcher of an earlier turn signals; nobody reads its done any more.
LeftoverSignals ==
    /\ ctxDone
    /\ leftover > 0
    /\ leftover' = leftover - 1
    /\ loop' = Signalled
    /\ UNCHANGED <<items, watcher, ctxDone, accepted, left>>

-----------------------------------------------------------------------------
DequeueStep ==
    Top \/ Lock \/ StartWatcher \/ Park \/ Relock \/ CheckDone \/ Take \/ NoneReady

WatcherStep == WatcherSignals \/ WatcherCloses \/ LeftoverSignals

Next ==
    \/ \E x \in Ids, ready \in BOOLEAN : Enqueue(x, ready)
    \/ \E i \in DOMAIN items : Ripen(i)
    \/ CleanupExpired
    \/ Clear
    \/ DequeueStep
    \/ Cancel
    \/ WatcherStep

Spec == Init /\ [][Next]_vars

\* The goroutines run, and delays end.  No producer, expiry or cancellation is
\* assumed.
Fairness ==
    /\ WF_vars(DequeueStep)
    /\ WF_vars(WatcherSignals) /\ WF_vars(WatcherCloses) /\ WF_vars(LeftoverSignals)
    /\ \A x \in Ids : WF_vars(\E i \in DOMAIN items : items[i].id = x /\ Ripen(i))

FairSpec == Spec /\ Fairness

-----------------------------------------------------------------------------
TypeOK ==
    /\ items \in Seq(Items) /\ Len(items) <= MaxSize
    /\ loop \in {"top", "lock", "scan", "arming", "parked", "relock", "woken", "exited"}
    /\ watcher \in {"none", "armed", "signalled", "closed"}
    /\ leftover \in Nat
    /\ ctxDone \in BOOLEAN
    /\ accepted \subseteq Ids
    /\ left \subseteq Ids

\* The wake-up of Enqueue (line 198) is never lost: the consumer does not sleep
\* while there is an item, ready or delayed, though its test for emptiness (line
\* 208) and its going to sleep (line 217) are separate steps.
NoLostWakeup == loop = "parked" => items = <<>>

\* Before a shutdown the consumer wakes only for an item, so the watchers it
\* abandons (lines 210-214) are at most one for each item ever accepted.  There
\* is no smaller bound: each is a goroutine kept until the context ends.
LeakPerItem == ~ctxDone => leftover <= Cardinality(accepted)

\* An item in the queue is taken in the end, unless it expires, is cleared, or
\* the service is shut down.
EventuallyTaken == \A x \in Ids : x \in Queued ~> x \in left \/ ctxDone

\* "Wake up the waiting goroutine" (line 212): when the context is cancelled, a
\* consumer that sleeps has a signal still to come.
WakeOnCancel ==
    ctxDone /\ loop = "parked" => watcher = "armed" \/ leftover > 0
=============================================================================
