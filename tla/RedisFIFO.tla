------------------------------ MODULE RedisFIFO ------------------------------
(***************************************************************************)
(* The Redis-backed queue (internal/queue/fifo_queue.go), shared by the    *)
(* instances of a distributed deployment.                                  *)
(*                                                                         *)
(* A step is one Redis command, or what the code does with its reply.  A   *)
(* producer is any goroutine that calls Enqueue: a request handler, or a   *)
(* processItem that queues a refused request again.  A consumer is the     *)
(* processLoop of an instance, which calls Dequeue for ever; Dequeue calls *)
(* Enqueue and itself for an item whose ProcessAfter is not reached yet.   *)
(*                                                                         *)
(* Redis is external: RPUSH, BLPOP and DEL are atomic, a list that becomes *)
(* empty is a deleted key and loses its TTL, and EXPIRE on a missing key   *)
(* does nothing.  With Faults, a command may fail before or after it took  *)
(* effect, a process may die between two commands, and the client repeats  *)
(* a command that failed: main.go sets no MaxRetries, so go-redis sends it *)
(* three times more.  A repeated RPUSH appends a second copy.  Repeating   *)
(* the others adds no behaviour: LLEN changes nothing, a second EXPIRE     *)
(* does what a late one does, and BLPOP is called again in any case.       *)
(***************************************************************************)
EXTENDS Integers, FiniteSets, SequencesExt

CONSTANTS
    Ids,         \* items
    Producers,   \* goroutines that enqueue
    Consumers,   \* processLoops, one for each instance
    MaxSize,     \* capacity
    NoItem,      \* what an actor holds when it holds nothing
    Faults,      \* whether commands fail and processes die
    MaxRetries,  \* how often the client repeats a command that failed
    MaxRepeats   \* bound on the repeated pushes of an item

Actors == Producers \cup Consumers

\* A copy of an item, and whether its ProcessAfter is reached.
Items == [id : Ids, ready : BOOLEAN]

ASSUME RedisFIFOAssumption ==
    /\ MaxSize \in Nat \ {0}
    /\ NoItem \notin Items
    /\ Faults \in BOOLEAN
    /\ MaxRetries \in Nat
    /\ MaxRepeats \in Nat
    /\ Producers \cap Consumers = {}
    /\ IsFiniteSet(Producers) /\ IsFiniteSet(Consumers)

VARIABLES
    list,      \* the value of queueKey
    ttl,       \* whether queueKey has a time to live
    pc,        \* where each actor is
    held,      \* the item it has in hand
    sent       \* how often it has pushed it without getting a reply

\* History: the items not yet enqueued, how many copies of each Dequeue has
\* returned, less those queued again, how many its repeated pushes have added, and
\* whether an Enqueue has ended between its RPUSH and its EXPIRE and left the key
\* without a time to live.
VARIABLES fresh, returned, extra, bare

history == <<fresh, returned, extra, bare>>
vars == <<list, ttl, pc, held, sent, history>>

Init ==
    /\ list = <<>>
    /\ ttl = FALSE
    /\ pc = [a \in Actors |-> IF a \in Producers THEN "idle" ELSE "blpop"]
    /\ held = [a \in Actors |-> NoItem]
    /\ sent = [a \in Actors |-> 0]
    /\ fresh = Ids
    /\ returned = [x \in Ids |-> 0]
    /\ extra = [x \in Ids |-> 0]
    /\ bare = FALSE

\* Where an actor goes when Enqueue is over: a producer returns, a consumer is
\* in Dequeue and calls Dequeue again.
Rest(a) == IF a \in Producers THEN "idle" ELSE "blpop"

Goto(a, label) == pc' = [pc EXCEPT ![a] = label]

\* An actor goes on without the item it had.
Release(a, label) ==
    /\ held' = [held EXCEPT ![a] = NoItem]
    /\ sent' = [sent EXCEPT ![a] = 0]
    /\ Goto(a, label)

-----------------------------------------------------------------------------
(* Enqueue.                                                                *)

\* A new request, or one that Dequeue returned and the limiter refused: the
\* worker then sets its ProcessAfter.
EnqueueCall(p, x) ==
    /\ p \in Producers
    /\ pc[p] = "idle"
    /\ \/ /\ x \in fresh
          /\ fresh' = fresh \ {x}
          /\ held' = [held EXCEPT ![p] = [id |-> x, ready |-> TRUE]]
          /\ UNCHANGED returned
       \/ /\ returned[x] > 0
          /\ returned' = [returned EXCEPT ![x] = @ - 1]
          /\ held' = [held EXCEPT ![p] = [id |-> x, ready |-> FALSE]]
          /\ UNCHANGED fresh
    /\ Goto(p, "llen")
    /\ UNCHANGED <<list, ttl, sent, extra, bare>>

\* Enqueue ends without EXPIRE, by an error or a crash.  A producer reports the
\* error; Dequeue ignores it (line 451), and the item it had popped is gone, unless
\* a push without a reply has put it into the list.
EnqueueFails(a) ==
    /\ Release(a, Rest(a))
    /\ bare' = (bare \/ (sent[a] > 0 /\ list # <<>> /\ ~ttl))
    /\ UNCHANGED <<list, ttl, fresh, returned, extra>>

\* Mutant of LLen: one item more than maxSize is let in.
LLenOffByOne(a) ==
    /\ pc[a] = "llen"
    /\ \/ /\ Len(list) <= MaxSize
          /\ Goto(a, "rpush")
          /\ UNCHANGED <<list, ttl, held, sent, history>>
       \/ /\ Len(list) > MaxSize \/ Faults
          /\ EnqueueFails(a)

\* LLEN, and the comparison of its reply with maxSize.
LLen(a) ==
    /\ pc[a] = "llen"
    /\ \/ /\ Len(list) < MaxSize
          /\ Goto(a, "rpush")
          /\ UNCHANGED <<list, ttl, held, sent, history>>
       \/ /\ Len(list) >= MaxSize \/ Faults
          /\ EnqueueFails(a)

\* One RPUSH takes effect.
PushCopy(a) ==
    LET x == held[a].id IN
    /\ list' = Append(list, held[a])
    /\ \/ sent[a] = 0 /\ UNCHANGED extra
       \/ /\ sent[a] > 0
          /\ extra[x] < MaxRepeats
          /\ extra' = [extra EXCEPT ![x] = @ + 1]
    /\ UNCHANGED <<ttl, fresh, returned>>

\* Mutant of RPush: Enqueue returns without calling Expire.
RPushOnly(a) ==
    /\ pc[a] = "rpush"
    /\ PushCopy(a)
    /\ Release(a, Rest(a))
    /\ UNCHANGED bare

\* RPUSH.  Without a reply the client sends it again, up to MaxRetries times,
\* whether or not the item is in the list already; then, or when the context is
\* over, Enqueue returns the error and does not call Expire.
RPush(a) ==
    /\ pc[a] = "rpush"
    /\ \/ /\ PushCopy(a)
          /\ Release(a, "expire")
          /\ UNCHANGED bare
       \/ /\ Faults
          /\ PushCopy(a)
          /\ \/ /\ sent[a] < MaxRetries
                /\ sent' = [sent EXCEPT ![a] = @ + 1]
                /\ UNCHANGED <<pc, held, bare>>
             \/ /\ sent[a] = MaxRetries
                /\ Release(a, Rest(a))
                /\ bare' = (bare \/ ~ttl)
       \/ /\ Faults
          /\ EnqueueFails(a)

\* EXPIRE, whose error is ignored.
Expire(a) ==
    /\ pc[a] = "expire"
    /\ \/ ttl' = (list # <<>>) /\ bare' = FALSE
       \/ /\ Faults
          /\ bare' = (bare \/ (list # <<>> /\ ~ttl))
          /\ UNCHANGED ttl
    /\ Goto(a, Rest(a))
    /\ UNCHANGED <<list, held, sent, fresh, returned, extra>>

-----------------------------------------------------------------------------
(* Dequeue.                                                                *)

\* BLPOP returns the head of the list, or blocks.  An error without effect
\* changes nothing here: processLoop calls Dequeue again.  When the reply is
\* lost, so is the item.
BLPop(c) ==
    /\ c \in Consumers
    /\ pc[c] = "blpop"
    /\ list # <<>>
    /\ list' = Tail(list)
    /\ ttl' = (ttl /\ Len(list) > 1)
    /\ bare' = (bare /\ Len(list) > 1)
    /\ \/ /\ held' = [held EXCEPT ![c] = Head(list)]
          /\ Goto(c, "check")
       \/ /\ Faults
          /\ UNCHANGED <<pc, held>>
    /\ UNCHANGED <<sent, fresh, returned, extra>>

\* Dequeue returns the item to processLoop.
Return(c) ==
    /\ returned' = [returned EXCEPT ![held[c].id] = @ + 1]
    /\ Release(c, "blpop")

\* Mutant of Check: a delayed item is put back and also returned.
CheckReturnsToo(c) ==
    /\ pc[c] = "check"
    /\ \/ Release(c, "blpop") /\ UNCHANGED returned
       \/ /\ ~held[c].ready
          /\ returned' = [returned EXCEPT ![held[c].id] = @ + 1]
          /\ Goto(c, "llen")
          /\ UNCHANGED <<held, sent>>
       \/ held[c].ready /\ Return(c)
    /\ UNCHANGED <<list, ttl, fresh, extra, bare>>

\* Mutant of Check: every item is put back, be its ProcessAfter reached or not.
CheckAlwaysPutsBack(c) ==
    /\ pc[c] = "check"
    /\ \/ Release(c, "blpop")
       \/ Goto(c, "llen") /\ UNCHANGED <<held, sent>>
    /\ UNCHANGED <<list, ttl, history>>

\* Mutant of Check: Dequeue goes on with an item it has discarded as expired.
CheckKeepsExpired(c) ==
    /\ pc[c] = "check"
    /\ \/ Goto(c, "blpop") /\ UNCHANGED <<held, sent, returned>>
       \/ /\ ~held[c].ready
          /\ Goto(c, "llen")
          /\ UNCHANGED <<held, sent, returned>>
       \/ held[c].ready /\ Return(c)
    /\ UNCHANGED <<list, ttl, fresh, extra, bare>>

\* The item is discarded when it is older than itemTTL, which may be at any
\* time; else put back when it is delayed; else returned to processLoop.
Check(c) ==
    /\ pc[c] = "check"
    /\ \/ Release(c, "blpop") /\ UNCHANGED returned
       \/ /\ ~held[c].ready
          /\ Goto(c, "llen")
          /\ UNCHANGED <<held, sent, returned>>
       \/ held[c].ready /\ Return(c)
    /\ UNCHANGED <<list, ttl, fresh, extra, bare>>

-----------------------------------------------------------------------------
(* Time, Clear and crashes.                                                *)

\* ProcessAfter is reached, for a copy in the list or in an actor's hand; what a
\* client sends again may ripen later than the first copy, as an item of its own.
Ripen(x) ==
    /\ \/ /\ \E i \in DOMAIN list :
               /\ list[i] = [id |-> x, ready |-> FALSE]
               /\ list' = [list EXCEPT ![i].ready = TRUE]
          /\ UNCHANGED held
       \/ /\ \E a \in Actors :
               /\ held[a] = [id |-> x, ready |-> FALSE]
               /\ sent[a] = 0
               /\ held' = [held EXCEPT ![a].ready = TRUE]
          /\ UNCHANGED list
    /\ UNCHANGED <<ttl, pc, sent, history>>

\* The key goes, and every item with it.
DeleteKey ==
    /\ list' = <<>>
    /\ ttl' = FALSE
    /\ bare' = FALSE
    /\ UNCHANGED <<pc, held, sent, fresh, returned, extra>>

\* DEL, which a missing key does not mind.
Clear == DeleteKey

\* Redis removes the key when keyExpiry has passed since the last EXPIRE.
KeyExpires == ttl /\ DeleteKey

\* A process dies with what it has in hand, and is started again.
Crash(a) ==
    /\ Faults
    /\ pc[a] \notin {"idle", "blpop"}
    /\ Release(a, Rest(a))
    /\ bare' = (bare \/ ((sent[a] > 0 \/ pc[a] = "expire") /\ list # <<>> /\ ~ttl))
    /\ UNCHANGED <<list, ttl, fresh, returned, extra>>

-----------------------------------------------------------------------------
EnqueueStep(a) == LLen(a) \/ RPush(a) \/ Expire(a)

Next ==
    \/ \E p \in Producers, x \in Ids : EnqueueCall(p, x)
    \/ \E a \in Actors : EnqueueStep(a) \/ Crash(a)
    \/ \E c \in Consumers : BLPop(c) \/ Check(c)
    \/ \E x \in Ids : Ripen(x)
    \/ Clear
    \/ KeyExpires

Spec == Init /\ [][Next]_vars

\* The goroutines run, delays end, and Redis is not unavailable for ever: a
\* BLPOP that can return an item returns one to some consumer in the end.
Fairness ==
    /\ \A a \in Actors : WF_vars(EnqueueStep(a))
    /\ \A c \in Consumers : WF_vars(Check(c))
    /\ WF_vars(\E c \in Consumers : BLPop(c))
    /\ \A x \in Ids : WF_vars(Ripen(x))

FairSpec == Spec /\ Fairness

-----------------------------------------------------------------------------
TypeOK ==
    /\ list \in Seq(Items)
    /\ ttl \in BOOLEAN
    /\ pc \in [Actors -> {"idle", "llen", "rpush", "expire", "blpop", "check"}]
    /\ held \in [Actors -> Items \cup {NoItem}]
    /\ \A a \in Actors : pc[a] \in {"llen", "rpush", "check"} <=> held[a] # NoItem
    /\ sent \in [Actors -> 0 .. MaxRetries]
    /\ \A a \in Actors : sent[a] > 0 => pc[a] = "rpush"
    /\ fresh \subseteq Ids
    /\ returned \in [Ids -> Nat]
    /\ extra \in [Ids -> 0 .. MaxRepeats]
    /\ bare \in BOOLEAN

\* How many copies one Enqueue can push.
Pushes == IF Faults THEN MaxRetries + 1 ELSE 1

\* Enqueue's size check (lines 368-378) and its RPUSH (line 387) are separate
\* commands, so the list can outgrow maxSize; but only by what the actors that are
\* between the two at once, put-backs of Dequeue included, have left to push.
OverrunBound == Len(list) <= MaxSize - 1 + Cardinality(Actors) * Pushes

\* The copies of an item in the list, and those that an actor in one of the
\* given places will put there.
Listed(x) == Cardinality({i \in DOMAIN list : list[i].id = x})

InHand(S, x) == Cardinality({a \in S : held[a] # NoItem /\ sent[a] = 0 /\ held[a].id = x})

\* However it is popped, put back, lost, refused and queued again, there is one
\* copy of an item, and one more for each RPUSH (line 387) that the client sent
\* again after a lost reply: nothing else makes the worker process it twice.
CopiesOnlyByRepeats ==
    \A x \in Ids : Listed(x) + InHand(Actors, x) + returned[x] <= 1 + extra[x]

\* The list is not left without a time to live: each RPUSH is followed by its own
\* Expire (line 396), whatever the other actors pop and push in between.  It takes
\* an EXPIRE that failed, a push that was given up, or a crash to break this.
KeyHasExpiry ==
    list # <<>> =>
        \/ ttl \/ bare
        \/ \E a \in Actors : pc[a] = "expire" \/ sent[a] > 0

\* An item in the queue, delayed or not, leaves it in the end, although Dequeue
\* moves delayed items to the tail again and again: of an item that stays in the
\* queue, because it was copied, copies leave for ever.
Leaves(x) == Listed(x)' + InHand(Consumers, x)' < Listed(x) + InHand(Consumers, x)

EventuallyLeaves ==
    \A x \in Ids :
        []<>(Listed(x) + InHand(Consumers, x) = 0) \/ []<><<Leaves(x)>>_vars
=============================================================================
