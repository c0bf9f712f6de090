------------------------------- MODULE Cluster -------------------------------
(***************************************************************************)
(* Several instances of the balancer on one Redis queue and one Redis      *)
(* limiter.  The queue is shared; the response channels are not: each      *)
(* instance has its own registry (internal/queue/channel_registry.go), and *)
(* its worker (internal/queue/worker.go) processes whatever it pops.       *)
(*                                                                         *)
(* RedisFIFO has the queue command by command.  Here Enqueue is one step   *)
(* with every outcome its commands can have: the item is pushed or not, go- *)
(* redis repeats a push whose reply was lost, and an error may be returned *)
(* for an item that has been pushed.  The size of the queue and the tokens *)
(* of the limiter (RedisTokenBucket) are left out: Enqueue may find the    *)
(* queue full, and Allow may answer anything, at any time.                 *)
(***************************************************************************)
EXTENDS Naturals, Sequences, FiniteSets

CONSTANTS
    Instances,    \* processes running the balancer
    Requests,     \* client requests
    Undecodable,  \* those whose payload json.Unmarshal rejects once it is wrapped
    Home,         \* the instance that accepts each request
    Goroutines,   \* slots for processItem
    On,           \* the instance of each slot
    NoRequest,    \* the item of an idle slot
    Faults,       \* Redis may fail and lose replies, instances may crash
    MaxRepeats,   \* bound on the pushes that are sent again
    MaxCrashes    \* bound on the crashes

ASSUME ClusterAssumption ==
    /\ Undecodable \subseteq Requests
    /\ Home \in [Requests -> Instances]
    /\ On \in [Goroutines -> Instances]
    /\ IsFiniteSet(Goroutines)
    /\ NoRequest \notin Requests
    /\ Faults \in BOOLEAN
    /\ MaxRepeats \in Nat
    /\ MaxCrashes \in Nat

VARIABLES
    list,       \* the Redis list of items, [id, ready]
    handler,    \* where the ServeHTTP of each request is
    registry,   \* requests registered at their instance
    channel,    \* requests whose response channel, of capacity 1, is full
    job,        \* where each processItem goroutine is
    item,       \* the request it processes
    found,      \* whether it found a response channel in its registry
    repeats,    \* pushes sent again so far
    crashes     \* crashes so far

\* History: how often the provider was called for a request, how many copies
\* beyond the first were pushed, the requests that were pushed although Enqueue
\* returned an error, and those of which a copy has gone astray: another instance
\* popped it, it was dropped, or it could not be decoded.
VARIABLES calls, extra, doubted, astray

jobVars == <<job, item, found>>
handlerVars == <<handler, channel>>
vars == <<list, handlerVars, registry, jobVars, repeats, crashes, calls, extra, doubted, astray>>

Items == [id : Requests, ready : BOOLEAN]

Init ==
    /\ list = <<>>
    /\ handler = [r \in Requests |-> "idle"]
    /\ registry = {}
    /\ channel = {}
    /\ job = [g \in Goroutines |-> "idle"]
    /\ item = [g \in Goroutines |-> NoRequest]
    /\ found = [g \in Goroutines |-> FALSE]
    /\ repeats = 0
    /\ crashes = 0
    /\ calls = [r \in Requests |-> 0]
    /\ extra = [r \in Requests |-> 0]
    /\ doubted = {}
    /\ astray = {}

-----------------------------------------------------------------------------
(* The Redis queue.                                                        *)

\* k + 1 copies of an item are pushed behind those in s: the first, and one for
\* each repetition.
PushTo(s, e, k) ==
    /\ k = 0 \/ Faults
    /\ repeats + k <= MaxRepeats
    /\ list' = s \o [i \in 1 .. k + 1 |-> e]
    /\ repeats' = repeats + k
    /\ extra' = [extra EXCEPT ![e.id] = @ + k]

\* Enqueue returns nil.
EnqueueSucceeds(s, e) == (\E k \in 0 .. MaxRepeats : PushTo(s, e, k)) /\ UNCHANGED doubted

\* Enqueue returns an error: the queue is full, Redis has failed, or only the
\* last reply is lost and the item is in the queue.
EnqueueFails(s, e) ==
    \/ /\ list' = s
       /\ UNCHANGED <<repeats, extra, doubted>>
    \/ /\ Faults
       /\ \E k \in 0 .. MaxRepeats : PushTo(s, e, k)
       /\ doubted' = doubted \cup {e.id}

\* The head of the list is older than itemTTL, or the reply of BLPOP is lost.
DequeueDrops ==
    /\ list # <<>>
    /\ list' = Tail(list)
    /\ astray' = astray \cup {Head(list).id}
    /\ UNCHANGED <<handlerVars, registry, jobVars, repeats, crashes, calls, extra, doubted>>

\* The head is delayed: Dequeue puts it back, whether or not that fails, and
\* goes on.
DequeuePutsBack ==
    /\ list # <<>>
    /\ ~Head(list).ready
    /\ \/ EnqueueSucceeds(Tail(list), Head(list)) /\ UNCHANGED astray
       \/ EnqueueFails(Tail(list), Head(list)) /\ astray' = astray \cup {Head(list).id}
    /\ UNCHANGED <<handlerVars, registry, jobVars, crashes, calls>>

\* The head is returned to processLoop, which starts a processItem goroutine.
Dequeue(g) ==
    /\ job[g] = "idle"
    /\ list # <<>>
    /\ Head(list).ready
    /\ list' = Tail(list)
    /\ job' = [job EXCEPT ![g] = "start"]
    /\ item' = [item EXCEPT ![g] = Head(list).id]
    /\ astray' = IF On[g] = Home[Head(list).id] THEN astray ELSE astray \cup {Head(list).id}
    /\ UNCHANGED <<handlerVars, registry, found, repeats, crashes, calls, extra, doubted>>

\* ProcessAfter is reached for an item in the list.
Ripen(i) ==
    /\ i \in DOMAIN list
    /\ ~list[i].ready
    /\ list' = [list EXCEPT ![i].ready = TRUE]
    /\ UNCHANGED <<handlerVars, registry, jobVars, repeats, crashes, calls, extra, doubted, astray>>

\* Redis removes the key when keyExpiry has passed since the last push.
KeyExpires ==
    /\ list # <<>>
    /\ list' = <<>>
    /\ astray' = astray \cup {list[i].id : i \in DOMAIN list}
    /\ UNCHANGED <<handlerVars, registry, jobVars, repeats, crashes, calls, extra, doubted>>

-----------------------------------------------------------------------------
(* ServeHTTP and EnqueueRequest, on the instance that accepts the request.  *)

Register(r) ==
    /\ handler[r] = "idle"
    /\ registry' = registry \cup {r}
    /\ handler' = [handler EXCEPT ![r] = "registered"]
    /\ UNCHANGED <<list, channel, jobVars, repeats, crashes, calls, extra, doubted, astray>>

\* On an error the channel is unregistered and the client gets a 500, be the
\* item in the queue or not.
HandlerEnqueue(r) ==
    /\ handler[r] = "registered"
    /\ \/ /\ EnqueueSucceeds(list, [id |-> r, ready |-> TRUE])
          /\ handler' = [handler EXCEPT ![r] = "waiting"]
          /\ UNCHANGED registry
       \/ /\ EnqueueFails(list, [id |-> r, ready |-> TRUE])
          /\ handler' = [handler EXCEPT ![r] = "over"]
          /\ registry' = registry \ {r}
    /\ UNCHANGED <<channel, jobVars, crashes, calls, astray>>

Receive(r) ==
    /\ handler[r] = "waiting"
    /\ r \in channel
    /\ handler' = [handler EXCEPT ![r] = "over"]
    /\ channel' = channel \ {r}
    /\ UNCHANGED <<list, registry, jobVars, repeats, crashes, calls, extra, doubted, astray>>

Timeout(r) ==
    /\ handler[r] = "waiting"
    /\ handler' = [handler EXCEPT ![r] = "over"]
    /\ UNCHANGED <<list, channel, registry, jobVars, repeats, crashes, calls, extra, doubted, astray>>

-----------------------------------------------------------------------------
(* processItem, on the instance that popped the item.                      *)

Step(g, label) ==
    /\ job' = [job EXCEPT ![g] = label]
    /\ UNCHANGED <<item, found>>

\* Mutant of Finish: the slot is freed with its item in it.
FinishKeepsItem(g) ==
    /\ job' = [job EXCEPT ![g] = "idle"]
    /\ found' = [found EXCEPT ![g] = FALSE]
    /\ UNCHANGED item

\* The deferred calls: the slot is free again.
Finish(g) ==
    /\ job' = [job EXCEPT ![g] = "idle"]
    /\ item' = [item EXCEPT ![g] = NoRequest]
    /\ found' = [found EXCEPT ![g] = FALSE]

\* A response is sent if there is a channel to send it to.
Respond(g) == IF found[g] THEN Step(g, "reply") ELSE Finish(g)

\* An item that cannot be decoded is forgotten, its client and its channel with
\* it.  For any other the channel is looked up in the registry of this instance;
\* without one the request is processed all the same.
JobStart(g) ==
    /\ job[g] = "start"
    /\ \/ /\ item[g] \in Undecodable
          /\ Finish(g)
          /\ astray' = astray \cup {item[g]}
       \/ /\ item[g] \notin Undecodable
          /\ found' = [found EXCEPT ![g] = item[g] \in registry /\ On[g] = Home[item[g]]]
          /\ job' = [job EXCEPT ![g] = "allow"]
          /\ UNCHANGED <<item, astray>>
    /\ UNCHANGED <<list, handlerVars, registry, repeats, crashes, calls, extra, doubted>>

\* Allow grants, refuses, or fails.
JobAllow(g) ==
    /\ job[g] = "allow"
    /\ Step(g, "process") \/ Step(g, "requeue") \/ Respond(g)
    /\ UNCHANGED <<list, handlerVars, registry, repeats, crashes, calls, extra, doubted, astray>>

\* Mutant of JobRequeue: the error of Enqueue is only logged.
JobRequeueSilent(g) ==
    /\ job[g] = "requeue"
    /\ LET e == [id |-> item[g], ready |-> FALSE] IN
       EnqueueSucceeds(list, e) \/ EnqueueFails(list, e)
    /\ Finish(g)
    /\ UNCHANGED <<handlerVars, registry, crashes, calls, astray>>

\* A refused request is queued again with a delay; when that fails, the client
\* is told.
JobRequeue(g) ==
    /\ job[g] = "requeue"
    /\ LET e == [id |-> item[g], ready |-> FALSE] IN
       \/ EnqueueSucceeds(list, e) /\ Finish(g)
       \/ EnqueueFails(list, e) /\ Respond(g)
    /\ UNCHANGED <<handlerVars, registry, crashes, calls, astray>>

\* Mutant of JobProcess: a request whose call failed is answered and queued again.
JobProcessRetries(g) ==
    /\ job[g] = "process"
    /\ calls' = [calls EXCEPT ![item[g]] = @ + 1]
    /\ Respond(g)
    /\ \/ UNCHANGED <<list, repeats, extra, doubted>>
       \/ calls[item[g]] = 0 /\ EnqueueSucceeds(list, [id |-> item[g], ready |-> TRUE])
    /\ UNCHANGED <<handlerVars, registry, crashes, astray>>

\* The provider is called; it answers or fails.
JobProcess(g) ==
    /\ job[g] = "process"
    /\ calls' = [calls EXCEPT ![item[g]] = @ + 1]
    /\ Respond(g)
    /\ UNCHANGED <<list, handlerVars, registry, repeats, crashes, extra, doubted, astray>>

\* The send blocks while the channel is full.
JobReply(g) ==
    /\ job[g] = "reply"
    /\ item[g] \notin channel
    /\ channel' = channel \cup {item[g]}
    /\ Step(g, "remove")
    /\ UNCHANGED <<list, handler, registry, repeats, crashes, calls, extra, doubted, astray>>

JobRemove(g) ==
    /\ job[g] = "remove"
    /\ registry' = registry \ {item[g]}
    /\ Finish(g)
    /\ UNCHANGED <<list, handlerVars, repeats, crashes, calls, extra, doubted, astray>>

-----------------------------------------------------------------------------
\* An instance dies with its clients, its registry and the items in process,
\* and is started again.
Crash(i) ==
    LET own == {r \in Requests : Home[r] = i}
        local == {g \in Goroutines : On[g] = i /\ job[g] # "idle"}
    IN  /\ Faults
        /\ crashes < MaxCrashes
        /\ crashes' = crashes + 1
        /\ handler' = [r \in Requests |->
             IF r \in own /\ handler[r] \in {"registered", "waiting"} THEN "over" ELSE handler[r]]
        /\ registry' = registry \ own
        /\ channel' = channel \ own
        /\ job' = [g \in Goroutines |-> IF g \in local THEN "idle" ELSE job[g]]
        /\ item' = [g \in Goroutines |-> IF g \in local THEN NoRequest ELSE item[g]]
        /\ found' = [g \in Goroutines |-> found[g] /\ g \notin local]
        /\ astray' = astray \cup {item[g] : g \in local}
        /\ UNCHANGED <<list, repeats, calls, extra, doubted>>

Next ==
    \/ \E r \in Requests : Register(r) \/ HandlerEnqueue(r) \/ Receive(r) \/ Timeout(r)
    \/ DequeueDrops \/ DequeuePutsBack \/ KeyExpires
    \/ \E i \in DOMAIN list : Ripen(i)
    \/ \E g \in Goroutines :
         \/ Dequeue(g) \/ JobStart(g) \/ JobAllow(g) \/ JobRequeue(g)
         \/ JobProcess(g) \/ JobReply(g) \/ JobRemove(g)
    \/ \E i \in Instances : Crash(i)

Spec == Init /\ [][Next]_vars

-----------------------------------------------------------------------------
TypeOK ==
    /\ list \in Seq(Items)
    /\ handler \in [Requests -> {"idle", "registered", "waiting", "over"}]
    /\ registry \subseteq Requests
    /\ channel \subseteq Requests
    /\ job \in [Goroutines -> {"idle", "start", "allow", "requeue", "process", "reply", "remove"}]
    /\ item \in [Goroutines -> Requests \cup {NoRequest}]
    /\ \A g \in Goroutines : job[g] = "idle" <=> item[g] = NoRequest
    /\ found \in [Goroutines -> BOOLEAN]
    /\ repeats \in 0 .. MaxRepeats
    /\ crashes \in 0 .. MaxCrashes
    /\ calls \in [Requests -> Nat]
    /\ extra \in [Requests -> Nat]
    /\ doubted \subseteq Requests
    /\ astray \subseteq Requests

\* The copies of a request for which the provider may still be called.
Pending(r) ==
    Cardinality({i \in DOMAIN list : list[i].id = r})
      + Cardinality({g \in Goroutines :
            item[g] = r /\ job[g] \in {"start", "allow", "requeue", "process"}})

\* Across all instances, crashes and refusals, the provider is called at most
\* once for a request and once more for each repeated push: neither the
\* put-back of Dequeue, nor the requeue of a refused request, nor a restart
\* makes a request that is paid for twice.
CallsWithinPushes == \A r \in Requests : calls[r] + Pending(r) <= 1 + extra[r]

\* Somebody will still answer request r: an item in the list, or a goroutine
\* that has, or can still find, its channel.
Attended(r) ==
    \/ \E i \in DOMAIN list : list[i].id = r
    \/ \E g \in Goroutines :
         item[g] = r /\ On[g] = Home[r] /\ (job[g] = "start" \/ found[g])

\* A client that waits for nobody, and a channel that stays registered for ever,
\* have one of three explanations: another instance popped the request (line 244
\* of worker.go finds no channel there), a copy of it was dropped by the queue or
\* with a crash, or processItem could not decode it (line 237 returns without an
\* answer and without channelRegistry.Remove).
AbandonedOnlyIfAstray ==
    \A r \in Requests :
        \/ handler[r] = "waiting" /\ r \notin channel
        \/ r \in registry /\ handler[r] # "registered"
        => Attended(r) \/ r \in astray

\* A send that blocks keeps its slot for ever, since nobody reads the channel
\* twice (line 383).  It takes two copies of a request: a push that was repeated,
\* or one that was reported as failed (line 304) and had not.
BlockedOnlyIfCopied ==
    \A g \in Goroutines :
        job[g] = "reply" /\ item[g] \in channel
        => extra[item[g]] > 0 \/ item[g] \in doubted

\* "Shared rate limiting and queuing state across multiple instances"
\* (README.md:22): whichever instance takes a request from the shared queue,
\* the client that waits for it can be answered.
AnswerReachesClient ==
    \A g \in Goroutines :
        job[g] \in {"allow", "requeue", "process"} /\ handler[item[g]] = "waiting" => found[g]
=============================================================================
