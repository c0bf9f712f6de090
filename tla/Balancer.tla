------------------------------ MODULE Balancer ------------------------------
(***************************************************************************)
(* The single-instance pipeline, from an HTTP request to its answer:       *)
(*                                                                         *)
(*   - the request handlers (internal/handler/request_handler.go), one     *)
(*     goroutine per client request;                                       *)
(*   - the channel registry (internal/queue/channel_registry.go);          *)
(*   - the in-memory queue (internal/queue/fifo_queue.go), seen through    *)
(*     its critical sections; InMemoryFIFO looks inside Dequeue's wait;    *)
(*   - the rate limiter, as the abstract bucket of RateLimit, which        *)
(*     TokenBucket implements when it is used through Allow, as here;      *)
(*   - the worker (internal/queue/worker.go): processLoop, which holds a   *)
(*     semaphore slot per item, and one processItem goroutine per item;    *)
(*   - main's shutdown sequence (cmd/server/main.go).                      *)
(*                                                                         *)
(* A request is also its RequestID.  The clock is abstracted: a delayed    *)
(* item ripens, an old item expires, tokens are added, a client's wait     *)
(* times out, each at any moment.  A response is only "result" or "error". *)
(***************************************************************************)
EXTENDS Integers, FiniteSets, SequencesExt

CONSTANTS
    Requests,        \* client requests, each sent once
    Undecodable,     \* those that json.Unmarshal refuses in their queued form
    Cost,            \* token cost of each request
    Goroutines,      \* identities for the processItem goroutines
    MaxConcurrent,   \* slots of the semaphore
    MaxSize,         \* of the queue
    BucketSize,      \* of the limiter
    Rate,            \* tokens per unit of time
    NoRequest        \* what an idle goroutine processes

\* SimpleTokenCalculator never returns less than its base cost of 10.  There
\* are as many goroutines as slots at least, so that only the semaphore bounds
\* them.  A request may be accepted and yet be undecodable: the decoder limits
\* the nesting of the body, the encoder does not limit that of the
\* QueuedRequest, in which the same payload lies deeper.
ASSUME BalancerAssumption ==
    /\ Undecodable \subseteq Requests
    /\ Cost \in [Requests -> Nat \ {0}]
    /\ MaxConcurrent \in Nat \ {0}
    /\ MaxSize \in Nat \ {0}
    /\ BucketSize \in Nat
    /\ Rate \in Nat \ {0}
    /\ NoRequest \notin Requests
    /\ IsFiniteSet(Goroutines)
    /\ Cardinality(Goroutines) >= MaxConcurrent

VARIABLES
    handler,     \* where each ServeHTTP is
    registry,    \* requests with a registered response channel
    channel,     \* what each response channel, of capacity 1, holds
    queue,       \* the items, [id, ready]
    tokens,      \* level of the limiter
    semaphore,   \* slots taken
    loop,        \* where processLoop is
    job,         \* where each processItem goroutine is
    item,        \* the request it processes
    found,       \* whether it found a response channel in the registry
    response,    \* what it is about to send
    main,        \* where main is
    ctxDone,     \* the application context is cancelled
    stopCh       \* Stop has closed stopCh

\* History: the order in which requests entered the queue, the requests the
\* limiter has refused at least once, those that expired in the queue, and
\* those a goroutine gave up because it could not decode them.
VARIABLES arrivals, refused, expired, undecoded

handlerVars == <<handler, channel>>
jobVars == <<job, item, found, response>>
loopVars == <<loop, semaphore>>
mainVars == <<main, ctxDone, stopCh>>
history == <<arrivals, refused, expired, undecoded>>
vars == <<handlerVars, registry, queue, tokens, loopVars, jobVars, mainVars, history>>

Limiter == INSTANCE RateLimit WITH Capacity <- BucketSize, level <- tokens

Items == [id : Requests, ready : BOOLEAN]

Running == {g \in Goroutines : job[g] # "idle"}

Queued == {queue[i].id : i \in DOMAIN queue}

Init ==
    /\ handler = [r \in Requests |-> "idle"]
    /\ registry = {}
    /\ channel = [r \in Requests |-> "empty"]
    /\ queue = <<>>
    /\ Limiter!Init
    /\ semaphore = 0
    /\ loop = "top"
    /\ job = [g \in Goroutines |-> "idle"]
    /\ item = [g \in Goroutines |-> NoRequest]
    /\ found = [g \in Goroutines |-> FALSE]
    /\ response = [g \in Goroutines |-> "error"]
    /\ main = "serving"
    /\ ctxDone = FALSE
    /\ stopCh = FALSE
    /\ arrivals = <<>>
    /\ refused = {}
    /\ expired = {}
    /\ undecoded = {}

\* Mutant of Full: the queue takes one item more than maxSize.
FullOffByOne == Len(queue) > MaxSize

\* Enqueue's test of the capacity.
Full == Len(queue) >= MaxSize

-----------------------------------------------------------------------------
(* ServeHTTP and EnqueueRequest.                                           *)

\* The request is malformed, or its cost cannot be computed: 4xx or 500.
Reject(r) ==
    /\ handler[r] = "idle"
    /\ main = "serving"
    /\ handler' = [handler EXCEPT ![r] = "rejected"]
    /\ UNCHANGED <<registry, channel, queue, tokens, loopVars, jobVars, mainVars, history>>

\* A valid request: its channel is made and registered before it is queued.
Register(r) ==
    /\ handler[r] = "idle"
    /\ main = "serving"
    /\ registry' = registry \cup {r}
    /\ handler' = [handler EXCEPT ![r] = "registered"]
    /\ UNCHANGED <<channel, queue, tokens, loopVars, jobVars, mainVars, history>>

\* Mutant of HandlerEnqueue: the channel of a request that does not fit in the
\* queue stays registered.
HandlerEnqueueLeaks(r) ==
    /\ handler[r] = "registered"
    /\ \/ /\ Full
          /\ handler' = [handler EXCEPT ![r] = "failed"]
          /\ UNCHANGED <<registry, queue, arrivals>>
       \/ /\ ~Full
          /\ queue' = Append(queue, [id |-> r, ready |-> TRUE])
          /\ arrivals' = Append(arrivals, r)
          /\ handler' = [handler EXCEPT ![r] = "waiting"]
          /\ UNCHANGED registry
    /\ UNCHANGED <<channel, tokens, loopVars, jobVars, mainVars, refused, expired, undecoded>>

\* Enqueue.  When the queue is full the channel is unregistered (nobody else
\* knows the id yet) and the client gets a 500.
HandlerEnqueue(r) ==
    /\ handler[r] = "registered"
    /\ \/ /\ Full
          /\ registry' = registry \ {r}
          /\ handler' = [handler EXCEPT ![r] = "failed"]
          /\ UNCHANGED <<queue, arrivals>>
       \/ /\ ~Full
          /\ queue' = Append(queue, [id |-> r, ready |-> TRUE])
          /\ arrivals' = Append(arrivals, r)
          /\ handler' = [handler EXCEPT ![r] = "waiting"]
          /\ UNCHANGED registry
    /\ UNCHANGED <<channel, tokens, loopVars, jobVars, mainVars, refused, expired, undecoded>>

\* select on the response channel.
Receive(r) ==
    /\ handler[r] = "waiting"
    /\ channel[r] # "empty"
    /\ handler' = [handler EXCEPT ![r] = IF channel[r] = "result" THEN "answered" ELSE "failed"]
    /\ channel' = [channel EXCEPT ![r] = "empty"]
    /\ UNCHANGED <<registry, queue, tokens, loopVars, jobVars, mainVars, history>>

\* Mutant of Timeout: the handler unregisters the channel it stops reading.
TimeoutUnregisters(r) ==
    /\ handler[r] = "waiting"
    /\ handler' = [handler EXCEPT ![r] = "timedout"]
    /\ registry' = registry \ {r}
    /\ UNCHANGED <<channel, queue, tokens, loopVars, jobVars, mainVars, history>>

\* select on reqCtx.Done: 408.  The request stays queued, or in process, and
\* its channel stays registered.
Timeout(r) ==
    /\ handler[r] = "waiting"
    /\ handler' = [handler EXCEPT ![r] = "timedout"]
    /\ UNCHANGED <<registry, channel, queue, tokens, loopVars, jobVars, mainVars, history>>

-----------------------------------------------------------------------------
(* Time.                                                                   *)

Refill ==
    /\ tokens < BucketSize
    /\ Limiter!Refill
    /\ UNCHANGED <<handlerVars, registry, queue, loopVars, jobVars, mainVars, history>>

\* ProcessAfter is reached for a delayed item.
Ripen(r) ==
    /\ \E i \in DOMAIN queue :
         /\ queue[i].id = r
         /\ ~queue[i].ready
         /\ queue' = [queue EXCEPT ![i].ready = TRUE]
    /\ UNCHANGED <<handlerVars, registry, tokens, loopVars, jobVars, mainVars, history>>

\* cleanupExpired keeps the items younger than ItemTTL, in their order: the
\* n kept ones are those at the positions kept[1] < ... < kept[n].  Which items
\* are old does not depend on their place, since EnqueueTime is read before mu
\* is taken.
CleanupExpired ==
    /\ \E n \in 0 .. Len(queue) - 1 : \E kept \in [1 .. n -> DOMAIN queue] :
         /\ \A i, j \in 1 .. n : i < j => kept[i] < kept[j]
         /\ queue' = [i \in 1 .. n |-> queue[kept[i]]]
         /\ expired' = expired \cup
              {queue[k].id : k \in {k \in DOMAIN queue : \A i \in 1 .. n : kept[i] # k}}
    /\ UNCHANGED <<handlerVars, registry, tokens, loopVars, jobVars, mainVars, arrivals, refused, undecoded>>

-----------------------------------------------------------------------------
(* processLoop.                                                            *)

\* The first select: on a cancelled context or a closed stopCh the loop waits
\* for the running jobs and ends.
LoopTop ==
    /\ loop = "top"
    /\ loop' = IF ctxDone \/ stopCh THEN "drain" ELSE "acquire"
    /\ UNCHANGED <<handlerVars, registry, queue, tokens, semaphore, jobVars, mainVars, history>>

\* Mutant of Acquire: one slot too many.
AcquireOneTooMany ==
    /\ loop = "acquire"
    /\ \/ semaphore <= MaxConcurrent /\ semaphore' = semaphore + 1 /\ loop' = "dequeue"
       \/ semaphore > MaxConcurrent /\ UNCHANGED semaphore /\ loop' = "top"
    /\ UNCHANGED <<handlerVars, registry, queue, tokens, jobVars, mainVars, history>>

\* The second select: a slot, or a sleep of PollingInterval.
Acquire ==
    /\ loop = "acquire"
    /\ \/ semaphore < MaxConcurrent /\ semaphore' = semaphore + 1 /\ loop' = "dequeue"
       \/ semaphore = MaxConcurrent /\ UNCHANGED semaphore /\ loop' = "top"
    /\ UNCHANGED <<handlerVars, registry, queue, tokens, jobVars, mainVars, history>>

\* Mutant of FirstReady: any ready item.
AnyReady(k) == k \in DOMAIN queue /\ queue[k].ready

\* Dequeue's scan for the first item that may be processed.
FirstReady(k) ==
    /\ k \in DOMAIN queue
    /\ queue[k].ready
    /\ \A i \in DOMAIN queue : i < k => ~queue[i].ready

\* Dequeue returns an item: it is removed and a processItem goroutine starts.
Dequeue ==
    /\ loop = "dequeue"
    /\ \E k \in DOMAIN queue, g \in Goroutines :
         /\ FirstReady(k)
         /\ job[g] = "idle"
         /\ job' = [job EXCEPT ![g] = "start"]
         /\ item' = [item EXCEPT ![g] = queue[k].id]
         /\ queue' = RemoveAt(queue, k)
    /\ loop' = "top"
    /\ UNCHANGED <<handlerVars, registry, tokens, semaphore, found, response, mainVars, history>>

\* Dequeue returns ErrQueueEmpty: items, but none that is ready.
DequeueNotReady ==
    /\ loop = "dequeue"
    /\ queue # <<>>
    /\ \A i \in DOMAIN queue : ~queue[i].ready
    /\ semaphore' = semaphore - 1
    /\ loop' = "top"
    /\ UNCHANGED <<handlerVars, registry, queue, tokens, jobVars, mainVars, history>>

\* No item at all: Dequeue blocks, its slot taken, until the queue is not empty.
DequeueBlocks ==
    /\ loop = "dequeue"
    /\ queue = <<>>
    /\ loop' = "blocked"
    /\ UNCHANGED <<handlerVars, registry, queue, tokens, semaphore, jobVars, mainVars, history>>

DequeueWakes ==
    /\ loop = "blocked"
    /\ queue # <<>>
    /\ loop' = "dequeue"
    /\ UNCHANGED <<handlerVars, registry, queue, tokens, semaphore, jobVars, mainVars, history>>

\* Dequeue returns ctx.Err().
DequeueCancelled ==
    /\ loop = "blocked"
    /\ ctxDone
    /\ semaphore' = semaphore - 1
    /\ loop' = "top"
    /\ UNCHANGED <<handlerVars, registry, queue, tokens, jobVars, mainVars, history>>

\* waitForPendingJobs returns, and done is closed.
LoopExits ==
    /\ loop = "drain"
    /\ Running = {}
    /\ loop' = "exited"
    /\ UNCHANGED <<handlerVars, registry, queue, tokens, semaphore, jobVars, mainVars, history>>

-----------------------------------------------------------------------------
(* processItem.                                                            *)

Step(g, label) == job' = [job EXCEPT ![g] = label]

\* A send of an error or of a result follows.
Respond(g, resp) ==
    /\ response' = [response EXCEPT ![g] = resp]
    /\ Step(g, "reply")

\* The item is deserialised and its channel is looked up.  When it cannot be
\* deserialised the goroutine returns at once: no answer is sent and the
\* channel stays registered.
JobStart(g) ==
    /\ job[g] = "start"
    /\ \/ /\ item[g] \in Undecodable
          /\ undecoded' = undecoded \cup {item[g]}
          /\ Step(g, "release")
          /\ UNCHANGED found
       \/ /\ item[g] \notin Undecodable
          /\ found' = [found EXCEPT ![g] = item[g] \in registry]
          /\ Step(g, "allow")
          /\ UNCHANGED undecoded
    /\ UNCHANGED <<handlerVars, registry, queue, tokens, loopVars, item, response, mainVars,
                   arrivals, refused, expired>>

\* Mutant of JobAllow: a refused request takes the tokens that are left.
JobAllowDrains(g) ==
    /\ job[g] = "allow"
    /\ \/ /\ Limiter!Spend(Cost[item[g]])
          /\ Step(g, "process")
          /\ UNCHANGED <<response, refused>>
       \/ /\ tokens < Cost[item[g]]
          /\ tokens' = 0
          /\ refused' = refused \cup {item[g]}
          /\ Step(g, "requeue")
          /\ UNCHANGED response
       \/ /\ Respond(g, "error")
          /\ UNCHANGED <<tokens, refused>>
    /\ UNCHANGED <<handlerVars, registry, queue, loopVars, item, found, mainVars, arrivals, expired, undecoded>>

\* Allow: granted, refused, or failed (limiter.go:71).
JobAllow(g) ==
    /\ job[g] = "allow"
    /\ \/ /\ Limiter!Spend(Cost[item[g]])
          /\ Step(g, "process")
          /\ UNCHANGED <<response, refused>>
       \/ /\ tokens < Cost[item[g]]
          /\ refused' = refused \cup {item[g]}
          /\ Step(g, "requeue")
          /\ UNCHANGED <<tokens, response>>
       \/ /\ Respond(g, "error")
          /\ UNCHANGED <<tokens, refused>>
    /\ UNCHANGED <<handlerVars, registry, queue, loopVars, item, found, mainVars, arrivals, expired, undecoded>>

\* Mutant of JobRequeue: a request that does not fit is dropped.
JobRequeueDrops(g) ==
    /\ job[g] = "requeue"
    /\ queue' = IF Full THEN queue ELSE Append(queue, [id |-> item[g], ready |-> FALSE])
    /\ Step(g, "release")
    /\ UNCHANGED <<handlerVars, registry, tokens, loopVars, item, found, response, mainVars, history>>

\* Mutant of JobRequeue: the item is queued again and then answered as well.
JobRequeueAnswers(g) ==
    /\ job[g] = "requeue"
    /\ queue' = IF Full THEN queue ELSE Append(queue, [id |-> item[g], ready |-> FALSE])
    /\ Respond(g, "error")
    /\ UNCHANGED <<handlerVars, registry, tokens, loopVars, item, found, mainVars, history>>

\* A refused request goes to the tail of the queue, not ready for RetryDelay;
\* when the queue is full its client gets an error.
JobRequeue(g) ==
    /\ job[g] = "requeue"
    /\ \/ /\ ~Full
          /\ queue' = Append(queue, [id |-> item[g], ready |-> FALSE])
          /\ Step(g, "release")
          /\ UNCHANGED response
       \/ /\ Full
          /\ Respond(g, "error")
          /\ UNCHANGED queue
    /\ UNCHANGED <<handlerVars, registry, tokens, loopVars, item, found, mainVars, history>>

\* The call of the LLM service, bounded by itemCtx.
JobProcess(g) ==
    /\ job[g] = "process"
    /\ \E resp \in {"result", "error"} : Respond(g, resp)
    /\ UNCHANGED <<handlerVars, registry, queue, tokens, loopVars, item, found, mainVars, history>>

\* The send on the response channel, which would block on a full one.  The
\* branch for a missing channel has no action: ChannelFound says that with one
\* instance it is never taken.
JobSend(g) ==
    /\ job[g] = "reply"
    /\ found[g]
    /\ channel[item[g]] = "empty"
    /\ channel' = [channel EXCEPT ![item[g]] = response[g]]
    /\ Step(g, "remove")
    /\ UNCHANGED <<handler, registry, queue, tokens, loopVars, item, found, response, mainVars, history>>

JobRemove(g) ==
    /\ job[g] = "remove"
    /\ registry' = registry \ {item[g]}
    /\ Step(g, "release")
    /\ UNCHANGED <<handlerVars, queue, tokens, loopVars, item, found, response, mainVars, history>>

\* The deferred calls: the semaphore slot, then wg.Done.
JobRelease(g) ==
    /\ job[g] = "release"
    /\ semaphore' = semaphore - 1
    /\ Step(g, "idle")
    /\ item' = [item EXCEPT ![g] = NoRequest]
    /\ found' = [found EXCEPT ![g] = FALSE]
    /\ response' = [response EXCEPT ![g] = "error"]
    /\ UNCHANGED <<handlerVars, registry, queue, tokens, loop, mainVars, history>>

-----------------------------------------------------------------------------
(* main.                                                                   *)

\* ListenAndServe fails: the context is cancelled, but main goes on waiting.
ServerError ==
    /\ main = "serving"
    /\ ctxDone' = TRUE
    /\ UNCHANGED <<handlerVars, registry, queue, tokens, loopVars, jobVars, main, stopCh, history>>

\* A signal arrives: server.Shutdown is called, and lets no new request in.
Signal ==
    /\ main = "serving"
    /\ main' = "shutdown"
    /\ UNCHANGED <<handlerVars, registry, queue, tokens, loopVars, jobVars, ctxDone, stopCh, history>>

\* server.Shutdown returns, because every handler has or ShutdownTimeout has
\* passed; then cancel.
ShutdownReturns ==
    /\ main = "shutdown"
    /\ main' = "cancelled"
    /\ ctxDone' = TRUE
    /\ UNCHANGED <<handlerVars, registry, queue, tokens, loopVars, jobVars, stopCh, history>>

\* The deferred Stop closes stopCh ...
StopCloses ==
    /\ main = "cancelled"
    /\ main' = "stopping"
    /\ stopCh' = TRUE
    /\ UNCHANGED <<handlerVars, registry, queue, tokens, loopVars, jobVars, ctxDone, history>>

\* ... and waits for the loop; then the process ends.
StopReturns ==
    /\ main = "stopping"
    /\ loop = "exited"
    /\ main' = "exited"
    /\ UNCHANGED <<handlerVars, registry, queue, tokens, loopVars, jobVars, ctxDone, stopCh, history>>

Terminated == main = "exited" /\ UNCHANGED vars

-----------------------------------------------------------------------------
HandlerStep(r) == Reject(r) \/ Register(r) \/ HandlerEnqueue(r) \/ Receive(r) \/ Timeout(r)

TimeStep == Refill \/ CleanupExpired \/ \E r \in Requests : Ripen(r)

LoopStep ==
    \/ LoopTop \/ Acquire
    \/ Dequeue \/ DequeueNotReady \/ DequeueBlocks \/ DequeueWakes \/ DequeueCancelled
    \/ LoopExits

JobStep(g) ==
    \/ JobStart(g) \/ JobAllow(g) \/ JobRequeue(g) \/ JobProcess(g)
    \/ JobSend(g) \/ JobRemove(g) \/ JobRelease(g)

MainStep == ServerError \/ Signal \/ ShutdownReturns \/ StopCloses \/ StopReturns

\* Nothing runs once the process has ended.
Next ==
    \/ /\ main # "exited"
       /\ \/ \E r \in Requests : HandlerStep(r)
          \/ TimeStep
          \/ LoopStep
          \/ \E g \in Goroutines : JobStep(g)
          \/ MainStep
    \/ Terminated

Spec == Init /\ [][Next]_vars

\* The scheduler runs every goroutine that can go on, and time passes: tokens
\* are added, delays end, and a call of the provider returns (its context has
\* a timeout).  Nothing is assumed of the clients' timeouts, of expiry, of
\* signals, or of the wake-up of a blocked Dequeue by a cancelled context.
Fairness ==
    /\ \A r \in Requests :
         WF_vars(main # "exited" /\ (HandlerEnqueue(r) \/ Receive(r)))
    /\ \A r \in Requests : WF_vars(main # "exited" /\ Ripen(r))
    /\ WF_vars(main # "exited" /\ Refill)
    /\ WF_vars(main # "exited"
               /\ (LoopTop \/ Acquire \/ Dequeue \/ DequeueNotReady \/ DequeueBlocks
                   \/ DequeueWakes \/ LoopExits))
    /\ \A g \in Goroutines : WF_vars(main # "exited" /\ JobStep(g))
    /\ WF_vars(ShutdownReturns \/ StopCloses \/ StopReturns)

FairSpec == Spec /\ Fairness

-----------------------------------------------------------------------------
TypeOK ==
    /\ handler \in [Requests -> {"idle", "rejected", "registered", "waiting",
                                 "answered", "failed", "timedout"}]
    /\ registry \subseteq Requests
    /\ channel \in [Requests -> {"empty", "result", "error"}]
    /\ queue \in Seq(Items) /\ Len(queue) <= MaxSize
    /\ tokens \in 0 .. BucketSize
    /\ semaphore \in Int
    /\ loop \in {"top", "acquire", "dequeue", "blocked", "drain", "exited"}
    /\ job \in [Goroutines -> {"idle", "start", "allow", "requeue", "process",
                               "reply", "remove", "release"}]
    /\ item \in [Goroutines -> Requests \cup {NoRequest}]
    /\ \A g \in Goroutines : job[g] # "idle" => item[g] \in Requests
    /\ found \in [Goroutines -> BOOLEAN]
    /\ response \in [Goroutines -> {"result", "error"}]
    /\ main \in {"serving", "shutdown", "cancelled", "stopping", "exited"}
    /\ ctxDone \in BOOLEAN
    /\ stopCh \in BOOLEAN
    /\ arrivals \in Seq(Requests)
    /\ refused \subseteq Requests
    /\ expired \subseteq Requests
    /\ undecoded \subseteq Requests

\* The goroutine still answers for its item: it has neither put it back in the
\* queue nor finished with it.
Owns(g, r) == job[g] \notin {"idle", "release"} /\ item[g] = r

\* A request is in one place at a time: once in the queue, or in one goroutine,
\* never both, however often it was refused and queued again (lines 286-313 of
\* worker.go).  Otherwise it would be sent to the provider twice.
SingleHome ==
    /\ \A i, j \in DOMAIN queue : queue[i].id = queue[j].id => i = j
    /\ \A g, h \in Goroutines, r \in Requests : Owns(g, r) /\ Owns(h, r) => g = h
    /\ \A g \in Goroutines, i \in DOMAIN queue : ~Owns(g, queue[i].id)

\* No send on a response channel ever blocks (lines 265, 304, 338 and 383 of
\* worker.go), not even for a client that has given up, so a goroutine cannot
\* hold its slot for ever: the capacity of 1 (request_handler.go:183) is enough.
SendNeverBlocks ==
    \A g \in Goroutines : job[g] = "reply" => channel[item[g]] = "empty"

\* The goroutine always finds the response channel it looks up (line 244 of
\* worker.go): Register comes before Enqueue, nothing but the goroutine's own
\* Remove takes a channel out, and a request queued again keeps its own.
ChannelFound ==
    \A g \in Goroutines : job[g] \notin {"idle", "start", "release"} => found[g]

\* A client that still waits is not forgotten: its request is in the queue, or
\* in a goroutine that has not answered it yet, or its answer is in the
\* channel.  Two things only take it away without an answer: cleanupExpired,
\* and a goroutine that cannot decode it (line 237 of worker.go).
NoSilentLoss ==
    \A r \in Requests : handler[r] = "waiting" =>
        \/ r \in Queued
        \/ \E g \in Goroutines : Owns(g, r) /\ job[g] # "remove"
        \/ channel[r] # "empty"
        \/ r \in expired \cup undecoded

\* A registered channel has a request behind it that will remove it, except
\* when the request expired in the queue or could not be decoded (line 237 of
\* worker.go): every other path out of the worker, a limiter or provider error,
\* a full queue and a late answer included, cleans the registry up.
LeakOnlyIfDropped ==
    \A r \in registry :
        \/ handler[r] = "registered"
        \/ r \in Queued
        \/ \E g \in Goroutines : Owns(g, r)
        \/ r \in expired \cup undecoded

\* The slots taken are those of the running goroutines and the one processLoop
\* holds while it dequeues; no path of lines 189-208 and 221-222 loses or
\* doubles one, and there are never more than MaxConcurrent goroutines.
SlotAccounting ==
    /\ semaphore = Cardinality(Running) + (IF loop \in {"dequeue", "blocked"} THEN 1 ELSE 0)
    /\ semaphore <= MaxConcurrent

\* q entered the queue before r.
Earlier(q, r) ==
    \E i, j \in DOMAIN arrivals : i < j /\ arrivals[i] = q /\ arrivals[j] = r

\* r is handed to a goroutine by this step.
Taken(r) == \E g \in Goroutines : job[g] = "idle" /\ job'[g] = "start" /\ item'[g] = r

\* Dequeue serves requests in the order of their arrival, except that a request
\* the limiter has refused may be overtaken: removing an item from the middle
\* of the slice (line 252 of fifo_queue.go) keeps the order of the others.
OvertakenOnlyIfRefused ==
    [][\A r \in Requests : Taken(r) =>
          \A q \in Queued : Earlier(q, r) => q \in refused]_vars

\* Every client whose request fits in the bucket and can be decoded is answered
\* if it waits long enough, as long as the service is not shut down and the
\* request does not expire in the queue.  Requests that compete for the same
\* tokens, or that can never be granted, only delay it.  Each request is sent
\* once, so the competition ends: lines 276-313 of worker.go keep no tokens for
\* a refused request, and nothing is claimed under an endless stream of cheaper
\* ones.
PatientClientServed ==
    \A r \in Requests :
        handler[r] = "waiting" /\ Cost[r] <= BucketSize /\ r \notin Undecodable
            ~> handler[r] # "waiting" \/ r \in expired \/ ctxDone
=============================================================================
