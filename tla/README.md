# LLM Request Balancer: a TLA+ verification project

This directory holds TLA+ models of the LLM Request Balancer (the Go program
under `src/`), the TLC configurations that model-check them, and proofs checked
by TLAPS. `PROJECT.json` maps every definition to the source lines it models and
lists runs, mutants, findings, hazards and theorems.

## The system and its parts

The service accepts LLM requests over HTTP, queues them, lets a worker take them
out under a token-bucket rate limit, calls a provider, and returns the answer to
the waiting client.

| Part | State | Operations | Hard behaviour | What makes it correct |
|---|---|---|---|---|
| In-memory limiter (`limiter/token_bucket.go`) | bucket, time of the last refill, waiters | `AllowN`, `WaitN`, `ReserveN`, `GetTokensAvailableN`; `Wait`, `CancelAt` of a reservation | two mutexes; a goroutine per reservation that charges later; decisions by the clock | never grants more than burst and refill; a charge is whole, single and matches the answer; a channel is closed once |
| Request handler (`handler/request_handler.go`) | one goroutine and one response channel per request | `ServeHTTP` | the client's timeout races the answer | every client gets one answer |
| Channel registry (`queue/channel_registry.go`) | map from request id to channel | `Register`, `Get`, `Remove` | shared by handlers and workers; late removal | a channel is there when it is needed and goes when it is not |
| In-memory queue (`queue/fifo_queue.go`) | slice, mutex, condition variable | `Enqueue`, `Dequeue`, `Clear`, `cleanupExpired` | lost wake-ups, cancellation, delayed items | no item waits for a sleeping consumer; bounded size |
| Redis queue (`queue/fifo_queue.go`) | one Redis list with a time to live | `Enqueue`, `Dequeue`, `Clear` | several commands per operation, several instances, lost replies, crashes | bounded size; a second copy of an item only by a repeated push; delayed items leave in the end |
| Worker (`queue/worker.go`) | semaphore, wait group, stop channel | `EnqueueRequest`, `processLoop`, `processItem`, `Stop` | one goroutine per item; refused items go round again | no request in two places or in none; slots are balanced; clients are served |
| LLM service (`llm/provider.go`) | retry loop of a call | `Process`, `ProcessRequest`, `doRequest` | retries, backoff, timeouts | ends in time, retries only what may be retried, paced |
| Direct handler (`handler/direct_handler.go`) | none | `ServeHTTP` | as above, without queue or limiter | answers on every path |
| Server (`cmd/server/main.go`) | application context | start-up, signal, shutdown | order of shutdown steps | shutdown is initiated and ends |
| Redis limiter (`limiter/redis_limiter.go`) | two Redis keys, local waiters | Lua scripts for the operations above | clocks of several instances, key expiry, lost replies and repeated commands | as the in-memory limiter, up to the disagreement of the clocks |
| Several instances (the `UseRedis` deployment of `main.go`) | one Redis queue and limiter; a registry and a worker each | those of handler and worker | an item is popped by any instance, pushed twice, or lost with its instance | the provider is called once per push; every client is answered or there is a known reason |
| Reverse proxy, Redis client wrapper | none | not used by `main` | | |
| Configuration, logging | none after start-up | | | |

Interactions: a handler registers its channel, then enqueues; `processLoop` takes
a slot, dequeues, and starts `processItem`, which looks the channel up, asks the
limiter, then either queues the item again with a delay or calls the LLM service
and sends the response on the channel. `main` cancels the context that both
`processLoop` and `Dequeue` watch, and `Stop` waits for the loop.

## Modules

| Module | Models | State and actions |
|---|---|---|
| `RateLimit` | what a token bucket promises | a level; time raises it, a grant lowers it |
| `TokenBucket` | the in-memory limiter | a step is a critical section of `mu` or of `waitersMu`. Tokens are counted in sub-units so that a bucket can hold a part of a token, as the `float64` does. |
| `Balancer` | handlers, registry, queue, limiter, worker, shutdown of one instance | one action per step between two shared accesses; the limiter is `RateLimit`; the members of `Undecodable` are requests that `processItem` cannot deserialise (worker.go:232-238); the clock is abstracted to "delays end, items expire, clients time out at any moment" |
| `InMemoryFIFO` | inside `Dequeue`: the mutex, the condition variable, the watcher goroutines | `Lock`, `StartWatcher`, `Park`, `Relock`, `CheckDone`, `Take`, `NoneReady` are one `Dequeue`; producers and the context run in between |
| `RedisFIFO` | the Redis queue with any number of producers and instances | a step is one Redis command, or what the code does with its reply; with `Faults`, commands fail before or after their effect, the client sends an RPUSH without a reply again, and processes die |
| `RedisTokenBucket` | the Redis limiter, used by clients of any instance | a step is one script, or one critical section of `waitersMu`. A script runs at a time its caller read from a clock of its own: at most `Ahead` later and `Lag` earlier than Redis's time, in whole seconds. `Repeat` and `GiveUp` are scripts whose reply is lost |
| `Cluster` | handlers, registries and workers of several instances on one Redis queue | the steps of `Balancer`'s handler and worker, with the slot, the limiter and the size of the queue abstracted to their outcomes; an item may turn out undecodable, as in `Balancer`; `Enqueue` is one step with every outcome its commands can have in `RedisFIFO`, repeated pushes included; `Crash` |
| `ProviderCall` | one call of `Service.Process`, from the direct handler or from a worker | attempts, pauses and the clock in ticks of a `Duration`, whose multiplication wraps |
| `MC...` | small instances and symmetry | |
| `..._proofs` | inductive invariants and theorems | |
| `ListCopies` | lemmas shared by the proofs of `RedisFIFO` and `Cluster` | how many copies of a request a list holds, and what a push, a pop and the end of a delay do to that number |

How they fit together: `TokenBucket` is shown to implement `RateLimit`, which
`Balancer` uses, until the goroutine of a reservation takes tokens; the worker calls
`Allow` only, so in the program there is no such goroutine. `Balancer` treats a `Dequeue` that sleeps as one that wakes when
there is an item; `InMemoryFIFO` shows that (`NoLostWakeup`, `EventuallyTaken`).
`Balancer` assumes that a call of the provider ends; `ProviderCall` shows that it
does, within one pause of the end of its context (`ReturnsInTime`).
`RedisTokenBucket` is shown to implement `RateLimit` too, with a burst larger by
what two clocks can disagree. `Cluster` lets `Allow` answer anything, so what holds
there holds with either limiter.

## What is checked with TLC

Passing runs, with the number of distinct states:

| Run | Instance | Shows |
|---|---|---|
| `token_bucket` (2.1 million) | 3 calls of any kind, costs 0, 1 and 2, a bucket of 2 tokens, half a token per tick, 4 ticks | `TotalBound`, `WindowBound`, `AnswersMatchCharges`, `ClosedOnce`, `StrandedUncharged`; `ImplementsRateLimit`, the refinement of `RateLimit` |
| `balancer_queue` (3.0 million) | 3 requests, one too costly for the bucket and one that cannot be decoded, 2 slots, a queue of 2 | `NoSilentLoss`, `LeakOnlyIfDropped`, `SendNeverBlocks`, `SingleHome`, `SlotAccounting`, `ChannelFound`, `OvertakenOnlyIfRefused` |
| `balancer_live` (0.1 million) | a request that needs the whole bucket and a cheaper one that takes tokens away from it, 1 slot; with fairness | `PatientClientServed` |
| `memory_queue` | producers, one consumer, expiry, `Clear`, cancellation | `NoLostWakeup`, `LeakPerItem`, `EventuallyTaken` |
| `redis_queue` (0.4 million) | a producer, an instance, 3 items, a limit of 1, faults, pushes sent twice; with fairness | `OverrunBound`, `CopiesOnlyByRepeats`, `KeyHasExpiry`, `EventuallyLeaves` |
| `redis_bucket` (2.2 million) | 2 calls of any kind, costs 0, 1 and 3, a bucket of 3 tokens, clocks one tick ahead or behind and read in seconds of 2 ticks, keys that expire after 5 ticks, 1 repeated command | `ImplementsRateLimit`, `RefusalJustified`, `DebtBounded`; `AnswersPaid`, `ClosedOnce`, `StrandedOnlyByError` |
| `cluster` (0.4 million) | 2 requests accepted by one of 2 instances, one of them undecodable, 3 slots, refusals, faults, 2 repeated pushes, 1 crash | `CallsWithinPushes`, `AbandonedOnlyIfAstray`, `BlockedOnlyIfCopied` |
| `provider_call` (0.6 million) | 3 providers, up to 5 attempts, 9 ticks, a `Duration` of 4 bits | `ReturnsInTime`, `AttemptsJustified`, `PacedUntilOverflow` |

The bounds are chosen so that the interesting cases happen: a queue smaller than
the number of requests (so that it is full when a refused request comes back), a
bucket that one request empties, a limit of one item with a producer and a put-back
that can be between LLEN and RPUSH at once, each pushing twice, and enough attempts for the
backoff to grow, to be capped and to overflow. `MaxTime` in `TokenBucket` and
`RedisTokenBucket` bounds the clock, `MaxRepeats` the commands that are sent again (per item
in `RedisFIFO`, where `MaxRetries` is the client's own limit)
and `MaxCrashes` the crashes; everything else is finite because calls, requests and
items are used once. That is a limit of `PatientClientServed`: a refused request
keeps no tokens while it waits (worker.go:276-313), and nothing is claimed under an
endless stream of cheaper requests, which can starve it. Requests that can never be
granted or decoded are in `balancer_queue`, for the safety properties only; the
property is stated so that it also holds next to them. In `redis_bucket` the time is long enough for keys to expire
and be written again, and one repetition is enough for a double charge. In
`cluster` both requests are accepted by one instance, so that they compete for its
slots, and the other instance only pops. `CHECK_DEADLOCK FALSE` is set where a run
really ends: the clock stops at its bound, or all requests are over.
Each property has a mutant of the model, in `PROJECT.json`, that breaks it.

### Disagreements between the code and what it says

Each of these is a run that TLC must find violated; `PROJECT.json` quotes the line
that is contradicted.

* `memory_queue_cancel`: the signal of a cancelled context can be lost, and
  `Stop` then waits for ever.
* `cluster_answer`: with several instances on one Redis queue, an instance pops a
  request that another one accepted, finds no channel for it in its own registry,
  pays for it, calls the provider and drops the answer. No fault is needed.
* `token_bucket_nil` and `redis_bucket_nil`: the interface says that `Wait` returns
  `nil` if the tokens were consumed and an error otherwise. Both limiters return
  `nil` by the clock (token_bucket.go:251, redis_limiter.go:488 and 518-520), the
  Redis one also by a channel that it closes when the tokens were refused (line 405).
  `NilMeansConsumed` even waits for the goroutine of the reservation: it has run, and
  nothing was consumed. The passing properties about charges (`AnswersMatchCharges`,
  `AnswersPaid`) say nothing of those returns.

Seen in the code while modelling, and present in the models, but without a run of
their own:

* In-memory limiter: the goroutine of `ReserveN` tries once, and a caller of `Wait`
  may never be woken (token_bucket.go:203; `StrandedUncharged` says who); a cancelled
  reservation is still charged by its goroutine (line 190), which takes tokens without
  a refill; `Wait` on a reservation that was charged at once returns `ErrRateLimited`
  if the clock has not moved since (lines 251 and 258-261);
  `CancelAt` leaves the waiter registered once `timeToProcess` is reached (line 302).
* Redis limiter: an error leaves the entry in the maps (redis_limiter.go:393); a
  repeated command charges twice. `StrandedOnlyByError` and `AnswersPaid` say when.
* Queues: concurrent `Enqueue`s exceed `maxSize` (fifo_queue.go:368, bounded by
  `OverrunBound`), and so do the pushes that the client repeats, which also queue an
  item twice (`CopiesOnlyByRepeats`); the error of a put-back is ignored and the item lost (line 451);
  an `Enqueue` may report an error for an item that is in the queue (line 387),
  after which the answer to the copy can block a slot for ever
  (`BlockedOnlyIfCopied`).
* Worker and server: an item that cannot be deserialised is dropped without an answer
  and its channel stays registered (worker.go:237; a body at the decoder's nesting
  limit is accepted by the handler and is too deep once it is wrapped): `NoSilentLoss`,
  `LeakOnlyIfDropped` and `AbandonedOnlyIfAstray` name this case; a refused request loses its place and gets an error when the
  queue is full (worker.go:295); after a failed `ListenAndServe` the worker stops
  but main waits for a signal (main.go:236); all requests share the one key
  `default`, where README.md:20 speaks of per-model limits; every provider has the
  default provider's timeout (provider.go:119).

### Fairness

* `Balancer!Fairness`: weak fairness of every goroutine that can go on (handlers,
  `processLoop`, each `processItem`, main after a signal), which the Go scheduler
  provides, and of time (tokens are added, delays end). Nothing is assumed of
  clients' timeouts, expiry, signals, or of the wake-up by a cancelled context.
* `InMemoryFIFO!Fairness`: weak fairness of the consumer, of the watchers and of
  the end of delays. No producer has to come.
* `RedisFIFO!Fairness`: weak fairness of every goroutine, of the end of delays, and
  of BLPOP as a whole: Redis serves some consumer, not each one.

## What is proved with TLAPS

For every value of the constants that the modules' assumptions allow.

* `TokenBucket_proofs`: `TypeCorrect`, `TotalBounded`, `AnswersCorrect`,
  `ClosedCorrect`, `StrandedCorrect`, `WindowBounded` and `Refinement`.
  `TotalBound` is not inductive, since it does not know what the bucket holds.
  The invariant that is: spent plus available tokens is at most a full bucket
  plus the refill up to `lastRefillTime`. For answers and channels the invariant
  ties a reservation's goroutine (asleep, notifying, gone) to its charge, to its
  place in `waiters` and to `closed`. The refinement maps the level to what the
  bucket would hold if it were refilled now, so that a refill is a stuttering step
  and a tick is the abstract refill; it also says that every grant is an abstract
  `Spend` of the same amount, so that none can hide in a stuttering step. It and the
  window bound hold until a goroutine takes tokens from a bucket it has not refilled
  (`NoLateCharge`); `LateStays` and `PromptStep` are the lemmas for every step before.
* `Balancer_proofs`: `TypeCorrect`, `SingleHomeCorrect`, `SendNeverBlocksCorrect`,
  `ChannelFoundCorrect`, `NoSilentLossCorrect`, `LeakCorrect`, `SlotsCorrect` and
  the action property `OvertakingCorrect`.
  The properties need each other: a send does not block because the request had
  no other owner before, which needs that it was in one place, which needs that a
  handler enqueues it once. The inductive invariant is their conjunction, with
  what is known of requests not yet queued, of unsent answers and of registered
  channels. `SlotsCorrect` counts goroutines with the cardinality theorems of the
  library. For `OvertakingCorrect` the invariant `Order` says that a request arrives
  once, that only a refused request is delayed, and that only a refused request
  stands behind one that arrived later. `ThinnedOrder` is the one argument for
  `RemoveAt`, `cleanupExpired` and the end of a delay: what they leave is the old
  queue with items missing, in its order. An append is either the latest arrival or
  a refused request.
* `InMemoryFIFO_proofs`: `TypeCorrect`, `WakeupCorrect` and `LeakCorrect`.
  `NoLostWakeup` becomes inductive with the step before the sleep: from the test for
  emptiness on, the queue is empty, because every producer needs the mutex that
  `cond.Wait` gives up and goes to sleep in one step. `LeakPerItem` becomes inductive
  by counting a wake-up that is due along with the watchers left over: both are paid
  for by an accepted item.
* `Cluster_proofs`: `TypeCorrect`, `CallsCorrect`, `AbandonedCorrect`,
  `BlockedCorrect` and `FaultFreeCorrect`. The invariant counts the copies of each
  request. `Paid`: calls made, copies in the list and goroutines that may still call
  are together at most one more than the repeated pushes. `Single`: a request that was
  neither pushed twice nor reported as failed is in one place only, the list, a
  goroutine that has not answered, or its channel; a blocked send needs two. Both rest
  on `Fresh` (nobody knows of a request before its handler has queued it), and
  `AbandonedOnlyIfAstray` on `Channels` (a client that waits without an answer is
  registered, and no goroutine is about to remove it), so that the goroutine that
  looks the channel up at home finds it. `QueueStep`, `JobStep` and `NothingAdded`
  are the arguments shared by the steps of the queue, of `processItem` and of the
  handlers. `FaultFreeCorrect` draws the conclusion for a Redis that does not fail:
  one call per request at most, and no blocked send, however many instances race.
* `RedisFIFO_proofs`: `TypeCorrect`, `OverrunBounded`, `CopiesCorrect`,
  `ExpiryCorrect` and `FaultFreeCorrect`, with the repeated pushes of the client. The
  overrun is counted by what the actors that have passed the size check may still push,
  their repetitions included: the list and these pushes together never exceed the
  bound, since an actor that passes the check saw fewer than `MaxSize` items. For the
  copies, the list, the actors that hold an item they have not pushed yet and what
  `Dequeue` has returned are counted per item; a first push moves a copy, a repeated
  one is paid for by `extra`. `FaultFreeCorrect` draws the conclusion for a Redis that
  does not fail: one place per item, and a time to live on every list. The counting
  lemmas are in `ListCopies`.
* `RedisTokenBucket_proofs`: `TypeCorrect`, `DebtCorrect`, `AnswersCorrect`,
  `ClosedCorrect`, `StrandedCorrect`, `RefusalCorrect` and `Refinement`, from
  `RedisBucketAssumption` and `ExpiryAssumption`. `DebtBounded` is not inductive: a
  stored value says nothing without the clock that wrote it. The invariant `KeyInv`
  adds that this clock was at most `Ahead` and `Lag` off, that the keys were worth
  at least zero, when they were written, to an instance as far ahead as can be, and
  that the reference bucket of `RefusalJustified` holds at most what they are worth
  to one as far behind as can be. That the keys have expired is then the same as a
  full bucket, which is where `ExpiryAssumption` is used. `Control` and `Payment`
  tie where a client and its goroutine are to what the call has paid.
* `ProviderCall_proofs`: `TypeCorrect`, `InTime`, `AttemptsCorrect` and
  `PacingCorrect`. The invariant `Loop` relates the log of attempts, the counter,
  the clock and the place in the code.

Every invariant and action property of the passing runs is stated by a theorem.
Only model-checked is what needs fairness: `PatientClientServed`, `EventuallyTaken`
and `EventuallyLeaves`. Liveness under fairness and `ENABLED` are out of the
prover's reach.

## Abstractions

* Payloads, headers, logging and token usage are left out. A response is a result
  or an error.
* Request and reservation identifiers are distinct.
* The in-memory limiter has one bucket whatever the key, as in the code.
* The go-redis client, which by default repeats a command after a network error, is
  modelled by its effect: a repeated RPUSH appends another copy (`RedisFIFO`,
  `Cluster`), a repeated script charges again (`RedisTokenBucket`). Repeating LLEN,
  EXPIRE or BLPOP adds no behaviour that `RedisFIFO` does not have.
* Whether an item can be deserialised is a property of the request (`Undecodable`);
  why it cannot is not modelled.
* In `RedisTokenBucket` the clocks and the network are known by `Ahead` and `Lag`
  only: the time a script is given differs from Redis's by no more. `Lag` covers the
  rounding to whole seconds, the way to Redis and the repetitions. The keys are
  assumed to live for longer than the bucket needs to fill up (`ExpiryAssumption`;
  24 hours in the code). Both keys are written by every script and expire together.
* In `Cluster` an instance that crashes comes back with an empty registry and its
  clients are gone. Shutdown is left to `Balancer`.
* `Balancer` has one instance. Its limiter may fail (`JobAllow`), as the interface
  allows; the in-memory one does so only for a cost that is not positive.
* `DefaultProvider` is assumed to be configured.

## Not modelled

The reverse proxy (`internal/proxy`) and the Redis client wrapper (`pkg/redisclient`)
are not used by the program; what they do is sequential I/O without state of their
own. Loading the configuration happens once, before anything runs, and its values
are the constants of the modules; of `main` only what runs after the set-up is
modelled. Logging and the health endpoint keep no state. `ProcessAsync`,
`ProcessRequestAsync`, `EstimateTokens`, `Clear` of the registry, and `Peek` and
`Size` of the queues have no caller or only read.

## Plan

1. `TokenBucket`, `RateLimit`, `Balancer`, `InMemoryFIFO`, `RedisFIFO`,
   `ProviderCall`, `RedisTokenBucket` and `Cluster` with their runs, and the proofs
   above: done.
2. The invariants of `InMemoryFIFO` and of `Cluster` and the action property of
   `Balancer` proved: done.
3. Left: nothing of what the runs check but the three liveness properties, which
   stay with TLC.
