--------------------------- MODULE Balancer_proofs ---------------------------
(***************************************************************************)
(* Proofs about Balancer, for any number of requests and goroutines, any   *)
(* costs and any sizes of the queue, the bucket and the semaphore.         *)
(***************************************************************************)
EXTENDS Balancer, FiniteSetTheorems, SequenceTheorems, TLAPS

-----------------------------------------------------------------------------
(* Sequences.                                                              *)

\* What is left of a sequence when its k-th element is removed (line 252 of
\* fifo_queue.go).
LEMMA RemoveAtFacts ==
    ASSUME NEW S, NEW s \in Seq(S), NEW k \in DOMAIN s
    PROVE  /\ RemoveAt(s, k) \in Seq(S)
           /\ Len(RemoveAt(s, k)) = Len(s) - 1
           /\ \A i \in DOMAIN RemoveAt(s, k) :
                /\ i < k => i \in DOMAIN s /\ RemoveAt(s, k)[i] = s[i]
                /\ i >= k => i + 1 \in DOMAIN s /\ RemoveAt(s, k)[i] = s[i + 1]
           /\ \A i \in DOMAIN s :
                /\ i < k => i \in DOMAIN RemoveAt(s, k) /\ RemoveAt(s, k)[i] = s[i]
                /\ i > k => i - 1 \in DOMAIN RemoveAt(s, k) /\ RemoveAt(s, k)[i - 1] = s[i]
<1> DEFINE a == SubSeq(s, 1, k - 1)
           b == SubSeq(s, k + 1, Len(s))
<1>0. Len(s) \in Nat /\ DOMAIN s = 1 .. Len(s) /\ k \in 1 .. Len(s)
  OBVIOUS
<1>1. a \in Seq(S) /\ Len(a) = k - 1 /\ \A i \in 1 .. k - 1 : a[i] = s[i]
  BY <1>0
<1>2. b \in Seq(S) /\ Len(b) = Len(s) - k /\ \A i \in 1 .. Len(s) - k : b[i] = s[k + i]
  BY <1>0
<1> HIDE DEF a, b
<1>3. /\ a \o b \in Seq(S)
      /\ Len(a \o b) = Len(s) - 1
      /\ DOMAIN (a \o b) = 1 .. Len(s) - 1
  <2>1. a \o b \in Seq(S) /\ Len(a \o b) = Len(a) + Len(b)
    BY <1>1, <1>2, ConcatProperties
  <2>2. Len(a \o b) = Len(s) - 1
    BY <1>0, <1>1, <1>2, <2>1
  <2>3. DOMAIN (a \o b) = 1 .. Len(a \o b)
    BY <2>1, LenProperties
  <2> QED BY <2>1, <2>2, <2>3
<1>4. ASSUME NEW i \in 1 .. Len(s) - 1
      PROVE  (a \o b)[i] = IF i < k THEN s[i] ELSE s[i + 1]
  <2>1. i \in 1 .. Len(a) + Len(b) /\ i \in Int /\ k \in Int
    BY <1>0, <1>1, <1>2
  <2>2. (a \o b)[i] = IF i <= Len(a) THEN a[i] ELSE b[i - Len(a)]
    BY <1>1, <1>2, <2>1, ConcatProperties
  <2>3. CASE i < k
    BY <1>0, <1>1, <2>1, <2>2, <2>3
  <2>4. CASE ~(i < k)
    <3>1. i - Len(a) \in 1 .. Len(s) - k /\ ~(i <= Len(a)) /\ k + (i - Len(a)) = i + 1
      BY <1>0, <1>1, <2>1, <2>4
    <3>2. (a \o b)[i] = b[i - Len(a)]
      BY <2>2, <3>1
    <3>3. b[i - Len(a)] = s[k + (i - Len(a))]
      BY <1>2, <3>1
    <3>4. s[k + (i - Len(a))] = s[i + 1]
      BY <3>1
    <3> QED BY <2>4, <3>2, <3>3, <3>4
  <2> QED BY <2>3, <2>4
<1>5. RemoveAt(s, k) = a \o b
  BY DEF RemoveAt, a, b
<1> DEFINE t == a \o b
<1>6. t \in Seq(S) /\ Len(t) = Len(s) - 1 /\ DOMAIN t = 1 .. Len(s) - 1
  BY <1>3
<1>7. \A i \in 1 .. Len(s) - 1 : t[i] = IF i < k THEN s[i] ELSE s[i + 1]
  BY <1>4
<1>8. RemoveAt(s, k) = t
  BY <1>5
<1> HIDE DEF t
<1>9. ASSUME NEW i \in DOMAIN t
      PROVE  /\ i < k => i \in DOMAIN s /\ t[i] = s[i]
             /\ i >= k => i + 1 \in DOMAIN s /\ t[i] = s[i + 1]
  BY <1>0, <1>6, <1>7
<1>10. ASSUME NEW i \in DOMAIN s, i < k
       PROVE  i \in DOMAIN t /\ t[i] = s[i]
  BY <1>0, <1>6, <1>7, <1>10
<1>11. ASSUME NEW i \in DOMAIN s, i > k
       PROVE  i - 1 \in DOMAIN t /\ t[i - 1] = s[i]
  <2>1. i - 1 \in 1 .. Len(s) - 1 /\ ~(i - 1 < k) /\ (i - 1) + 1 = i
    BY <1>0, <1>11
  <2>2. t[i - 1] = s[(i - 1) + 1]
    BY <1>7, <2>1
  <2> QED BY <1>6, <2>1, <2>2
<1> QED BY <1>6, <1>8, <1>9, <1>10, <1>11

(* The queue is reasoned about through two notions only: which requests it *)
(* holds, and that it holds none twice.                                    *)

Has(s, r) == \E i \in DOMAIN s : s[i].id = r

Distinct(s) == \A i, j \in DOMAIN s : s[i].id = s[j].id => i = j

LEMMA AppendHas ==
    ASSUME NEW s \in Seq(Items), NEW e \in Items, NEW t, t = Append(s, e)
    PROVE  /\ t \in Seq(Items)
           /\ Len(t) = Len(s) + 1
           /\ \A q : Has(t, q) <=> Has(s, q) \/ q = e.id
           /\ Distinct(s) /\ ~Has(s, e.id) => Distinct(t)
<1>1. /\ t \in Seq(Items)
      /\ Len(t) = Len(s) + 1
      /\ \A i \in 1 .. Len(s) : t[i] = s[i]
      /\ t[Len(s) + 1] = e
  BY AppendProperties
<1>2. t[Len(s) + 1].id = e.id
  BY <1>1
<1>3. /\ Len(s) \in Nat
      /\ DOMAIN s = 1 .. Len(s)
      /\ DOMAIN t = 1 .. Len(s) + 1
  BY <1>1, LenProperties
<1>4. \A i \in DOMAIN s : i \in DOMAIN t /\ t[i] = s[i]
  BY <1>1, <1>3
<1>5. \A i \in DOMAIN t : i \in DOMAIN s \/ i = Len(s) + 1
  BY <1>3
<1>6. Len(s) + 1 \in DOMAIN t
  BY <1>3
<1>7. ASSUME NEW q PROVE Has(t, q) <=> Has(s, q) \/ q = e.id
  BY <1>2, <1>4, <1>5, <1>6 DEF Has
<1>8. Distinct(s) /\ ~Has(s, e.id) => Distinct(t)
  BY <1>2, <1>4, <1>5 DEF Has, Distinct
<1> QED BY <1>1, <1>7, <1>8

LEMMA RemoveAtHas ==
    ASSUME NEW s \in Seq(Items), NEW k \in DOMAIN s, NEW t, t = RemoveAt(s, k)
    PROVE  /\ t \in Seq(Items)
           /\ Len(t) = Len(s) - 1
           /\ \A q : Has(t, q) => Has(s, q)
           /\ \A q : Has(s, q) => Has(t, q) \/ q = s[k].id
           /\ Distinct(s) => Distinct(t) /\ ~Has(t, s[k].id)
<1>0. Len(s) \in Nat /\ DOMAIN s = 1 .. Len(s) /\ k \in Int
  BY LenProperties
<1>1. /\ t \in Seq(Items)
      /\ Len(t) = Len(s) - 1
      /\ \A i \in DOMAIN t :
           /\ i < k => i \in DOMAIN s /\ t[i] = s[i]
           /\ i >= k => i + 1 \in DOMAIN s /\ t[i] = s[i + 1]
      /\ \A i \in DOMAIN s :
           /\ i < k => i \in DOMAIN t /\ t[i] = s[i]
           /\ i > k => i - 1 \in DOMAIN t /\ t[i - 1] = s[i]
  BY RemoveAtFacts
<1>2. DOMAIN t = 1 .. Len(t) /\ Len(t) \in Nat
  BY <1>1, LenProperties
<1> DEFINE src(i) == IF i < k THEN i ELSE i + 1
<1>3. \A i \in DOMAIN t : src(i) \in DOMAIN s /\ t[i] = s[src(i)] /\ src(i) # k
  BY <1>0, <1>1, <1>2
<1>4. \A i, j \in DOMAIN t : src(i) = src(j) => i = j
  BY <1>0, <1>2
<1>5. \A i \in DOMAIN s : i = k \/ \E j \in DOMAIN t : t[j] = s[i]
  BY <1>0, <1>1
<1> HIDE DEF src
<1>6. \A q : Has(t, q) => Has(s, q)
  BY <1>3 DEF Has
<1>7. \A q : Has(s, q) => Has(t, q) \/ q = s[k].id
  BY <1>5 DEF Has
<1>8. Distinct(s) => Distinct(t) /\ ~Has(t, s[k].id)
  BY <1>3, <1>4 DEF Has, Distinct
<1> QED BY <1>1, <1>6, <1>7, <1>8

LEMMA RipenType ==
    ASSUME NEW s \in Seq(Items), NEW k \in DOMAIN s, NEW t, t = [s EXCEPT ![k].ready = TRUE]
    PROVE  t \in Seq(Items) /\ Len(t) = Len(s)
<1>0. Len(s) \in Nat /\ DOMAIN s = 1 .. Len(s) /\ s \in [1 .. Len(s) -> Items]
  BY LenProperties
<1>1. s[k] \in Items /\ [s[k] EXCEPT !.ready = TRUE] \in Items
  BY <1>0 DEF Items
<1>2. t = [s EXCEPT ![k] = [s[k] EXCEPT !.ready = TRUE]]
  OBVIOUS
<1> QED BY <1>0, <1>1, <1>2, ExceptSeq

-----------------------------------------------------------------------------
(* The inductive invariant.                                                *)

\* The goroutine holds its item and has not answered it yet.
Unanswered(g) == job[g] \in {"start", "allow", "requeue", "process", "reply"}

\* It holds its item: Owns(g, item[g]).
Owner(g) == job[g] \notin {"idle", "release"}

\* SingleHome, in terms of Has and Distinct.
Home ==
    /\ Distinct(queue)
    /\ \A g, h \in Goroutines : Owner(g) /\ Owner(h) /\ item[g] = item[h] => g = h
    /\ \A g \in Goroutines : Owner(g) => ~Has(queue, item[g])

\* A request whose handler has not queued it is known to nobody else.
Fresh ==
    \A r \in Requests : handler[r] \in {"idle", "rejected", "registered"} =>
        /\ channel[r] = "empty"
        /\ ~Has(queue, r)
        /\ \A g \in Goroutines : Owner(g) => item[g] # r

\* No answer was sent for a request that is queued or still to be answered.
Unsent ==
    /\ \A r \in Requests : Has(queue, r) => channel[r] = "empty"
    /\ \A g \in Goroutines : Unanswered(g) => channel[item[g]] = "empty"

\* A channel stays registered until the goroutine that answers removes it.
Registered ==
    /\ \A r \in Requests : handler[r] = "registered" => r \in registry
    /\ \A r \in Requests : Has(queue, r) => r \in registry
    /\ \A g \in Goroutines : Owner(g) => item[g] \in registry
    /\ \A g \in Goroutines : job[g] \notin {"idle", "start", "release"} => found[g]

\* NoSilentLoss and LeakOnlyIfDropped, in the same terms.
NoLoss ==
    \A r \in Requests : handler[r] = "waiting" =>
        \/ Has(queue, r)
        \/ \E g \in Goroutines : Unanswered(g) /\ item[g] = r
        \/ channel[r] # "empty"
        \/ r \in expired \cup undecoded

NoLeak ==
    \A r \in registry :
        \/ handler[r] = "registered"
        \/ Has(queue, r)
        \/ \E g \in Goroutines : Owner(g) /\ item[g] = r
        \/ r \in expired \cup undecoded

Conserved == Home /\ Fresh /\ Unsent /\ Registered /\ NoLoss /\ NoLeak

LEMMA InitConserved == Init => TypeOK /\ Conserved
<1> SUFFICES ASSUME Init PROVE TypeOK /\ Conserved
  OBVIOUS
<1>1. queue = <<>> /\ queue \in Seq(Items) /\ Len(queue) = 0 /\ DOMAIN queue = {}
  BY EmptySeq DEF Init
<1>2. \A r : ~Has(queue, r)
  BY <1>1 DEF Has
<1>3. TypeOK
  <2>1. tokens \in 0 .. BucketSize /\ 0 <= MaxSize
    BY BalancerAssumption DEF Init, Limiter!Init
  <2>2. arrivals \in Seq(Requests)
    BY EmptySeq DEF Init
  <2>3. queue \in Seq(Items) /\ Len(queue) <= MaxSize
    BY <1>1, <2>1
  <2>4. /\ handler \in [Requests -> {"idle"}]
        /\ channel \in [Requests -> {"empty"}]
        /\ job \in [Goroutines -> {"idle"}]
        /\ item \in [Goroutines -> {NoRequest}]
        /\ found \in [Goroutines -> BOOLEAN]
        /\ response \in [Goroutines -> {"error"}]
    BY DEF Init
  <2>5. /\ registry = {} /\ semaphore = 0 /\ loop = "top" /\ main = "serving"
        /\ ctxDone = FALSE /\ stopCh = FALSE /\ refused = {} /\ expired = {} /\ undecoded = {}
    BY DEF Init
  <2>6. ctxDone \in BOOLEAN /\ stopCh \in BOOLEAN
    BY <2>5
  <2>7. /\ handler \in [Requests -> {"idle", "rejected", "registered", "waiting",
                                    "answered", "failed", "timedout"}]
        /\ channel \in [Requests -> {"empty", "result", "error"}]
        /\ job \in [Goroutines -> {"idle", "start", "allow", "requeue", "process",
                                  "reply", "remove", "release"}]
        /\ item \in [Goroutines -> Requests \cup {NoRequest}]
        /\ \A g \in Goroutines : job[g] # "idle" => item[g] \in Requests
        /\ response \in [Goroutines -> {"result", "error"}]
    BY <2>4
  <2>8. /\ registry \subseteq Requests /\ refused \subseteq Requests
        /\ expired \subseteq Requests /\ undecoded \subseteq Requests
    BY <2>5
  <2> QED BY <2>1, <2>2, <2>3, <2>4, <2>5, <2>6, <2>7, <2>8 DEF TypeOK
<1>4. Distinct(queue)
  BY <1>1 DEF Distinct
<1>5. Conserved
  BY <1>2, <1>4 DEF Init, Conserved, Home, Fresh, Unsent, Registered, NoLoss, NoLeak, Owner, Unanswered
<1> QED BY <1>3, <1>5

\* The levels of the limiter.
LEMMA TokensType ==
    ASSUME TypeOK
    PROVE  /\ Limiter!Refill => tokens' \in 0 .. BucketSize
           /\ \A n \in Nat : Limiter!Spend(n) => tokens' \in 0 .. BucketSize
BY BalancerAssumption DEF TypeOK, Limiter!Refill, Limiter!Spend, Limiter!Lesser

LEMMA QueueType ==
    ASSUME TypeOK
    PROVE  /\ queue \in Seq(Items)
           /\ Len(queue) \in Nat /\ MaxSize \in Nat /\ Len(queue) <= MaxSize
           /\ \A k \in DOMAIN queue : queue[k] \in Items /\ queue[k].id \in Requests
<1>1. queue \in Seq(Items) /\ Len(queue) <= MaxSize
  BY DEF TypeOK
<1>2. Len(queue) \in Nat /\ DOMAIN queue = 1 .. Len(queue) /\ queue \in [1 .. Len(queue) -> Items]
  BY <1>1, LenProperties
<1>3. \A k \in DOMAIN queue : queue[k] \in Items
  BY <1>2
<1> QED BY <1>1, <1>2, <1>3, BalancerAssumption DEF Items

-----------------------------------------------------------------------------
(* Types.                                                                  *)

LEMMA HandlerType ==
    ASSUME TypeOK, NEW r \in Requests, HandlerStep(r)
    PROVE  TypeOK'
<1>1. CASE Reject(r) \/ Register(r) \/ Timeout(r)
  BY <1>1 DEF TypeOK, Reject, Register, Timeout, loopVars, jobVars, mainVars, history
<1>2. CASE HandlerEnqueue(r)
  <2>1. CASE /\ Full
             /\ registry' = registry \ {r}
             /\ handler' = [handler EXCEPT ![r] = "failed"]
             /\ UNCHANGED <<queue, arrivals>>
    BY <1>2, <2>1 DEF TypeOK, HandlerEnqueue, loopVars, jobVars, mainVars
  <2>2. CASE /\ ~Full
             /\ queue' = Append(queue, [id |-> r, ready |-> TRUE])
             /\ arrivals' = Append(arrivals, r)
             /\ handler' = [handler EXCEPT ![r] = "waiting"]
             /\ UNCHANGED registry
    <3>0. [id |-> r, ready |-> TRUE] \in Items
      BY DEF Items
    <3>1. queue' \in Seq(Items) /\ Len(queue') = Len(queue) + 1
      BY <2>2, <3>0, QueueType, AppendHas
    <3>2. Len(queue') <= MaxSize
      BY <2>2, <3>1, QueueType DEF Full
    <3>3. arrivals' \in Seq(Requests)
      BY <2>2, AppendProperties DEF TypeOK
    <3> QED BY <1>2, <2>2, <3>1, <3>2, <3>3 DEF TypeOK, HandlerEnqueue, loopVars, jobVars, mainVars
  <2> QED BY <1>2, <2>1, <2>2 DEF HandlerEnqueue
<1>3. CASE Receive(r)
  BY <1>3 DEF TypeOK, Receive, loopVars, jobVars, mainVars, history
<1> QED BY <1>1, <1>2, <1>3 DEF HandlerStep

LEMMA TimeType ==
    ASSUME TypeOK, TimeStep
    PROVE  TypeOK'
<1>1. CASE Refill
  BY <1>1, TokensType DEF TypeOK, Refill, handlerVars, loopVars, jobVars, mainVars, history
<1>2. ASSUME NEW r \in Requests, Ripen(r) PROVE TypeOK'
  <2>1. queue' \in Seq(Items) /\ Len(queue') = Len(queue)
    BY <1>2, RipenType DEF TypeOK, Ripen
  <2> QED BY <1>2, <2>1 DEF TypeOK, Ripen, handlerVars, loopVars, jobVars, mainVars, history
<1>3. CASE CleanupExpired
  <2>0. PICK n \in 0 .. Len(queue) - 1 : \E kept \in [1 .. n -> DOMAIN queue] :
          /\ \A i, j \in 1 .. n : i < j => kept[i] < kept[j]
          /\ queue' = [i \in 1 .. n |-> queue[kept[i]]]
          /\ expired' = expired \cup
               {queue[k].id : k \in {k \in DOMAIN queue : \A i \in 1 .. n : kept[i] # k}}
    BY <1>3 DEF CleanupExpired
  <2>1. PICK kept \in [1 .. n -> DOMAIN queue] :
          /\ \A i, j \in 1 .. n : i < j => kept[i] < kept[j]
          /\ queue' = [i \in 1 .. n |-> queue[kept[i]]]
          /\ expired' = expired \cup
               {queue[k].id : k \in {k \in DOMAIN queue : \A i \in 1 .. n : kept[i] # k}}
    BY <2>0
  <2>2. queue' \in Seq(Items) /\ Len(queue') = n
    <3>1. queue' \in [1 .. n -> Items] /\ \A i \in 1 .. n : queue'[i] = queue[kept[i]]
      BY <2>1, QueueType
    <3> QED BY <3>1
  <2>3. Len(queue') <= MaxSize
    BY <2>2, QueueType
  <2>4. expired' \subseteq Requests
    BY <2>1, QueueType DEF TypeOK
  <2> QED BY <1>3, <2>2, <2>3, <2>4 DEF TypeOK, CleanupExpired, handlerVars, loopVars, jobVars, mainVars
<1> QED BY <1>1, <1>2, <1>3 DEF TimeStep

LEMMA LoopType ==
    ASSUME TypeOK, LoopStep
    PROVE  TypeOK'
<1>1. CASE LoopTop \/ Acquire \/ DequeueNotReady \/ DequeueBlocks \/ DequeueWakes
           \/ DequeueCancelled \/ LoopExits
  BY <1>1 DEF TypeOK, LoopTop, Acquire, DequeueNotReady, DequeueBlocks, DequeueWakes,
              DequeueCancelled, LoopExits, handlerVars, jobVars, mainVars, history
<1>2. CASE Dequeue
  <2>1. PICK k \in DOMAIN queue, g \in Goroutines :
          /\ job' = [job EXCEPT ![g] = "start"]
          /\ item' = [item EXCEPT ![g] = queue[k].id]
          /\ queue' = RemoveAt(queue, k)
    BY <1>2 DEF Dequeue
  <2>2. queue' \in Seq(Items) /\ Len(queue') = Len(queue) - 1
    BY <2>1, QueueType, RemoveAtHas
  <2>3. queue[k].id \in Requests
    BY QueueType
  <2>4. Len(queue') <= MaxSize
    BY <2>2, QueueType
  <2> QED BY <1>2, <2>1, <2>2, <2>3, <2>4 DEF TypeOK, Dequeue, handlerVars, mainVars, history
<1> QED BY <1>1, <1>2 DEF LoopStep

LEMMA JobType ==
    ASSUME TypeOK, NEW g \in Goroutines, JobStep(g)
    PROVE  TypeOK'
<1>1. CASE JobStart(g) \/ JobProcess(g) \/ JobSend(g) \/ JobRemove(g)
  <2>1. CASE JobStart(g)
    <3>1. item[g] \in Requests
      BY <2>1 DEF TypeOK, JobStart
    <3>2. CASE item[g] \in Undecodable
      BY <2>1, <3>1, <3>2 DEF TypeOK, JobStart, Step, handlerVars, loopVars, mainVars
    <3>3. CASE item[g] \notin Undecodable
      <4>1. found' = [found EXCEPT ![g] = item[g] \in registry] /\ UNCHANGED undecoded
        BY <2>1, <3>3 DEF JobStart
      <4>2. found' \in [Goroutines -> BOOLEAN]
        BY <4>1 DEF TypeOK
      <4>3. job' = [job EXCEPT ![g] = "allow"] /\ job[g] = "start"
        BY <2>1, <3>3 DEF JobStart, Step
      <4> QED BY <2>1, <3>1, <4>1, <4>2, <4>3 DEF TypeOK, JobStart, handlerVars, loopVars, mainVars
    <3> QED BY <3>2, <3>3
  <2>2. CASE JobProcess(g)
    BY <2>2 DEF TypeOK, JobProcess, Respond, Step, handlerVars, loopVars, mainVars, history
  <2>3. CASE JobSend(g)
    BY <2>3 DEF TypeOK, JobSend, Step, loopVars, mainVars, history
  <2>4. CASE JobRemove(g)
    BY <2>4 DEF TypeOK, JobRemove, Step, handlerVars, loopVars, mainVars, history
  <2> QED BY <1>1, <2>1, <2>2, <2>3, <2>4
<1>2. CASE JobAllow(g)
  <2>1. item[g] \in Requests /\ Cost[item[g]] \in Nat
    BY <1>2, BalancerAssumption DEF TypeOK, JobAllow
  <2>2. tokens' \in 0 .. BucketSize
    BY <1>2, <2>1, TokensType DEF JobAllow, TypeOK
  <2> QED BY <1>2, <2>1, <2>2 DEF TypeOK, JobAllow, Respond, Step, handlerVars, loopVars, mainVars
<1>3. CASE JobRequeue(g)
  <2>1. CASE /\ ~Full
             /\ queue' = Append(queue, [id |-> item[g], ready |-> FALSE])
             /\ Step(g, "release")
             /\ UNCHANGED response
    <3>1. item[g] \in Requests
      BY <1>3 DEF TypeOK, JobRequeue
    <3>0. [id |-> item[g], ready |-> FALSE] \in Items
      BY <3>1 DEF Items
    <3>2. queue' \in Seq(Items) /\ Len(queue') = Len(queue) + 1
      BY <2>1, <3>0, QueueType, AppendHas
    <3>3. Len(queue') <= MaxSize
      BY <2>1, <3>2, QueueType DEF Full
    <3> QED BY <1>3, <2>1, <3>1, <3>2, <3>3 DEF TypeOK, JobRequeue, Step, handlerVars, loopVars, mainVars, history
  <2>2. CASE Respond(g, "error") /\ UNCHANGED queue
    BY <1>3, <2>2 DEF TypeOK, JobRequeue, Respond, Step, handlerVars, loopVars, mainVars, history
  <2> QED BY <1>3, <2>1, <2>2 DEF JobRequeue
<1>4. CASE JobRelease(g)
  BY <1>4 DEF TypeOK, JobRelease, Step, handlerVars, mainVars, history
<1> QED BY <1>1, <1>2, <1>3, <1>4 DEF JobStep

LEMMA MainType ==
    ASSUME TypeOK, MainStep
    PROVE  TypeOK'
BY DEF TypeOK, MainStep, ServerError, Signal, ShutdownReturns, StopCloses, StopReturns,
       handlerVars, loopVars, jobVars, history

LEMMA NextType == TypeOK /\ [Next]_vars => TypeOK'
<1> SUFFICES ASSUME TypeOK, [Next]_vars PROVE TypeOK'
  OBVIOUS
<1>1. CASE UNCHANGED vars
  BY <1>1 DEF TypeOK, vars, handlerVars, loopVars, jobVars, mainVars, history
<1> QED BY <1>1, HandlerType, TimeType, LoopType, JobType, MainType DEF Next, Terminated

\* Every variable keeps its type, and the queue never holds more than MaxSize
\* items, whether they come from handlers or from refused requests.
THEOREM TypeCorrect == Spec => []TypeOK
BY InitConserved, NextType, PTL DEF Spec

-----------------------------------------------------------------------------
(* Conservation: no step loses, duplicates or answers a request twice.     *)

LEMMA FrameConserved ==
    ASSUME Conserved,
           UNCHANGED <<handler, registry, channel, queue, job, item, found, expired, undecoded>>
    PROVE  Conserved'
BY DEF Conserved, Home, Fresh, Unsent, Registered, NoLoss, NoLeak, Owner, Unanswered, Has, Distinct

LEMMA HandlerConserved ==
    ASSUME TypeOK, Conserved, NEW r \in Requests, HandlerStep(r)
    PROVE  Conserved'
<1>1. CASE Reject(r)
  <2>1. /\ handler' = [handler EXCEPT ![r] = "rejected"] /\ handler[r] = "idle"
        /\ UNCHANGED <<registry, channel, queue, job, item, found, expired, undecoded>>
    BY <1>1 DEF Reject, jobVars, history
  <2>2. handler'[r] = "rejected" /\ \A q \in Requests : q # r => handler'[q] = handler[q]
    BY <2>1 DEF TypeOK
  <2>3. Home' /\ Unsent'
    BY <2>1 DEF Conserved, Home, Unsent, Owner, Unanswered
  <2>4. Fresh'
    BY <2>1, <2>2 DEF Conserved, Fresh, Owner
  <2>5. Registered'
    BY <2>1, <2>2 DEF Conserved, Registered, Owner
  <2>6. NoLoss' /\ NoLeak'
    BY <2>1, <2>2 DEF TypeOK, Conserved, NoLoss, NoLeak, Owner, Unanswered
  <2> QED BY <2>3, <2>4, <2>5, <2>6 DEF Conserved
<1>2. CASE Register(r)
  <2>1. /\ handler' = [handler EXCEPT ![r] = "registered"] /\ handler[r] = "idle"
        /\ registry' = registry \cup {r}
        /\ UNCHANGED <<channel, queue, job, item, found, expired, undecoded>>
    BY <1>2 DEF Register, jobVars, history
  <2>2. handler'[r] = "registered" /\ \A q \in Requests : q # r => handler'[q] = handler[q]
    BY <2>1 DEF TypeOK
  <2>3. Home' /\ Unsent'
    BY <2>1 DEF Conserved, Home, Unsent, Owner, Unanswered
  <2>4. Fresh'
    BY <2>1, <2>2 DEF Conserved, Fresh, Owner
  <2>5. Registered'
    BY <2>1, <2>2 DEF Conserved, Registered, Owner
  <2>6. NoLoss' /\ NoLeak'
    BY <2>1, <2>2 DEF TypeOK, Conserved, NoLoss, NoLeak, Owner, Unanswered
  <2> QED BY <2>3, <2>4, <2>5, <2>6 DEF Conserved
<1>3. CASE HandlerEnqueue(r)
  <2>0. /\ handler[r] = "registered"
        /\ UNCHANGED <<channel, job, item, found, expired, undecoded>>
    BY <1>3 DEF HandlerEnqueue, jobVars
  <2>1. CASE /\ registry' = registry \ {r}
             /\ handler' = [handler EXCEPT ![r] = "failed"]
             /\ UNCHANGED queue
    <3>1. handler'[r] = "failed" /\ \A q \in Requests : q # r => handler'[q] = handler[q]
      BY <2>1 DEF TypeOK
    <3>2. ~Has(queue, r) /\ \A g \in Goroutines : Owner(g) => item[g] # r
      BY <2>0 DEF Conserved, Fresh
    <3>3. Home' /\ Unsent'
      BY <2>0, <2>1 DEF Conserved, Home, Unsent, Owner, Unanswered
    <3>4. Fresh'
      BY <2>0, <2>1, <3>1 DEF Conserved, Fresh, Owner
    <3>5. Registered'
      BY <2>0, <2>1, <3>1, <3>2 DEF Conserved, Registered, Owner
    <3>6. NoLoss' /\ NoLeak'
      BY <2>0, <2>1, <3>1 DEF TypeOK, Conserved, NoLoss, NoLeak, Owner, Unanswered
    <3> QED BY <3>3, <3>4, <3>5, <3>6 DEF Conserved
  <2>2. CASE /\ queue' = Append(queue, [id |-> r, ready |-> TRUE])
             /\ handler' = [handler EXCEPT ![r] = "waiting"]
             /\ UNCHANGED registry
    <3>1. /\ \A q : Has(queue', q) <=> Has(queue, q) \/ q = r
          /\ Distinct(queue) /\ ~Has(queue, r) => Distinct(queue')
      <4> DEFINE e == [id |-> r, ready |-> TRUE]
      <4>1. e \in Items /\ e.id = r /\ queue' = Append(queue, e)
        BY <2>2 DEF Items
      <4> HIDE DEF e
      <4>2. /\ \A q : Has(queue', q) <=> Has(queue, q) \/ q = e.id
            /\ Distinct(queue) /\ ~Has(queue, e.id) => Distinct(queue')
        BY <4>1, QueueType, AppendHas
      <4> QED BY <4>1, <4>2
    <3>2. handler'[r] = "waiting" /\ \A q \in Requests : q # r => handler'[q] = handler[q]
      BY <2>2 DEF TypeOK
    <3>3. Home'
      BY <2>0, <2>2, <3>1 DEF Conserved, Home, Fresh, Owner
    <3>4. Fresh'
      BY <2>0, <2>2, <3>1, <3>2 DEF Conserved, Fresh, Owner
    <3>5. Unsent'
      BY <2>0, <2>2, <3>1 DEF Conserved, Fresh, Unsent, Unanswered
    <3>6. Registered'
      BY <2>0, <2>2, <3>1, <3>2 DEF Conserved, Registered, Owner
    <3>7. NoLoss' /\ NoLeak'
      BY <2>0, <2>2, <3>1, <3>2 DEF TypeOK, Conserved, NoLoss, NoLeak, Owner, Unanswered
    <3> QED BY <3>3, <3>4, <3>5, <3>6, <3>7 DEF Conserved
  <2> QED BY <1>3, <2>1, <2>2 DEF HandlerEnqueue
<1>4. CASE Receive(r)
  <2>1. /\ handler' = [handler EXCEPT ![r] = IF channel[r] = "result" THEN "answered" ELSE "failed"]
        /\ handler[r] = "waiting" /\ channel[r] # "empty"
        /\ channel' = [channel EXCEPT ![r] = "empty"]
        /\ UNCHANGED <<registry, queue, job, item, found, expired, undecoded>>
    BY <1>4 DEF Receive, jobVars, history
  <2>2. handler'[r] \in {"answered", "failed"} /\ \A q \in Requests : q # r => handler'[q] = handler[q]
    BY <2>1 DEF TypeOK
  <2>3. channel'[r] = "empty" /\ \A q \in Requests : q # r => channel'[q] = channel[q]
    BY <2>1 DEF TypeOK
  <2>4. \A q : channel[q] = "empty" /\ q \in Requests => channel'[q] = "empty"
    BY <2>3
  <2>5. Home'
    BY <2>1 DEF Conserved, Home, Owner
  <2>6. Fresh'
    BY <2>1, <2>2, <2>4 DEF Conserved, Fresh, Owner
  <2>7. Unsent'
    BY <2>1, <2>4 DEF TypeOK, Conserved, Unsent, Unanswered
  <2>8. Registered'
    BY <2>1, <2>2 DEF Conserved, Registered, Owner
  <2>9. NoLoss'
    BY <2>1, <2>2, <2>3 DEF Conserved, NoLoss, Unanswered
  <2>10. NoLeak'
    BY <2>1, <2>2 DEF TypeOK, Conserved, NoLeak, Owner
  <2> QED BY <2>5, <2>6, <2>7, <2>8, <2>9, <2>10 DEF Conserved
<1>5. CASE Timeout(r)
  <2>1. /\ handler' = [handler EXCEPT ![r] = "timedout"] /\ handler[r] = "waiting"
        /\ UNCHANGED <<registry, channel, queue, job, item, found, expired, undecoded>>
    BY <1>5 DEF Timeout, jobVars, history
  <2>2. handler'[r] = "timedout" /\ \A q \in Requests : q # r => handler'[q] = handler[q]
    BY <2>1 DEF TypeOK
  <2>3. Home' /\ Unsent'
    BY <2>1 DEF Conserved, Home, Unsent, Owner, Unanswered
  <2>4. Fresh'
    BY <2>1, <2>2 DEF Conserved, Fresh, Owner
  <2>5. Registered'
    BY <2>1, <2>2 DEF Conserved, Registered, Owner
  <2>6. NoLoss' /\ NoLeak'
    BY <2>1, <2>2 DEF TypeOK, Conserved, NoLoss, NoLeak, Owner, Unanswered
  <2> QED BY <2>3, <2>4, <2>5, <2>6 DEF Conserved
<1> QED BY <1>1, <1>2, <1>3, <1>4, <1>5 DEF HandlerStep

LEMMA TimeConserved ==
    ASSUME TypeOK, Conserved, TimeStep
    PROVE  Conserved'
<1>1. CASE Refill
  BY <1>1, FrameConserved DEF Refill, handlerVars, jobVars, history
<1>2. ASSUME NEW r \in Requests, Ripen(r) PROVE Conserved'
  <2>1. PICK i \in DOMAIN queue : queue' = [queue EXCEPT ![i].ready = TRUE]
    BY <1>2 DEF Ripen
  <2>2. queue \in [1 .. Len(queue) -> Items] /\ DOMAIN queue = 1 .. Len(queue)
    BY QueueType, LenProperties
  <2>3. (\A q : Has(queue', q) <=> Has(queue, q)) /\ (Distinct(queue) => Distinct(queue'))
    <3>1. queue[i] \in Items
      BY <2>1, <2>2
    <3>2. queue' = [queue EXCEPT ![i] = [queue[i] EXCEPT !.ready = TRUE]]
      BY <2>1
    <3>3. DOMAIN queue' = DOMAIN queue /\ \A j \in DOMAIN queue : queue'[j].id = queue[j].id
      BY <2>2, <3>1, <3>2 DEF Items
    <3> QED BY <3>3 DEF Has, Distinct
  <2>4. UNCHANGED <<handler, registry, channel, job, item, found, expired, undecoded>>
    BY <1>2 DEF Ripen, handlerVars, jobVars, history
  <2> QED BY <2>3, <2>4 DEF Conserved, Home, Fresh, Unsent, Registered, NoLoss, NoLeak, Owner, Unanswered
<1>3. CASE CleanupExpired
  <2>1. PICK n \in 0 .. Len(queue) - 1 : \E kept \in [1 .. n -> DOMAIN queue] :
          /\ \A i, j \in 1 .. n : i < j => kept[i] < kept[j]
          /\ queue' = [i \in 1 .. n |-> queue[kept[i]]]
          /\ expired' = expired \cup
               {queue[k].id : k \in {k \in DOMAIN queue : \A i \in 1 .. n : kept[i] # k}}
    BY <1>3 DEF CleanupExpired
  <2>2. PICK kept \in [1 .. n -> DOMAIN queue] :
          /\ \A i, j \in 1 .. n : i < j => kept[i] < kept[j]
          /\ queue' = [i \in 1 .. n |-> queue[kept[i]]]
          /\ expired' = expired \cup
               {queue[k].id : k \in {k \in DOMAIN queue : \A i \in 1 .. n : kept[i] # k}}
    BY <2>1
  <2>3. queue' \in [1 .. n -> Items] /\ \A i \in 1 .. n : queue'[i] = queue[kept[i]]
    BY <2>2, QueueType
  <2>4. /\ \A q : Has(queue', q) => Has(queue, q)
        /\ \A q : Has(queue, q) => \/ Has(queue', q)
                                   \/ \E k \in DOMAIN queue : queue[k].id = q /\ \A i \in 1 .. n : kept[i] # k
        /\ Distinct(queue) => Distinct(queue')
    <3>1. DOMAIN queue' = 1 .. n /\ n \in Nat /\ DOMAIN queue \subseteq Int
      BY <2>3, QueueType
    <3>2. \A i \in 1 .. n : kept[i] \in DOMAIN queue /\ queue'[i] = queue[kept[i]]
      BY <2>3
    <3>3. \A i, j \in 1 .. n : kept[i] = kept[j] => i = j
      BY <2>2, <3>1, <3>2
    <3>4. \A q : Has(queue', q) => Has(queue, q)
      BY <3>1, <3>2 DEF Has
    <3>5. \A q : Has(queue, q) => \/ Has(queue', q)
                                  \/ \E k \in DOMAIN queue : queue[k].id = q /\ \A i \in 1 .. n : kept[i] # k
      BY <3>1, <3>2 DEF Has
    <3>6. Distinct(queue) => Distinct(queue')
      BY <3>1, <3>2, <3>3 DEF Distinct
    <3> QED BY <3>4, <3>5, <3>6
  <2>5. \A k \in DOMAIN queue : (\A i \in 1 .. n : kept[i] # k) => queue[k].id \in expired'
    BY <2>2
  <2>8. UNCHANGED <<handler, registry, channel, job, item, found, undecoded>>
    BY <1>3 DEF CleanupExpired, handlerVars, jobVars
  <2>6. \A q : q \in expired \cup undecoded => q \in (expired \cup undecoded)'
    BY <2>2, <2>8
  <2>7. \A q : Has(queue, q) => Has(queue', q) \/ q \in (expired \cup undecoded)'
    BY <2>4, <2>5
  <2>9. Home' /\ Fresh' /\ Unsent' /\ Registered'
    BY <2>4, <2>8 DEF Conserved, Home, Fresh, Unsent, Registered, Owner, Unanswered
  <2>10. NoLoss'
    BY <2>6, <2>7, <2>8 DEF Conserved, NoLoss, Unanswered
  <2>11. NoLeak'
    BY <2>6, <2>7, <2>8 DEF Conserved, NoLeak, Owner
  <2> QED BY <2>9, <2>10, <2>11 DEF Conserved
<1> QED BY <1>1, <1>2, <1>3 DEF TimeStep

LEMMA LoopConserved ==
    ASSUME TypeOK, Conserved, LoopStep
    PROVE  Conserved'
<1>1. CASE LoopTop \/ Acquire \/ DequeueNotReady \/ DequeueBlocks \/ DequeueWakes
           \/ DequeueCancelled \/ LoopExits
  <2>1. UNCHANGED <<handler, registry, channel, queue, job, item, found, expired, undecoded>>
    BY <1>1 DEF LoopTop, Acquire, DequeueNotReady, DequeueBlocks, DequeueWakes,
                DequeueCancelled, LoopExits, handlerVars, jobVars, history
  <2> QED BY <2>1, FrameConserved
<1>2. CASE Dequeue
  <2>1. PICK k \in DOMAIN queue, g \in Goroutines :
          /\ job[g] = "idle"
          /\ job' = [job EXCEPT ![g] = "start"]
          /\ item' = [item EXCEPT ![g] = queue[k].id]
          /\ queue' = RemoveAt(queue, k)
    BY <1>2 DEF Dequeue
  <2> DEFINE r == queue[k].id
  <2>2. /\ \A q : Has(queue', q) => Has(queue, q)
        /\ \A q : Has(queue, q) => Has(queue', q) \/ q = r
        /\ Distinct(queue) => Distinct(queue') /\ ~Has(queue', r)
    BY <2>1, QueueType, RemoveAtHas
  <2>3. r \in Requests /\ Has(queue, r)
    BY QueueType DEF Has
  <2>4. UNCHANGED <<handler, registry, channel, found, expired, undecoded>>
    BY <1>2 DEF Dequeue, handlerVars, history
  <2>5. job'[g] = "start" /\ \A h \in Goroutines : h # g => job'[h] = job[h]
    BY <2>1 DEF TypeOK
  <2>6. item'[g] = r /\ \A h \in Goroutines : h # g => item'[h] = item[h]
    BY <2>1 DEF TypeOK
  <2>7. job[g] = "idle"
    BY <2>1
  <2> HIDE DEF r
  <2>8. Home'
    BY <2>2, <2>3, <2>5, <2>6 DEF Conserved, Home, Owner
  <2>9. Fresh'
    BY <2>2, <2>3, <2>4, <2>5, <2>6 DEF Conserved, Fresh, Owner
  <2>10. Unsent'
    BY <2>2, <2>3, <2>4, <2>5, <2>6 DEF Conserved, Unsent, Unanswered
  <2>11. Registered'
    BY <2>2, <2>3, <2>4, <2>5, <2>6 DEF Conserved, Registered, Owner
  <2>12. NoLoss'
    BY <2>2, <2>4, <2>5, <2>6, <2>7 DEF Conserved, NoLoss, Unanswered
  <2>13. NoLeak'
    BY <2>2, <2>4, <2>5, <2>6, <2>7 DEF Conserved, NoLeak, Owner
  <2> QED BY <2>8, <2>9, <2>10, <2>11, <2>12, <2>13 DEF Conserved
<1> QED BY <1>1, <1>2 DEF LoopStep

LEMMA JobConserved ==
    ASSUME TypeOK, Conserved, NEW g \in Goroutines, JobStep(g)
    PROVE  Conserved'
<1>1. ASSUME job[g] \in {"start", "allow", "requeue", "process"},
             job' = [job EXCEPT ![g] = job'[g]],
             job'[g] \in {"allow", "requeue", "process", "reply"},
             UNCHANGED <<handler, registry, channel, queue, item, expired, undecoded>>,
             found'[g], \A h \in Goroutines : h # g => found'[h] = found[h]
      PROVE  Conserved'
  <2>1. \A h \in Goroutines : h # g => job'[h] = job[h]
    BY <1>1 DEF TypeOK
  <2>2. \A h \in Goroutines : Owner(h)' <=> Owner(h)
    BY <1>1, <2>1 DEF Owner
  <2>3. \A h \in Goroutines : Unanswered(h)' <=> Unanswered(h)
    BY <1>1, <2>1 DEF Unanswered
  <2>4. Home' /\ Fresh'
    BY <1>1, <2>2 DEF Conserved, Home, Fresh
  <2>5. Unsent'
    BY <1>1, <2>3 DEF Conserved, Unsent
  <2>6. Registered'
    BY <1>1, <2>1, <2>2 DEF Conserved, Registered
  <2>7. NoLoss' /\ NoLeak'
    BY <1>1, <2>2, <2>3 DEF Conserved, NoLoss, NoLeak
  <2> QED BY <2>4, <2>5, <2>6, <2>7 DEF Conserved
<1>2. CASE JobStart(g)
  <2>0. job[g] = "start" /\ UNCHANGED <<handler, registry, channel, queue, item, expired>>
    BY <1>2 DEF JobStart, handlerVars
  <2>1. CASE /\ job' = [job EXCEPT ![g] = "allow"] /\ UNCHANGED undecoded
             /\ found' = [found EXCEPT ![g] = item[g] \in registry]
    <3>1. job'[g] = "allow" /\ found'[g] = (item[g] \in registry)
      BY <2>1 DEF TypeOK
    <3>2. item[g] \in registry
      BY <2>0 DEF Conserved, Registered, Owner
    <3>3. \A h \in Goroutines : h # g => found'[h] = found[h]
      BY <2>1 DEF TypeOK
    <3> QED BY <1>1, <2>0, <2>1, <3>1, <3>2, <3>3
  <2>2. CASE /\ job' = [job EXCEPT ![g] = "release"] /\ UNCHANGED found
             /\ undecoded' = undecoded \cup {item[g]}
    <3>1. job'[g] = "release" /\ \A h \in Goroutines : h # g => job'[h] = job[h]
      BY <2>2 DEF TypeOK
    <3>2. \A h \in Goroutines : Owner(h)' <=> Owner(h) /\ h # g
      BY <2>0, <3>1 DEF Owner
    <3>3. \A h \in Goroutines : Unanswered(h)' <=> Unanswered(h) /\ h # g
      BY <2>0, <3>1 DEF Unanswered
    <3>4. \A q : q \in expired \cup undecoded => q \in (expired \cup undecoded)'
      BY <2>0, <2>2
    <3>5. item[g] \in (expired \cup undecoded)'
      BY <2>2
    <3>6. Home' /\ Fresh'
      BY <2>0, <3>2 DEF Conserved, Home, Fresh
    <3>7. Unsent'
      BY <2>0, <3>3 DEF Conserved, Unsent
    <3>8. Registered'
      BY <2>0, <2>2, <3>1, <3>2 DEF Conserved, Registered
    <3>9. NoLoss'
      BY <2>0, <3>3, <3>4, <3>5 DEF Conserved, NoLoss
    <3>10. NoLeak'
      BY <2>0, <3>2, <3>4, <3>5 DEF Conserved, NoLeak
    <3> QED BY <3>6, <3>7, <3>8, <3>9, <3>10 DEF Conserved
  <2> QED BY <1>2, <2>1, <2>2 DEF JobStart, Step
<1>3. CASE JobAllow(g) \/ JobProcess(g)
  <2>1. /\ job[g] \in {"allow", "process"}
        /\ UNCHANGED <<handler, registry, channel, queue, item, found, expired, undecoded>>
    BY <1>3 DEF JobAllow, JobProcess, handlerVars, history
  <2>2. \E label \in {"requeue", "process", "reply"} : job' = [job EXCEPT ![g] = label]
    BY <1>3 DEF JobAllow, JobProcess, Respond, Step
  <2>3. job' = [job EXCEPT ![g] = job'[g]] /\ job'[g] \in {"requeue", "process", "reply"}
    BY <2>2 DEF TypeOK
  <2>4. found[g]
    BY <2>1 DEF Conserved, Registered
  <2> QED BY <1>1, <2>1, <2>3, <2>4
<1>4. CASE JobRequeue(g)
  <2>0. job[g] = "requeue" /\ UNCHANGED <<handler, registry, channel, item, found, expired, undecoded>>
    BY <1>4 DEF JobRequeue, handlerVars, history
  <2>1. CASE Respond(g, "error") /\ UNCHANGED queue
    <3>1. job' = [job EXCEPT ![g] = "reply"]
      BY <2>1 DEF Respond, Step
    <3>2. job' = [job EXCEPT ![g] = job'[g]] /\ job'[g] = "reply"
      BY <3>1 DEF TypeOK
    <3>3. found[g]
      BY <2>0 DEF Conserved, Registered
    <3> QED BY <1>1, <2>0, <2>1, <3>2, <3>3
  <2>2. CASE queue' = Append(queue, [id |-> item[g], ready |-> FALSE]) /\ Step(g, "release")
    <3>0. item[g] \in Requests
      BY <2>0 DEF TypeOK
    <3>1. /\ \A q : Has(queue', q) <=> Has(queue, q) \/ q = item[g]
          /\ Distinct(queue) /\ ~Has(queue, item[g]) => Distinct(queue')
      <4> DEFINE e == [id |-> item[g], ready |-> FALSE]
      <4>1. e \in Items /\ e.id = item[g] /\ queue' = Append(queue, e)
        BY <2>2, <3>0 DEF Items
      <4> HIDE DEF e
      <4>2. /\ \A q : Has(queue', q) <=> Has(queue, q) \/ q = e.id
            /\ Distinct(queue) /\ ~Has(queue, e.id) => Distinct(queue')
        BY <4>1, QueueType, AppendHas
      <4> QED BY <4>1, <4>2
    <3>2. job'[g] = "release" /\ \A h \in Goroutines : h # g => job'[h] = job[h]
      BY <2>2 DEF TypeOK, Step
    <3>3. Home'
      BY <2>0, <3>1, <3>2 DEF Conserved, Home, Owner
    <3>4. Fresh'
      BY <2>0, <3>1, <3>2 DEF Conserved, Fresh, Owner
    <3>5. Unsent'
      BY <2>0, <3>1, <3>2 DEF Conserved, Unsent, Unanswered
    <3>6. Registered'
      BY <2>0, <3>1, <3>2 DEF Conserved, Registered, Owner
    <3>7. NoLoss'
      BY <2>0, <3>1, <3>2 DEF Conserved, NoLoss, Unanswered
    <3>8. NoLeak'
      BY <2>0, <3>1, <3>2 DEF Conserved, NoLeak, Owner
    <3> QED BY <3>3, <3>4, <3>5, <3>6, <3>7, <3>8 DEF Conserved
  <2> QED BY <1>4, <2>1, <2>2 DEF JobRequeue
<1>5. CASE JobSend(g)
  <2>1. job[g] = "reply" /\ UNCHANGED <<handler, registry, queue, item, found, expired, undecoded>>
    BY <1>5 DEF JobSend, history
  <2>2. item[g] \in Requests
    BY <2>1 DEF TypeOK
  <2>3. job'[g] = "remove" /\ \A h \in Goroutines : h # g => job'[h] = job[h]
    BY <1>5 DEF TypeOK, JobSend, Step
  <2>4. channel'[item[g]] # "empty" /\ \A q \in Requests : q # item[g] => channel'[q] = channel[q]
    BY <1>5, <2>2 DEF TypeOK, JobSend
  <2>5. \A h \in Goroutines : Owner(h)' <=> Owner(h)
    BY <2>1, <2>3 DEF Owner
  <2>6. /\ ~Has(queue, item[g])
        /\ handler[item[g]] \notin {"idle", "rejected", "registered"}
        /\ \A h \in Goroutines : Owner(h) /\ h # g => item[h] # item[g]
    BY <2>1, <2>2 DEF Conserved, Home, Fresh, Owner
  <2>7. Home'
    BY <2>1, <2>5 DEF Conserved, Home
  <2>8. Fresh'
    BY <2>1, <2>4, <2>5, <2>6 DEF Conserved, Fresh
  <2>9. Unsent'
    <3>1. \A h \in Goroutines : Unanswered(h)' => h # g /\ Unanswered(h) /\ Owner(h) /\ item[h] \in Requests
      BY <2>1, <2>3 DEF Unanswered, Owner, TypeOK
    <3>2. \A h \in Goroutines : Unanswered(h)' => channel'[item'[h]] = "empty"
      BY <2>1, <2>4, <2>6, <3>1 DEF Conserved, Unsent
    <3>3. \A r \in Requests : Has(queue, r) => channel'[r] = "empty"
      BY <2>4, <2>6 DEF Conserved, Unsent
    <3> QED BY <2>1, <3>2, <3>3 DEF Unsent
  <2>10. Registered'
    BY <2>1, <2>3, <2>5 DEF Conserved, Registered
  <2>11. NoLoss'
    <3>1. \A h \in Goroutines : Unanswered(h) /\ item[h] # item[g] => Unanswered(h)'
      BY <2>1, <2>3 DEF Unanswered
    <3> QED BY <2>1, <2>4, <3>1 DEF Conserved, NoLoss
  <2>12. NoLeak'
    BY <2>1, <2>5 DEF Conserved, NoLeak
  <2> QED BY <2>7, <2>8, <2>9, <2>10, <2>11, <2>12 DEF Conserved
<1>6. CASE JobRemove(g)
  <2>1. job[g] = "remove" /\ UNCHANGED <<handler, channel, queue, item, found, expired, undecoded>>
    BY <1>6 DEF JobRemove, handlerVars, history
  <2>2. registry' = registry \ {item[g]}
    BY <1>6 DEF JobRemove
  <2>3. job'[g] = "release" /\ \A h \in Goroutines : h # g => job'[h] = job[h]
    BY <1>6 DEF TypeOK, JobRemove, Step
  <2>4. \A h \in Goroutines : Owner(h)' <=> Owner(h) /\ h # g
    BY <2>1, <2>3 DEF Owner
  <2>5. \A h \in Goroutines : Unanswered(h)' <=> Unanswered(h)
    BY <2>1, <2>3 DEF Unanswered
  <2>6. item[g] \in Requests /\ Owner(g)
    BY <2>1 DEF TypeOK, Owner
  <2>7. /\ ~Has(queue, item[g])
        /\ handler[item[g]] \notin {"idle", "rejected", "registered"}
        /\ \A h \in Goroutines : Owner(h) /\ h # g => item[h] # item[g]
    BY <2>6 DEF Conserved, Home, Fresh
  <2>8. Home' /\ Fresh'
    BY <2>1, <2>4 DEF Conserved, Home, Fresh
  <2>9. Unsent'
    BY <2>1, <2>5 DEF Conserved, Unsent
  <2>10. Registered'
    BY <2>1, <2>2, <2>3, <2>4, <2>7 DEF Conserved, Registered
  <2>11. NoLoss'
    BY <2>1, <2>5 DEF Conserved, NoLoss
  <2>12. NoLeak'
    BY <2>1, <2>2, <2>4 DEF Conserved, NoLeak
  <2> QED BY <2>8, <2>9, <2>10, <2>11, <2>12 DEF Conserved
<1>7. CASE JobRelease(g)
  <2>1. job[g] = "release" /\ UNCHANGED <<handler, registry, channel, queue, expired, undecoded>>
    BY <1>7 DEF JobRelease, handlerVars, history
  <2>2. job'[g] = "idle" /\ \A h \in Goroutines : h # g => job'[h] = job[h]
    BY <1>7 DEF TypeOK, JobRelease, Step
  <2>3. \A h \in Goroutines : h # g => item'[h] = item[h] /\ found'[h] = found[h]
    BY <1>7 DEF TypeOK, JobRelease
  <2>4. \A h \in Goroutines : (Owner(h)' <=> Owner(h)) /\ (Owner(h) => h # g)
    BY <2>1, <2>2 DEF Owner
  <2>5. \A h \in Goroutines : (Unanswered(h)' <=> Unanswered(h)) /\ (Unanswered(h) => h # g)
    BY <2>1, <2>2 DEF Unanswered
  <2>6. Home' /\ Fresh'
    BY <2>1, <2>3, <2>4 DEF Conserved, Home, Fresh
  <2>7. Unsent'
    BY <2>1, <2>3, <2>5 DEF Conserved, Unsent
  <2>8. Registered'
    BY <2>1, <2>2, <2>3, <2>4 DEF Conserved, Registered
  <2>9. NoLoss'
    BY <2>1, <2>3, <2>5 DEF Conserved, NoLoss
  <2>10. NoLeak'
    BY <2>1, <2>3, <2>4 DEF Conserved, NoLeak
  <2> QED BY <2>6, <2>7, <2>8, <2>9, <2>10 DEF Conserved
<1> QED BY <1>2, <1>3, <1>4, <1>5, <1>6, <1>7 DEF JobStep

LEMMA NextConserved == TypeOK /\ Conserved /\ [Next]_vars => Conserved'
<1> SUFFICES ASSUME TypeOK, Conserved, [Next]_vars PROVE Conserved'
  OBVIOUS
<1>1. CASE UNCHANGED vars
  BY <1>1, FrameConserved DEF vars, handlerVars, jobVars, history
<1>2. CASE MainStep
  BY <1>2, FrameConserved DEF MainStep, ServerError, Signal, ShutdownReturns, StopCloses, StopReturns,
     handlerVars, jobVars, history
<1> QED BY <1>1, <1>2, HandlerConserved, TimeConserved, LoopConserved, JobConserved DEF Next, Terminated

LEMMA Inductive == Spec => [](TypeOK /\ Conserved)
BY InitConserved, NextType, NextConserved, PTL DEF Spec

\* A request is in one place at a time, the queue or one processItem goroutine,
\* however often the limiter refuses it (lines 286-313 of worker.go).
THEOREM SingleHomeCorrect == Spec => []SingleHome
<1>1. TypeOK /\ Conserved => SingleHome
  BY DEF TypeOK, Conserved, Home, SingleHome, Owner, Owns, Distinct, Has
<1> QED BY <1>1, Inductive, PTL

\* No send on a response channel blocks (lines 265, 304, 338 and 383 of
\* worker.go), whether or not the client still waits.
THEOREM SendNeverBlocksCorrect == Spec => []SendNeverBlocks
<1>1. Conserved => SendNeverBlocks
  BY DEF Conserved, Unsent, Unanswered, SendNeverBlocks
<1> QED BY <1>1, Inductive, PTL

\* A goroutine always finds the channel of its item (line 244 of worker.go).
THEOREM ChannelFoundCorrect == Spec => []ChannelFound
<1>1. Conserved => ChannelFound
  BY DEF Conserved, Registered, ChannelFound
<1> QED BY <1>1, Inductive, PTL

\* A client that waits has its request queued, in a goroutine or answered,
\* unless it expired in the queue or could not be decoded (worker.go:237).
THEOREM NoSilentLossCorrect == Spec => []NoSilentLoss
<1>1. \A r : Has(queue, r) => r \in Queued
  BY DEF Has, Queued
<1>2. \A g \in Goroutines : Unanswered(g) => Owns(g, item[g]) /\ job[g] # "remove"
  BY DEF Unanswered, Owns
<1>3. Conserved => NoSilentLoss
  BY <1>1, <1>2 DEF Conserved, NoLoss, NoSilentLoss
<1> QED BY <1>3, Inductive, PTL

\* A channel stays in the registry only for a request that is still on its way
\* or that was dropped: it expired in the queue (channel_registry.go:44) or could
\* not be decoded (worker.go:237).
THEOREM LeakCorrect == Spec => []LeakOnlyIfDropped
<1>1. \A r : Has(queue, r) => r \in Queued
  BY DEF Has, Queued
<1>2. \A g \in Goroutines : Owner(g) => Owns(g, item[g])
  BY DEF Owner, Owns
<1>3. Conserved => LeakOnlyIfDropped
  BY <1>1, <1>2 DEF Conserved, NoLeak, LeakOnlyIfDropped
<1> QED BY <1>3, Inductive, PTL

-----------------------------------------------------------------------------
(* The slots of the semaphore.                                             *)

\* The slot processLoop itself holds.
LoopSlot == IF loop \in {"dequeue", "blocked"} THEN 1 ELSE 0

LEMMA RunningFinite == IsFiniteSet(Running) /\ Cardinality(Running) \in Nat
<1>1. Running \subseteq Goroutines
  BY DEF Running
<1>2. IsFiniteSet(Running)
  BY <1>1, BalancerAssumption, FS_Subset
<1> QED BY <1>2, FS_CardinalityType

LEMMA RunningFrame ==
    ASSUME TypeOK, NEW g \in Goroutines, JobStep(g), ~JobRelease(g)
    PROVE  Running' = Running /\ UNCHANGED <<loop, semaphore>>
<1>1. UNCHANGED <<loop, semaphore>>
  BY DEF JobStep, JobStart, JobAllow, JobRequeue, JobProcess, JobSend, JobRemove, loopVars
<1>2. \E label \in {"allow", "requeue", "process", "reply", "remove", "release"} :
        job' = [job EXCEPT ![g] = label]
  BY DEF JobStep, JobStart, JobAllow, JobRequeue, JobProcess, JobSend, JobRemove, Respond, Step
<1>3. job[g] # "idle"
  BY DEF JobStep, JobStart, JobAllow, JobRequeue, JobProcess, JobSend, JobRemove
<1>4. job'[g] # "idle" /\ \A h \in Goroutines : h # g => job'[h] = job[h]
  BY <1>2 DEF TypeOK
<1>5. \A h \in Goroutines : job'[h] # "idle" <=> job[h] # "idle"
  BY <1>3, <1>4
<1> QED BY <1>1, <1>5 DEF Running

LEMMA SlotStep == TypeOK /\ SlotAccounting /\ [Next]_vars => SlotAccounting'
<1> SUFFICES ASSUME TypeOK, SlotAccounting, [Next]_vars PROVE SlotAccounting'
  OBVIOUS
<1> DEFINE n == Cardinality(Running)
           m == Cardinality(Running)'
<1>0. n \in Nat /\ semaphore \in Int /\ MaxConcurrent \in Nat /\ IsFiniteSet(Running)
  BY RunningFinite, BalancerAssumption DEF TypeOK
<1>1. semaphore = n + LoopSlot /\ semaphore <= MaxConcurrent
  BY DEF SlotAccounting, LoopSlot
<1>2. SlotAccounting' <=> semaphore' = m + LoopSlot' /\ semaphore' <= MaxConcurrent
  BY DEF SlotAccounting, LoopSlot
<1> HIDE DEF n, m
<1>3. ASSUME UNCHANGED <<semaphore, loop, job>> PROVE SlotAccounting'
  <2>1. Running' = Running
    BY <1>3 DEF Running
  <2>2. m = n
    BY <2>1 DEF m, n
  <2> QED BY <1>1, <1>2, <1>3, <2>2 DEF LoopSlot
<1>4. CASE UNCHANGED vars
  BY <1>3, <1>4 DEF vars, loopVars, jobVars
<1>5. ASSUME NEW r \in Requests, HandlerStep(r) PROVE SlotAccounting'
  BY <1>3, <1>5 DEF HandlerStep, Reject, Register, HandlerEnqueue, Receive, Timeout, loopVars, jobVars
<1>6. CASE TimeStep
  BY <1>3, <1>6 DEF TimeStep, Refill, Ripen, CleanupExpired, loopVars, jobVars
<1>7. CASE MainStep
  BY <1>3, <1>7 DEF MainStep, ServerError, Signal, ShutdownReturns, StopCloses, StopReturns,
     loopVars, jobVars
<1>8. CASE LoopStep
  <2>1. CASE LoopTop \/ Acquire \/ DequeueNotReady \/ DequeueBlocks \/ DequeueWakes
             \/ DequeueCancelled \/ LoopExits
    <3>1. UNCHANGED job
      BY <2>1 DEF LoopTop, Acquire, DequeueNotReady, DequeueBlocks, DequeueWakes,
                  DequeueCancelled, LoopExits, jobVars
    <3>2. Running' = Running
      BY <3>1 DEF Running
    <3>3. m = n
      BY <3>2 DEF m, n
    <3>4. CASE LoopTop \/ DequeueBlocks \/ DequeueWakes \/ LoopExits
      <4>1. semaphore' = semaphore /\ LoopSlot' = LoopSlot
        BY <3>4 DEF LoopTop, DequeueBlocks, DequeueWakes, LoopExits, LoopSlot
      <4> QED BY <1>1, <1>2, <3>3, <4>1
    <3>5. CASE Acquire /\ semaphore' = semaphore
      <4>1. LoopSlot' = LoopSlot
        BY <1>0, <3>5 DEF Acquire, LoopSlot
      <4> QED BY <1>1, <1>2, <3>3, <3>5, <4>1
    <3>6. CASE Acquire /\ semaphore' # semaphore
      <4>1. semaphore' = semaphore + 1 /\ semaphore < MaxConcurrent /\ LoopSlot = 0 /\ LoopSlot' = 1
        BY <3>6 DEF Acquire, LoopSlot
      <4> QED BY <1>0, <1>1, <1>2, <3>3, <4>1
    <3>7. CASE DequeueNotReady \/ DequeueCancelled
      <4>1. semaphore' = semaphore - 1 /\ LoopSlot = 1 /\ LoopSlot' = 0
        BY <3>7 DEF DequeueNotReady, DequeueCancelled, LoopSlot
      <4> QED BY <1>0, <1>1, <1>2, <3>3, <4>1
    <3> QED BY <2>1, <3>4, <3>5, <3>6, <3>7
  <2>2. CASE Dequeue
    <3>1. PICK g \in Goroutines : job[g] = "idle" /\ job' = [job EXCEPT ![g] = "start"]
      BY <2>2 DEF Dequeue
    <3>2. g \notin Running /\ Running' = Running \cup {g}
      BY <3>1 DEF Running, TypeOK
    <3>3. m = n + 1
      BY <1>0, <3>2, FS_AddElement DEF m, n
    <3>4. semaphore' = semaphore /\ LoopSlot = 1 /\ LoopSlot' = 0
      BY <2>2 DEF Dequeue, LoopSlot
    <3> QED BY <1>0, <1>1, <1>2, <3>3, <3>4
  <2> QED BY <1>8, <2>1, <2>2 DEF LoopStep
<1>9. ASSUME NEW g \in Goroutines, JobStep(g) PROVE SlotAccounting'
  <2>1. CASE JobRelease(g)
    <3>1. job[g] = "release" /\ job' = [job EXCEPT ![g] = "idle"]
      BY <2>1 DEF JobRelease, Step
    <3>2. g \in Running /\ Running' = Running \ {g}
      BY <3>1 DEF Running, TypeOK
    <3>3. m = n - 1
      BY <1>0, <3>2, FS_RemoveElement DEF m, n
    <3>4. semaphore' = semaphore - 1 /\ LoopSlot' = LoopSlot
      BY <2>1 DEF JobRelease, LoopSlot
    <3>5. LoopSlot \in Int
      BY DEF LoopSlot
    <3> QED BY <1>0, <1>1, <1>2, <3>3, <3>4, <3>5
  <2>2. CASE ~JobRelease(g)
    <3>1. Running' = Running /\ UNCHANGED <<loop, semaphore>>
      BY <1>9, <2>2, RunningFrame
    <3>2. m = n
      BY <3>1 DEF m, n
    <3>3. LoopSlot' = LoopSlot
      BY <3>1 DEF LoopSlot
    <3> QED BY <1>1, <1>2, <3>1, <3>2, <3>3
  <2> QED BY <2>1, <2>2
<1> QED BY <1>4, <1>5, <1>6, <1>7, <1>8, <1>9 DEF Next, Terminated

\* The slots taken are those of the running goroutines and the loop's own, and
\* at most MaxConcurrent goroutines run (lines 189-208 and 221-222 of worker.go).
THEOREM SlotsCorrect == Spec => []SlotAccounting
<1>1. Init => SlotAccounting
  <2> SUFFICES ASSUME Init PROVE SlotAccounting
    OBVIOUS
  <2>1. Running = {}
    BY DEF Init, Running
  <2>2. Cardinality(Running) = 0
    BY <2>1, FS_EmptySet
  <2> QED BY <2>2, BalancerAssumption DEF Init, SlotAccounting
<1> QED BY <1>1, SlotStep, TypeCorrect, PTL DEF Spec

-----------------------------------------------------------------------------
(* The order of the queue.                                                 *)

\* A request enters the queue from its handler once.
Arrived ==
    /\ \A i, j \in DOMAIN arrivals : arrivals[i] = arrivals[j] => i = j
    /\ \A i \in DOMAIN arrivals : handler[arrivals[i]] \notin {"idle", "registered"}

\* Only a request that was refused is delayed.
Delayed ==
    /\ \A i \in DOMAIN queue : ~queue[i].ready => queue[i].id \in refused
    /\ \A g \in Goroutines : job[g] = "requeue" => item[g] \in refused

\* Only a request that was refused stands behind a later one.
InOrder ==
    \A i, j \in DOMAIN queue :
        i < j /\ Earlier(queue[j].id, queue[i].id) => queue[j].id \in refused

Order == Arrived /\ Delayed /\ InOrder

\* The queue after a step holds items of the queue before it, in their order:
\* the one at i was at place[i].
Thinned(place) ==
    /\ \A i \in DOMAIN queue' :
         /\ place[i] \in DOMAIN queue
         /\ queue'[i].id = queue[place[i]].id
         /\ ~queue'[i].ready => ~queue[place[i]].ready
    /\ \A i, j \in DOMAIN queue' : i < j => place[i] < place[j]

\* Nothing else that Order is about changes, but for requests that are refused.
OrderFrame ==
    /\ arrivals' = arrivals
    /\ refused \subseteq refused'
    /\ \A r \in Requests :
         handler[r] \notin {"idle", "registered"} => handler'[r] \notin {"idle", "registered"}
    /\ \A g \in Goroutines : job'[g] = "requeue" => item'[g] \in refused'

LEMMA ArrivalsFacts ==
    ASSUME TypeOK
    PROVE  /\ Len(arrivals) \in Nat /\ DOMAIN arrivals = 1 .. Len(arrivals)
           /\ \A i \in DOMAIN arrivals : arrivals[i] \in Requests
<1>1. arrivals \in Seq(Requests)
  BY DEF TypeOK
<1> QED BY <1>1, LenProperties

LEMMA ThinnedOrder ==
    ASSUME TypeOK, Order, NEW place, Thinned(place), OrderFrame
    PROVE  Order'
<1>1. Arrived'
  BY ArrivalsFacts DEF Order, Arrived, OrderFrame
<1>2. Delayed'
  BY DEF Order, Delayed, OrderFrame, Thinned
<1>3. InOrder'
  <2> SUFFICES ASSUME NEW i \in DOMAIN queue', NEW j \in DOMAIN queue', i < j,
                      Earlier(queue[j].id, queue[i].id)'
               PROVE  queue'[j].id \in refused'
    BY DEF InOrder
  <2>1. /\ place[i] \in DOMAIN queue /\ place[j] \in DOMAIN queue /\ place[i] < place[j]
        /\ queue'[i].id = queue[place[i]].id /\ queue'[j].id = queue[place[j]].id
    BY DEF Thinned
  <2>2. Earlier(queue[place[j]].id, queue[place[i]].id)
    BY <2>1 DEF Earlier, OrderFrame
  <2>3. queue[place[j]].id \in refused
    BY <2>1, <2>2 DEF Order, InOrder
  <2> QED BY <2>1, <2>3 DEF OrderFrame
<1> QED BY <1>1, <1>2, <1>3 DEF Order

\* The queue is left alone.
LEMMA SameQueueOrder ==
    ASSUME TypeOK, Order, queue' = queue, OrderFrame
    PROVE  Order'
<1> DEFINE place == [i \in DOMAIN queue |-> i]
<1>1. Thinned(place)
  BY DEF Thinned
<1> HIDE DEF place
<1> QED BY <1>1, ThinnedOrder

\* An item is appended: a new arrival, or one that was refused.
LEMMA AppendPlaces ==
    ASSUME TypeOK, NEW e \in Items, queue' = Append(queue, e)
    PROVE  /\ Len(queue) + 1 \in DOMAIN queue' /\ queue'[Len(queue) + 1] = e
           /\ \A i \in DOMAIN queue' : \/ i \in DOMAIN queue /\ queue'[i] = queue[i]
                                       \/ i = Len(queue) + 1 /\ queue'[i] = e
           /\ \A i \in DOMAIN queue : i < Len(queue) + 1
           /\ Len(queue) \in Nat /\ DOMAIN queue \subseteq Int
<1>1. queue \in Seq(Items)
  BY QueueType
<1>2. /\ queue' \in Seq(Items) /\ Len(queue') = Len(queue) + 1
      /\ \A i \in 1 .. Len(queue) : queue'[i] = queue[i]
      /\ queue'[Len(queue) + 1] = e
  BY <1>1, AppendProperties
<1>3. /\ Len(queue) \in Nat /\ DOMAIN queue = 1 .. Len(queue)
      /\ DOMAIN queue' = 1 .. Len(queue) + 1
  BY <1>1, <1>2, LenProperties
<1> QED BY <1>2, <1>3

LEMMA RequeueOrder ==
    ASSUME TypeOK, Order, NEW e \in Items, queue' = Append(queue, e), e.id \in refused, OrderFrame
    PROVE  Order'
<1>1. Arrived'
  BY ArrivalsFacts DEF Order, Arrived, OrderFrame
<1>2. \A i \in DOMAIN queue' : \/ i \in DOMAIN queue /\ queue'[i] = queue[i]
                               \/ i = Len(queue) + 1 /\ queue'[i] = e
  BY AppendPlaces
<1>3. Delayed'
  BY <1>2 DEF Order, Delayed, OrderFrame
<1>4. InOrder'
  <2> SUFFICES ASSUME NEW i \in DOMAIN queue', NEW j \in DOMAIN queue', i < j,
                      Earlier(queue[j].id, queue[i].id)'
               PROVE  queue'[j].id \in refused'
    BY DEF InOrder
  <2>1. CASE j = Len(queue) + 1 /\ queue'[j] = e
    BY <2>1 DEF OrderFrame
  <2>2. CASE j \in DOMAIN queue /\ queue'[j] = queue[j]
    <3>1. i \in DOMAIN queue /\ queue'[i] = queue[i]
      <4>1. i # Len(queue) + 1
        BY <2>2, AppendPlaces
      <4> QED BY <1>2, <4>1
    <3>2. Earlier(queue[j].id, queue[i].id)
      BY <2>2, <3>1 DEF Earlier, OrderFrame
    <3> QED BY <2>2, <3>1, <3>2 DEF Order, InOrder, OrderFrame
  <2> QED BY <1>2, <2>1, <2>2
<1> QED BY <1>1, <1>3, <1>4 DEF Order

LEMMA ArriveOrder ==
    ASSUME TypeOK, Conserved, Order, NEW r \in Requests, handler[r] = "registered",
           queue' = Append(queue, [id |-> r, ready |-> TRUE]), arrivals' = Append(arrivals, r),
           handler' = [handler EXCEPT ![r] = "waiting"], refused' = refused, job' = job, item' = item
    PROVE  Order'
<1> DEFINE e == [id |-> r, ready |-> TRUE]
           n == Len(arrivals)
<1>1. e \in Items /\ e.id = r /\ e.ready
  BY DEF Items
<1>2. \A i \in DOMAIN queue' : \/ i \in DOMAIN queue /\ queue'[i] = queue[i]
                               \/ i = Len(queue) + 1 /\ queue'[i] = e
  BY <1>1, AppendPlaces
<1> HIDE DEF e
<1>3. /\ n \in Nat /\ DOMAIN arrivals = 1 .. n /\ DOMAIN arrivals' = 1 .. n + 1
      /\ (\A i \in 1 .. n : arrivals'[i] = arrivals[i]) /\ arrivals'[n + 1] = r
      /\ \A i \in 1 .. n : arrivals[i] \in Requests
  <2>1. arrivals \in Seq(Requests)
    BY DEF TypeOK
  <2>2. /\ arrivals' \in Seq(Requests) /\ Len(arrivals') = n + 1
        /\ (\A i \in 1 .. n : arrivals'[i] = arrivals[i]) /\ arrivals'[n + 1] = r
    BY <2>1, AppendProperties
  <2> QED BY <2>1, <2>2, LenProperties, ArrivalsFacts
<1> HIDE DEF n
<1>4. \A i \in 1 .. n : arrivals[i] # r
  BY <1>3 DEF Order, Arrived
<1>5. ASSUME NEW i \in 1 .. n + 1
      PROVE  (i \in 1 .. n /\ arrivals'[i] = arrivals[i] /\ arrivals'[i] # r) \/ (i = n + 1 /\ arrivals'[i] = r)
  BY <1>3, <1>4
<1>6. Arrived'
  <2>1. ASSUME NEW i \in 1 .. n + 1, NEW j \in 1 .. n + 1, arrivals'[i] = arrivals'[j]
        PROVE  i = j
    <3>1. \A k, l \in 1 .. n : arrivals[k] = arrivals[l] => k = l
      BY <1>3 DEF Order, Arrived
    <3> QED BY <1>5, <2>1, <3>1
  <2>2. ASSUME NEW i \in 1 .. n + 1
        PROVE  handler'[arrivals'[i]] \notin {"idle", "registered"}
    <3>1. handler'[r] = "waiting" /\ \A q \in Requests : q # r => handler'[q] = handler[q]
      BY DEF TypeOK
    <3>2. \A k \in 1 .. n : handler[arrivals[k]] \notin {"idle", "registered"}
      BY <1>3 DEF Order, Arrived
    <3> QED BY <1>3, <1>5, <3>1, <3>2
  <2> QED BY <1>3, <2>1, <2>2 DEF Arrived
<1>7. Delayed'
  BY <1>1, <1>2 DEF Order, Delayed
<1>8. \A i \in DOMAIN queue : queue[i].id # r
  BY DEF Conserved, Fresh, Has
<1>9. ASSUME NEW p, NEW q, q # r, Earlier(p, q)'
      PROVE  Earlier(p, q)
  <2>1. PICK i \in 1 .. n + 1, j \in 1 .. n + 1 : i < j /\ arrivals'[i] = p /\ arrivals'[j] = q
    BY <1>3, <1>9 DEF Earlier
  <2>2. j # n + 1
    BY <1>3, <1>9, <2>1
  <2>3. i \in 1 .. n /\ j \in 1 .. n
    BY <1>3, <2>1, <2>2
  <2> QED BY <1>3, <2>1, <2>3 DEF Earlier
<1>10. \A q : ~Earlier(r, q)'
  <2> SUFFICES ASSUME NEW q, Earlier(r, q)' PROVE FALSE
    OBVIOUS
  <2>1. PICK i \in 1 .. n + 1, j \in 1 .. n + 1 : i < j /\ arrivals'[i] = r
    BY <1>3 DEF Earlier
  <2>2. i = n + 1
    BY <1>5, <2>1
  <2> QED BY <1>3, <2>1, <2>2
<1>11. InOrder'
  <2> SUFFICES ASSUME NEW i \in DOMAIN queue', NEW j \in DOMAIN queue', i < j,
                      Earlier(queue[j].id, queue[i].id)'
               PROVE  queue'[j].id \in refused'
    BY DEF InOrder
  <2>1. CASE j = Len(queue) + 1 /\ queue'[j] = e
    BY <1>1, <1>10, <2>1
  <2>2. CASE j \in DOMAIN queue /\ queue'[j] = queue[j]
    <3>1. i \in DOMAIN queue /\ queue'[i] = queue[i]
      <4>1. i # Len(queue) + 1
        BY <1>1, <2>2, AppendPlaces DEF e
      <4> QED BY <1>2, <4>1
    <3>2. Earlier(queue[j].id, queue[i].id)
      BY <1>8, <1>9, <2>2, <3>1
    <3> QED BY <2>2, <3>1, <3>2 DEF Order, InOrder
  <2> QED BY <1>2, <2>1, <2>2
<1> QED BY <1>6, <1>7, <1>11 DEF Order

\* Steps of which Order sees nothing.
LEMMA IdleOrder ==
    ASSUME TypeOK, Order, UNCHANGED <<handler, queue, arrivals, refused, job, item>>
    PROVE  Order'
<1>1. OrderFrame
  BY DEF Order, Delayed, OrderFrame
<1> QED BY <1>1, SameQueueOrder

LEMMA HandlerOrder ==
    ASSUME TypeOK, Conserved, Order, NEW r \in Requests, HandlerStep(r)
    PROVE  Order'
<1>1. ASSUME NEW label \in {"rejected", "registered", "answered", "failed", "timedout"},
             handler' = [handler EXCEPT ![r] = label],
             label = "registered" => handler[r] = "idle",
             UNCHANGED <<queue, arrivals, refused, job, item>>
      PROVE  Order'
  <2>1. handler'[r] = label /\ \A q \in Requests : q # r => handler'[q] = handler[q]
    BY <1>1 DEF TypeOK
  <2>2. OrderFrame
    BY <1>1, <2>1 DEF Order, Delayed, OrderFrame
  <2> QED BY <1>1, <2>2, SameQueueOrder
<1>2. CASE Reject(r)
  BY <1>1, <1>2 DEF Reject, jobVars, history
<1>3. CASE Register(r)
  BY <1>1, <1>3 DEF Register, jobVars, history
<1>4. CASE HandlerEnqueue(r)
  <2>1. handler[r] = "registered" /\ UNCHANGED <<refused, job, item>>
    BY <1>4 DEF HandlerEnqueue, jobVars
  <2>2. CASE handler' = [handler EXCEPT ![r] = "failed"] /\ UNCHANGED <<queue, arrivals>>
    BY <1>1, <2>1, <2>2
  <2>3. CASE /\ queue' = Append(queue, [id |-> r, ready |-> TRUE])
             /\ arrivals' = Append(arrivals, r) /\ handler' = [handler EXCEPT ![r] = "waiting"]
    BY <2>1, <2>3, ArriveOrder
  <2> QED BY <1>4, <2>2, <2>3 DEF HandlerEnqueue
<1>5. CASE Receive(r)
  <2>1. \/ handler' = [handler EXCEPT ![r] = "answered"]
        \/ handler' = [handler EXCEPT ![r] = "failed"]
    BY <1>5 DEF Receive
  <2>2. UNCHANGED <<queue, arrivals, refused, job, item>>
    BY <1>5 DEF Receive, jobVars, history
  <2> QED BY <1>1, <2>1, <2>2
<1>6. CASE Timeout(r)
  BY <1>1, <1>6 DEF Timeout, jobVars, history
<1> QED BY <1>2, <1>3, <1>4, <1>5, <1>6 DEF HandlerStep

LEMMA TimeOrder ==
    ASSUME TypeOK, Order, TimeStep
    PROVE  Order'
<1>1. CASE Refill
  BY <1>1, IdleOrder DEF Refill, handlerVars, jobVars, history
<1>2. ASSUME NEW r \in Requests, Ripen(r) PROVE Order'
  <2>1. PICK k \in DOMAIN queue : queue' = [queue EXCEPT ![k].ready = TRUE]
    BY <1>2 DEF Ripen
  <2>2. queue \in [1 .. Len(queue) -> Items] /\ DOMAIN queue = 1 .. Len(queue) /\ queue[k] \in Items
    BY QueueType, LenProperties
  <2>3. queue' = [queue EXCEPT ![k] = [queue[k] EXCEPT !.ready = TRUE]]
    BY <2>1
  <2>4. /\ DOMAIN queue' = DOMAIN queue
        /\ \A j \in DOMAIN queue : queue'[j].id = queue[j].id /\ (~queue'[j].ready => ~queue[j].ready)
    BY <2>2, <2>3 DEF Items
  <2> DEFINE place == [i \in DOMAIN queue |-> i]
  <2>5. Thinned(place)
    BY <2>4 DEF Thinned
  <2>6. OrderFrame
    BY <1>2 DEF Ripen, handlerVars, jobVars, history, Order, Delayed, OrderFrame
  <2> HIDE DEF place
  <2> QED BY <2>5, <2>6, ThinnedOrder
<1>3. CASE CleanupExpired
  <2>1. PICK n \in 0 .. Len(queue) - 1 : \E kept \in [1 .. n -> DOMAIN queue] :
          /\ \A i, j \in 1 .. n : i < j => kept[i] < kept[j]
          /\ queue' = [i \in 1 .. n |-> queue[kept[i]]]
    BY <1>3 DEF CleanupExpired
  <2>2. PICK kept \in [1 .. n -> DOMAIN queue] :
          /\ \A i, j \in 1 .. n : i < j => kept[i] < kept[j]
          /\ queue' = [i \in 1 .. n |-> queue[kept[i]]]
    BY <2>1
  <2>3. DOMAIN queue' = 1 .. n /\ \A i \in 1 .. n : queue'[i] = queue[kept[i]] /\ kept[i] \in DOMAIN queue
    BY <2>2
  <2>4. Thinned(kept)
    BY <2>2, <2>3 DEF Thinned
  <2>5. OrderFrame
    BY <1>3 DEF CleanupExpired, handlerVars, jobVars, Order, Delayed, OrderFrame
  <2> QED BY <2>4, <2>5, ThinnedOrder
<1> QED BY <1>1, <1>2, <1>3 DEF TimeStep

LEMMA LoopOrder ==
    ASSUME TypeOK, Order, LoopStep
    PROVE  Order'
<1>1. CASE LoopTop \/ Acquire \/ DequeueNotReady \/ DequeueBlocks \/ DequeueWakes
           \/ DequeueCancelled \/ LoopExits
  <2>1. UNCHANGED <<handler, queue, arrivals, refused, job, item>>
    BY <1>1 DEF LoopTop, Acquire, DequeueNotReady, DequeueBlocks, DequeueWakes,
                DequeueCancelled, LoopExits, handlerVars, jobVars, history
  <2> QED BY <2>1, IdleOrder
<1>2. CASE Dequeue
  <2>1. PICK k \in DOMAIN queue, g \in Goroutines :
          /\ job' = [job EXCEPT ![g] = "start"]
          /\ item' = [item EXCEPT ![g] = queue[k].id]
          /\ queue' = RemoveAt(queue, k)
    BY <1>2 DEF Dequeue
  <2>2. UNCHANGED <<handler, arrivals, refused>>
    BY <1>2 DEF Dequeue, handlerVars, history
  <2>3. queue \in Seq(Items) /\ DOMAIN queue = 1 .. Len(queue) /\ Len(queue) \in Nat
    BY QueueType, LenProperties
  <2>4. /\ DOMAIN queue' = 1 .. Len(queue) - 1
        /\ \A i \in DOMAIN queue' : /\ i < k => i \in DOMAIN queue /\ queue'[i] = queue[i]
                                    /\ i >= k => i + 1 \in DOMAIN queue /\ queue'[i] = queue[i + 1]
    <3>1. /\ RemoveAt(queue, k) \in Seq(Items) /\ Len(RemoveAt(queue, k)) = Len(queue) - 1
          /\ \A i \in DOMAIN RemoveAt(queue, k) :
               /\ i < k => i \in DOMAIN queue /\ RemoveAt(queue, k)[i] = queue[i]
               /\ i >= k => i + 1 \in DOMAIN queue /\ RemoveAt(queue, k)[i] = queue[i + 1]
      BY <2>3, RemoveAtFacts
    <3>2. DOMAIN RemoveAt(queue, k) = 1 .. Len(queue) - 1
      BY <3>1, LenProperties
    <3> QED BY <2>1, <3>1, <3>2
  <2> DEFINE place == [i \in 1 .. Len(queue) - 1 |-> IF i < k THEN i ELSE i + 1]
  <2>5. Thinned(place)
    <3>1. \A i \in DOMAIN queue' : place[i] \in DOMAIN queue /\ queue'[i] = queue[place[i]]
      BY <2>3, <2>4
    <3>2. \A i, j \in DOMAIN queue' : i < j => place[i] < place[j]
      BY <2>3, <2>4
    <3> HIDE DEF place
    <3> QED BY <3>1, <3>2 DEF Thinned
  <2>6. OrderFrame
    <3>1. \A h \in Goroutines : job'[h] = "requeue" => job[h] = "requeue" /\ item'[h] = item[h]
      BY <2>1 DEF TypeOK
    <3> QED BY <2>2, <3>1 DEF Order, Delayed, OrderFrame
  <2> HIDE DEF place
  <2> QED BY <2>5, <2>6, ThinnedOrder
<1> QED BY <1>1, <1>2 DEF LoopStep

LEMMA JobOrder ==
    ASSUME TypeOK, Order, NEW g \in Goroutines, JobStep(g)
    PROVE  Order'
<1>1. ASSUME UNCHANGED <<handler, arrivals, refused>>, job'[g] # "requeue",
             \A h \in Goroutines : h # g => job'[h] = job[h] /\ item'[h] = item[h]
      PROVE  OrderFrame
  BY <1>1 DEF Order, Delayed, OrderFrame
<1>2. CASE JobStart(g) \/ JobProcess(g) \/ JobSend(g) \/ JobRemove(g) \/ JobRelease(g)
  <2>1. UNCHANGED <<handler, queue, arrivals, refused>>
    BY <1>2 DEF JobStart, JobProcess, JobSend, JobRemove, JobRelease, handlerVars, history
  <2>2. /\ job'[g] # "requeue"
        /\ \A h \in Goroutines : h # g => job'[h] = job[h] /\ item'[h] = item[h]
    BY <1>2 DEF TypeOK, JobStart, JobProcess, JobSend, JobRemove, JobRelease, Step, Respond
  <2> QED BY <1>1, <2>1, <2>2, SameQueueOrder
<1>3. CASE JobAllow(g)
  <2>1. UNCHANGED <<handler, queue, arrivals, item>> /\ job[g] = "allow"
    BY <1>3 DEF JobAllow, handlerVars
  <2>2. refused \subseteq refused' /\ (job'[g] = "requeue" => item[g] \in refused')
    BY <1>3 DEF TypeOK, JobAllow, Step, Respond
  <2>3. \A h \in Goroutines : h # g => job'[h] = job[h]
    BY <1>3 DEF TypeOK, JobAllow, Step, Respond
  <2>4. OrderFrame
    BY <2>1, <2>2, <2>3 DEF Order, Delayed, OrderFrame
  <2> QED BY <2>1, <2>4, SameQueueOrder
<1>4. CASE JobRequeue(g)
  <2> DEFINE e == [id |-> item[g], ready |-> FALSE]
  <2>1. UNCHANGED <<handler, arrivals, refused, item>> /\ job[g] = "requeue"
    BY <1>4 DEF JobRequeue, handlerVars, history
  <2>2. job'[g] # "requeue" /\ \A h \in Goroutines : h # g => job'[h] = job[h] /\ item'[h] = item[h]
    BY <1>4, <2>1 DEF TypeOK, JobRequeue, Step, Respond
  <2>3. OrderFrame
    BY <1>1, <2>1, <2>2
  <2>4. e \in Items /\ e.id = item[g] /\ item[g] \in refused
    BY <2>1 DEF TypeOK, Items, Order, Delayed
  <2>5. queue' = queue \/ queue' = Append(queue, e)
    BY <1>4 DEF JobRequeue
  <2> HIDE DEF e
  <2> QED BY <2>3, <2>4, <2>5, SameQueueOrder, RequeueOrder
<1> QED BY <1>2, <1>3, <1>4 DEF JobStep

LEMMA NextOrder == TypeOK /\ Conserved /\ Order /\ [Next]_vars => Order'
<1> SUFFICES ASSUME TypeOK, Conserved, Order, [Next]_vars PROVE Order'
  OBVIOUS
<1>1. CASE MainStep
  BY <1>1, IdleOrder DEF MainStep, ServerError, Signal, ShutdownReturns, StopCloses, StopReturns,
                         handlerVars, jobVars, history
<1>2. CASE UNCHANGED vars
  BY <1>2, IdleOrder DEF vars, handlerVars, jobVars, history
<1> QED BY <1>1, <1>2, HandlerOrder, TimeOrder, LoopOrder, JobOrder DEF Next, Terminated

LEMMA OrderInductive == Spec => []Order
<1>1. Init => Order
  BY DEF Init, Order, Arrived, Delayed, InOrder
<1> QED BY <1>1, NextOrder, Inductive, PTL DEF Spec

\* A goroutine is handed a request by Dequeue only.
LEMMA TakenByDequeue ==
    ASSUME TypeOK, Next, NEW r, Taken(r)
    PROVE  \E k \in DOMAIN queue : FirstReady(k) /\ queue[k].id = r
<1>1. PICK g \in Goroutines : job[g] = "idle" /\ job'[g] = "start" /\ item'[g] = r
  BY DEF Taken
<1>2. ~(UNCHANGED job)
  BY <1>1
<1>3. ASSUME NEW h \in Goroutines, JobStep(h) PROVE FALSE
  <2>1. job'[h] # "start" /\ (h # g => job'[g] = job[g])
    BY <1>3 DEF TypeOK, JobStep, JobStart, JobAllow, JobRequeue, JobProcess, JobSend, JobRemove,
                JobRelease, Step, Respond
  <2> QED BY <1>1, <2>1
<1>4. ASSUME NEW q \in Requests, HandlerStep(q) PROVE FALSE
  BY <1>2, <1>4 DEF HandlerStep, Reject, Register, HandlerEnqueue, Receive, Timeout, jobVars
<1>5. CASE TimeStep
  BY <1>2, <1>5 DEF TimeStep, Refill, CleanupExpired, Ripen, jobVars
<1>6. CASE MainStep
  BY <1>2, <1>6 DEF MainStep, ServerError, Signal, ShutdownReturns, StopCloses, StopReturns, jobVars
<1>7. CASE Terminated
  BY <1>2, <1>7 DEF Terminated, vars, jobVars
<1>8. CASE LoopStep
  <2>1. Dequeue
    BY <1>2, <1>8 DEF LoopStep, LoopTop, Acquire, DequeueNotReady, DequeueBlocks, DequeueWakes,
                      DequeueCancelled, LoopExits, jobVars
  <2>2. PICK k \in DOMAIN queue, h \in Goroutines :
          /\ FirstReady(k)
          /\ job' = [job EXCEPT ![h] = "start"]
          /\ item' = [item EXCEPT ![h] = queue[k].id]
    BY <2>1 DEF Dequeue
  <2>3. h = g /\ item'[g] = queue[k].id
    BY <1>1, <2>2 DEF TypeOK
  <2> QED BY <1>1, <2>2, <2>3
<1> QED BY <1>3, <1>4, <1>5, <1>6, <1>7, <1>8 DEF Next

\* Dequeue hands requests out in the order in which EnqueueRequest queued them;
\* only a request that the limiter has refused is overtaken (fifo_queue.go:252).
THEOREM OvertakingCorrect == Spec => OvertakenOnlyIfRefused
<1>1. TypeOK /\ Order /\ [Next]_vars =>
        [\A r \in Requests : Taken(r) => \A q \in Queued : Earlier(q, r) => q \in refused]_vars
  <2> SUFFICES ASSUME TypeOK, Order, Next, NEW r \in Requests, Taken(r),
                      NEW q \in Queued, Earlier(q, r)
               PROVE  q \in refused
    OBVIOUS
  <2>1. PICK k \in DOMAIN queue : FirstReady(k) /\ queue[k].id = r
    BY TakenByDequeue
  <2>2. PICK i \in DOMAIN queue : queue[i].id = q
    BY DEF Queued
  <2>3. i \in Int /\ k \in Int
    BY QueueType, LenProperties
  <2>4. CASE i < k
    BY <2>1, <2>2, <2>4 DEF FirstReady, Order, Delayed
  <2>5. CASE k < i
    BY <2>1, <2>2, <2>5 DEF Order, InOrder
  <2>6. CASE i = k
    <3>1. PICK x \in DOMAIN arrivals, y \in DOMAIN arrivals :
            x < y /\ arrivals[x] = q /\ arrivals[y] = r
      BY DEF Earlier
    <3>2. x = y /\ x \in Int
      BY <2>1, <2>2, <2>6, <3>1, ArrivalsFacts DEF Order, Arrived
    <3> QED BY <3>1, <3>2
  <2> QED BY <2>3, <2>4, <2>5, <2>6
<1> QED BY <1>1, OrderInductive, Inductive, PTL DEF Spec, OvertakenOnlyIfRefused
=============================================================================
