---------------------------- MODULE Cluster_proofs ----------------------------
(***************************************************************************)
(* Proofs about Cluster, for any number of instances, requests and slots,  *)
(* any number of repeated pushes and crashes, with and without faults.     *)
(***************************************************************************)
EXTENDS Cluster, ListCopies

-----------------------------------------------------------------------------
(* The list, through how many copies of a request it holds.                *)

LEMMA SeqFacts ==
    ASSUME NEW s \in Seq(Items)
    PROVE  /\ Len(s) \in Nat /\ DOMAIN s = 1 .. Len(s)
           /\ \A i \in DOMAIN s : s[i] \in Items /\ s[i].id \in Requests
           /\ s # <<>> => 1 \in DOMAIN s /\ Head(s) = s[1]
<1>1. Len(s) \in Nat /\ DOMAIN s = 1 .. Len(s) /\ s \in [1 .. Len(s) -> Items]
  BY LenProperties
<1>2. \A i \in DOMAIN s : s[i] \in Items /\ s[i].id \in Requests
  BY <1>1 DEF Items
<1>3. s # <<>> => 1 \in DOMAIN s /\ Head(s) = s[1]
  BY <1>1, EmptySeq
<1> QED BY <1>1, <1>2, <1>3

LEMMA CopiesType ==
    ASSUME NEW s \in Seq(Items), NEW r
    PROVE  /\ IsFiniteSet(Positions(s, r))
           /\ Copies(s, r) \in Nat
           /\ Copies(s, r) = 0 <=> ~Has(s, r)
BY ListType

\* k + 1 copies of an item are appended.
LEMMA PushCopies ==
    ASSUME NEW s \in Seq(Items), NEW e \in Items, NEW k \in Nat,
           NEW q, q = e.id, NEW t, t = Appended(s, e, k), NEW r
    PROVE  /\ t \in Seq(Items)
           /\ r = q => Copies(t, r) = Copies(s, r) + (k + 1)
           /\ r # q => Copies(t, r) = Copies(s, r)
           /\ Has(t, r) <=> Has(s, r) \/ r = q
<1>1. t \in Seq(Items)
  BY ListPush
<1>2. r = q => Copies(t, r) = Copies(s, r) + (k + 1)
  BY ListPush
<1>3. r # q => Copies(t, r) = Copies(s, r)
  BY ListPush
<1>4. Has(t, r) <=> Has(s, r) \/ r = q
  <2>1. Has(t, r) => Has(s, r) \/ r = q
    BY ListPush
  <2>2. Has(s, r) => Has(t, r)
    BY ListPush
  <2>3. r = q => Has(t, r)
    BY ListPush
  <2> QED BY <2>1, <2>2, <2>3
<1> QED BY <1>1, <1>2, <1>3, <1>4

\* The head is taken off.
LEMMA PopCopies ==
    ASSUME NEW s \in Seq(Items), s # <<>>, NEW t, t = Tail(s), NEW r
    PROVE  /\ t \in Seq(Items) /\ Head(s) \in Items /\ Head(s).id \in Requests
           /\ Copies(s, r) = Copies(t, r) + (IF r = Head(s).id THEN 1 ELSE 0)
           /\ Has(s, r) <=> Has(t, r) \/ r = Head(s).id
<1>1. t \in Seq(Items) /\ Head(s) \in Items
  BY ListPop
<1>2. Copies(s, r) = Copies(t, r) + (IF r = Head(s).id THEN 1 ELSE 0)
  <2>1. r = Head(s).id => Copies(s, r) = Copies(t, r) + 1
    BY ListPop
  <2>2. r # Head(s).id => Copies(s, r) = Copies(t, r)
    BY ListPop
  <2>3. Copies(t, r) \in Nat
    BY <1>1, CopiesType
  <2> QED BY <2>1, <2>2, <2>3
<1>3. Has(s, r) <=> Has(t, r) \/ r = Head(s).id
  BY ListPop
<1>4. Head(s).id \in Requests
  BY <1>1 DEF Items
<1> QED BY <1>1, <1>2, <1>3, <1>4

\* The delay of an item ends.
LEMMA RipenCopies ==
    ASSUME NEW s \in Seq(Items), NEW k \in DOMAIN s, NEW t, t = Ripened(s, k), NEW r
    PROVE  t \in Seq(Items) /\ Copies(t, r) = Copies(s, r) /\ (Has(t, r) <=> Has(s, r))
<1>1. \A e \in Items : Readied(e) \in Items /\ Readied(e).id = e.id
  BY DEF Items, Readied
<1> QED BY <1>1, ListRipen

-----------------------------------------------------------------------------
(* The inductive invariant.                                                *)

Labels == {"idle", "start", "allow", "requeue", "process", "reply", "remove"}

\* Where a goroutine may still call the provider.
Calling == {"start", "allow", "requeue", "process"}

\* The goroutines that may still call the provider for a request, and those that
\* may still send an answer to it.
Working(r) == {g \in Goroutines : item[g] = r /\ job[g] \in Calling}

Answering(r) == {g \in Goroutines : item[g] = r /\ job[g] \in Calling \cup {"reply"}}

\* What one goroutine counts for in them.
WorksOn(g, r) == IF item[g] = r /\ job[g] \in Calling THEN 1 ELSE 0

AnswersTo(g, r) == IF item[g] = r /\ job[g] \in Calling \cup {"reply"} THEN 1 ELSE 0

\* An answer that was sent and not received.
Sent(r) == IF r \in channel THEN 1 ELSE 0

\* Nobody knows of a request before its handler has queued it.
Fresh(r) ==
    handler[r] \in {"idle", "registered"} =>
        /\ calls[r] = 0 /\ ~Has(list, r) /\ r \notin channel
        /\ \A g \in Goroutines : item[g] # r

\* CallsWithinPushes, for one request.
Paid(r) == calls[r] + Copies(list, r) + Cardinality(Working(r)) <= 1 + extra[r]

\* A request that was never copied is in one place: the list, a goroutine that
\* has not answered it, or its channel.
Single(r) ==
    extra[r] = 0 /\ r \notin doubted =>
        Copies(list, r) + Cardinality(Answering(r)) + Sent(r) <= 1

\* A channel is registered before its request is queued, and stays so until an
\* answer has been sent.
Channels(r) ==
    /\ handler[r] = "idle" => r \notin registry
    /\ handler[r] = "registered" => r \in registry
    /\ handler[r] = "waiting" /\ r \notin channel =>
         /\ r \in registry
         /\ \A g \in Goroutines : item[g] = r => job[g] # "remove"

\* AbandonedOnlyIfAstray, for one request.
Cared(r) ==
    \/ handler[r] = "waiting" /\ r \notin channel
    \/ r \in registry /\ handler[r] # "registered"
    => Attended(r) \/ r \in astray

IndInv ==
    /\ TypeOK
    /\ \A r \in Requests : Fresh(r) /\ Channels(r)
    /\ \A r \in Requests : Paid(r) /\ Single(r)
    /\ \A r \in Requests : Cared(r)

-----------------------------------------------------------------------------
(* Counting goroutines.                                                    *)

LEMMA CountTypes ==
    ASSUME NEW r
    PROVE  /\ IsFiniteSet(Working(r)) /\ Cardinality(Working(r)) \in Nat
           /\ IsFiniteSet(Answering(r)) /\ Cardinality(Answering(r)) \in Nat
           /\ Cardinality(Working(r))' \in Nat /\ Cardinality(Answering(r))' \in Nat
           /\ IsFiniteSet(Working(r)') /\ IsFiniteSet(Answering(r)')
<1>1. /\ Working(r) \subseteq Goroutines /\ Answering(r) \subseteq Goroutines
      /\ Working(r)' \subseteq Goroutines /\ Answering(r)' \subseteq Goroutines
  BY DEF Working, Answering
<1>2. /\ IsFiniteSet(Working(r)) /\ IsFiniteSet(Answering(r))
      /\ IsFiniteSet(Working(r)') /\ IsFiniteSet(Answering(r)')
  BY <1>1, ClusterAssumption, FS_Subset
<1> QED BY <1>2, FS_CardinalityType

\* Only goroutine g moves.
Only(g) == \A h \in Goroutines : h # g => item'[h] = item[h] /\ job'[h] = job[h] /\ found'[h] = found[h]

LEMMA OnlyCounts ==
    ASSUME NEW g \in Goroutines, Only(g), NEW r
    PROVE  /\ Cardinality(Working(r))' + WorksOn(g, r) = Cardinality(Working(r)) + WorksOn(g, r)'
           /\ Cardinality(Answering(r))' + AnswersTo(g, r) = Cardinality(Answering(r)) + AnswersTo(g, r)'
<1>1. \A h : h # g => (h \in Working(r) <=> h \in Working(r)')
  BY DEF Only, Working
<1>2. \A h : h # g => (h \in Answering(r) <=> h \in Answering(r)')
  BY DEF Only, Answering
<1>3. /\ WorksOn(g, r) = (IF g \in Working(r) THEN 1 ELSE 0)
      /\ WorksOn(g, r)' = (IF g \in Working(r)' THEN 1 ELSE 0)
  BY DEF WorksOn, Working
<1>4. /\ AnswersTo(g, r) = (IF g \in Answering(r) THEN 1 ELSE 0)
      /\ AnswersTo(g, r)' = (IF g \in Answering(r)' THEN 1 ELSE 0)
  BY DEF AnswersTo, Answering
<1>5. Cardinality(Working(r)') + WorksOn(g, r) = Cardinality(Working(r)) + WorksOn(g, r)'
  BY <1>1, <1>3, CountTypes, OneMoves
<1>6. Cardinality(Answering(r)') + AnswersTo(g, r) = Cardinality(Answering(r)) + AnswersTo(g, r)'
  BY <1>2, <1>4, CountTypes, OneMoves
<1> QED BY <1>5, <1>6

\* The counts of a request do not grow but by the copies that extra counts.
Kept(r) ==
    /\ calls'[r] + Copies(list, r)' + Cardinality(Working(r))' + extra[r]
         <= calls[r] + Copies(list, r) + Cardinality(Working(r)) + extra'[r]
    /\ extra'[r] = 0 /\ r \notin doubted' =>
         /\ extra[r] = 0 /\ r \notin doubted
         /\ Copies(list, r)' + Cardinality(Answering(r))' + Sent(r)'
              <= Copies(list, r) + Cardinality(Answering(r)) + Sent(r)

\* ... for a step of goroutine g, through what g counts for.
KeptBy(g, r) ==
    /\ calls'[r] + Copies(list, r)' + WorksOn(g, r)' + extra[r]
         <= calls[r] + Copies(list, r) + WorksOn(g, r) + extra'[r]
    /\ extra'[r] = 0 /\ r \notin doubted' =>
         /\ extra[r] = 0 /\ r \notin doubted
         /\ Copies(list, r)' + AnswersTo(g, r)' + Sent(r)'
              <= Copies(list, r) + AnswersTo(g, r) + Sent(r)

LEMMA NumberTypes ==
    ASSUME TypeOK, TypeOK', NEW r \in Requests
    PROVE  /\ calls[r] \in Nat /\ calls'[r] \in Nat /\ extra[r] \in Nat /\ extra'[r] \in Nat
           /\ Copies(list, r) \in Nat /\ Copies(list, r)' \in Nat
           /\ Sent(r) \in {0, 1} /\ Sent(r)' \in {0, 1}
BY CopiesType DEF TypeOK, Sent

LEMMA CountsKept ==
    ASSUME IndInv, TypeOK', NEW r \in Requests, Kept(r)
    PROVE  Paid(r)' /\ Single(r)'
<1> DEFINE p == Copies(list, r)  q == Copies(list, r)'  x == Sent(r)  y == Sent(r)'
           w == Cardinality(Working(r))  v == Cardinality(Working(r))'
           a == Cardinality(Answering(r))  b == Cardinality(Answering(r))'
           c == calls[r]  d == calls'[r]  m == extra[r]  n == extra'[r]
<1>1. /\ p \in Nat /\ q \in Nat /\ x \in {0, 1} /\ y \in {0, 1}
      /\ w \in Nat /\ v \in Nat /\ a \in Nat /\ b \in Nat
      /\ c \in Nat /\ d \in Nat /\ m \in Nat /\ n \in Nat
  BY CountTypes, NumberTypes DEF IndInv
<1>2. d + q + v + m <= c + p + w + n
  BY DEF Kept
<1>3. n = 0 /\ r \notin doubted' => m = 0 /\ r \notin doubted /\ q + b + y <= p + a + x
  BY DEF Kept
<1>4. c + p + w <= 1 + m
  BY DEF IndInv, Paid
<1>5. m = 0 /\ r \notin doubted => p + a + x <= 1
  BY DEF IndInv, Single
<1> HIDE DEF p, q, x, y, w, v, a, b, c, d, m, n
<1>6. d + q + v <= 1 + n
  BY <1>1, <1>2, <1>4
<1>7. q + b + y <= p + a + x /\ p + a + x <= 1 => q + b + y <= 1
  BY <1>1
<1>8. n = 0 /\ r \notin doubted' => q + b + y <= 1
  BY <1>3, <1>5, <1>7
<1>9. Paid(r)'
  BY <1>6 DEF Paid, d, q, v, n
<1>10. Single(r)'
  BY <1>8 DEF Single, n, q, b, y
<1> QED BY <1>9, <1>10

LEMMA CountsKeptBy ==
    ASSUME IndInv, TypeOK', NEW g \in Goroutines, Only(g), NEW r \in Requests, KeptBy(g, r)
    PROVE  Paid(r)' /\ Single(r)'
<1> DEFINE p == Copies(list, r)  q == Copies(list, r)'  x == Sent(r)  y == Sent(r)'
           w == Cardinality(Working(r))  v == Cardinality(Working(r))'
           a == Cardinality(Answering(r))  b == Cardinality(Answering(r))'
           c == calls[r]  d == calls'[r]  m == extra[r]  n == extra'[r]
           s == WorksOn(g, r)  t == WorksOn(g, r)'  k == AnswersTo(g, r)  l == AnswersTo(g, r)'
<1>1. /\ p \in Nat /\ q \in Nat /\ x \in {0, 1} /\ y \in {0, 1}
      /\ w \in Nat /\ v \in Nat /\ a \in Nat /\ b \in Nat
      /\ c \in Nat /\ d \in Nat /\ m \in Nat /\ n \in Nat
  BY CountTypes, NumberTypes DEF IndInv
<1>2. s \in {0, 1} /\ t \in {0, 1} /\ k \in {0, 1} /\ l \in {0, 1}
  BY DEF WorksOn, AnswersTo
<1>3. v + s = w + t /\ b + k = a + l
  BY OnlyCounts
<1>4. d + q + t + m <= c + p + s + n
  BY DEF KeptBy
<1>5. n = 0 /\ r \notin doubted' => m = 0 /\ r \notin doubted /\ q + l + y <= p + k + x
  BY DEF KeptBy
<1> HIDE DEF p, q, x, y, w, v, a, b, c, d, m, n, s, t, k, l
<1>6. d + q + v + m <= c + p + w + n
  BY <1>1, <1>2, <1>3, <1>4
<1>7. q + l + y <= p + k + x => q + b + y <= p + a + x
  BY <1>1, <1>2, <1>3
<1>8. n = 0 /\ r \notin doubted' => m = 0 /\ r \notin doubted /\ q + b + y <= p + a + x
  BY <1>5, <1>7
<1>9. Kept(r)
  BY <1>6, <1>8 DEF Kept, p, q, x, y, w, v, a, b, c, d, m, n
<1> QED BY <1>9, CountsKept

-----------------------------------------------------------------------------
(* The steps of the queue.                                                 *)

\* What a push of e behind s does to the list and to the counts.
Pushed(s, e) ==
    /\ list' \in Seq(Items) /\ repeats' \in 0 .. MaxRepeats /\ extra' \in [Requests -> Nat]
    /\ \A r \in Requests :
         /\ Copies(list', r) + extra[r] = Copies(s, r) + extra'[r] + (IF r = e.id THEN 1 ELSE 0)
         /\ extra'[r] >= extra[r]
         /\ r # e.id => extra'[r] = extra[r]
         /\ Has(list', r) <=> Has(s, r) \/ r = e.id

LEMMA PushEffect ==
    ASSUME TypeOK, NEW s \in Seq(Items), NEW e \in Items,
           NEW k \in 0 .. MaxRepeats, PushTo(s, e, k)
    PROVE  Pushed(s, e)
<1>1. /\ repeats \in Nat /\ extra \in [Requests -> Nat] /\ MaxRepeats \in Nat /\ k \in Nat
      /\ e.id \in Requests
  BY ClusterAssumption DEF TypeOK, Items
<1>2. /\ list' = Appended(s, e, k) /\ repeats + k <= MaxRepeats
      /\ repeats' = repeats + k /\ extra' = [extra EXCEPT ![e.id] = @ + k]
  BY DEF PushTo, Repeated, Appended
<1>3. repeats' \in 0 .. MaxRepeats /\ extra' \in [Requests -> Nat]
  BY <1>1, <1>2
<1>4. ASSUME NEW r \in Requests
      PROVE  /\ list' \in Seq(Items)
             /\ Copies(list', r) + extra[r] = Copies(s, r) + extra'[r] + (IF r = e.id THEN 1 ELSE 0)
             /\ extra'[r] >= extra[r]
             /\ r # e.id => extra'[r] = extra[r]
             /\ Has(list', r) <=> Has(s, r) \/ r = e.id
  <2>1. /\ list' \in Seq(Items)
        /\ r = e.id => Copies(list', r) = Copies(s, r) + (k + 1)
        /\ r # e.id => Copies(list', r) = Copies(s, r)
        /\ Has(list', r) <=> Has(s, r) \/ r = e.id
    <3> DEFINE q == e.id
    <3>1. q = e.id /\ list' = Appended(s, e, k) /\ k \in Nat /\ e \in Items /\ s \in Seq(Items)
      BY <1>1, <1>2
    <3> HIDE DEF q
    <3>2. list' \in Seq(Items)
      BY <3>1, PushCopies
    <3>3. Has(list', r) <=> Has(s, r) \/ r = q
      BY <3>1, PushCopies
    <3>4. r = q => Copies(list', r) = Copies(s, r) + (k + 1)
      BY <3>1, PushCopies
    <3>5. r # q => Copies(list', r) = Copies(s, r)
      BY <3>1, PushCopies
    <3> QED BY <3>2, <3>3, <3>4, <3>5 DEF q
  <2>2. extra'[r] = extra[r] + (IF r = e.id THEN k ELSE 0) /\ extra[r] \in Nat
    BY <1>1, <1>2
  <2>3. Copies(s, r) \in Nat
    BY CopiesType
  <2>4. CASE r = e.id
    BY <1>1, <2>1, <2>2, <2>3, <2>4
  <2>5. CASE r # e.id
    BY <1>1, <2>1, <2>2, <2>3, <2>5
  <2> QED BY <2>4, <2>5
<1> QED BY <1>1, <1>3, <1>4 DEF Pushed

LEMMA EnqueueEffect ==
    ASSUME TypeOK, NEW s \in Seq(Items), NEW e \in Items
    PROVE  /\ EnqueueSucceeds(s, e) => Pushed(s, e) /\ doubted' = doubted
           /\ EnqueueFails(s, e) =>
                \/ list' = s /\ repeats' = repeats /\ extra' = extra /\ doubted' = doubted
                \/ Pushed(s, e) /\ doubted' = doubted \cup {e.id}
BY PushEffect DEF EnqueueSucceeds, EnqueueFails

\* Only the queue moves, and no request is in it that was not.
QueueOnly ==
    /\ handler' = handler /\ registry' = registry /\ channel' = channel /\ calls' = calls
    /\ job' = job /\ item' = item /\ found' = found
    /\ astray \subseteq astray' /\ doubted \subseteq doubted'
    /\ \A r \in Requests :
         /\ Copies(list, r)' + extra[r] <= Copies(list, r) + extra'[r]
         /\ extra'[r] >= extra[r]
         /\ Has(list', r) => Has(list, r)
         /\ Has(list, r) => Has(list', r) \/ r \in astray'

LEMMA QueueStep ==
    ASSUME IndInv, TypeOK', QueueOnly
    PROVE  IndInv'
<1>1. ASSUME NEW r \in Requests
      PROVE  Kept(r)
  <2> DEFINE p == Copies(list, r)  q == Copies(list, r)'  x == Sent(r)  y == Sent(r)'
             w == Cardinality(Working(r))  v == Cardinality(Working(r))'
             a == Cardinality(Answering(r))  b == Cardinality(Answering(r))'
             c == calls[r]  d == calls'[r]  m == extra[r]  n == extra'[r]
  <2>1. /\ p \in Nat /\ q \in Nat /\ x \in {0, 1} /\ y \in {0, 1}
        /\ w \in Nat /\ v \in Nat /\ a \in Nat /\ b \in Nat
        /\ c \in Nat /\ d \in Nat /\ m \in Nat /\ n \in Nat
    BY CountTypes, NumberTypes DEF IndInv
  <2>2. Working(r)' = Working(r) /\ Answering(r)' = Answering(r) /\ y = x /\ d = c
    BY DEF QueueOnly, Working, Answering, Sent
  <2>3. v = w /\ b = a
    BY <2>2
  <2>4. q + m <= p + n /\ n >= m /\ (r \notin doubted' => r \notin doubted)
    BY DEF QueueOnly
  <2> HIDE DEF p, q, x, y, w, v, a, b, c, d, m, n
  <2>5. d + q + v + m <= c + p + w + n
    BY <2>1, <2>2, <2>3, <2>4
  <2>6. n = 0 => m = 0 /\ q + b + y <= p + a + x
    BY <2>1, <2>2, <2>3, <2>4
  <2>7. n = 0 /\ r \notin doubted' => m = 0 /\ r \notin doubted /\ q + b + y <= p + a + x
    BY <2>4, <2>6
  <2> QED BY <2>5, <2>7 DEF Kept, p, q, x, y, w, v, a, b, c, d, m, n
<1>2. ASSUME NEW r \in Requests
      PROVE  Paid(r)' /\ Single(r)'
  BY <1>1, CountsKept
<1>3. ASSUME NEW r \in Requests
      PROVE  Fresh(r)' /\ Channels(r)'
  BY DEF IndInv, QueueOnly, Fresh, Channels
<1>4. ASSUME NEW r \in Requests
      PROVE  Cared(r)'
  <2>1. Attended(r) => Attended(r)' \/ r \in astray'
    BY DEF QueueOnly, Attended, Has
  <2> QED BY <2>1 DEF IndInv, QueueOnly, Cared
<1> QED BY <1>2, <1>3, <1>4 DEF IndInv

LEMMA DequeueDropsInd ==
    ASSUME IndInv, DequeueDrops
    PROVE  IndInv'
<1>1. TypeOK
  BY DEF IndInv
<1>2. /\ list \in Seq(Items) /\ list # <<>> /\ list' = Tail(list)
      /\ astray' = astray \cup {Head(list).id}
      /\ handler' = handler /\ registry' = registry /\ channel' = channel /\ calls' = calls
      /\ job' = job /\ item' = item /\ found' = found
      /\ repeats' = repeats /\ crashes' = crashes /\ extra' = extra /\ doubted' = doubted
  BY <1>1 DEF TypeOK, DequeueDrops, handlerVars, jobVars
<1>3. list' \in Seq(Items) /\ Head(list).id \in Requests
  BY <1>2, PopCopies
<1>4. TypeOK'
  BY <1>1, <1>2, <1>3 DEF TypeOK
<1>5. ASSUME NEW r \in Requests
      PROVE  /\ Copies(list, r)' + extra[r] <= Copies(list, r) + extra'[r]
             /\ extra'[r] >= extra[r]
             /\ Has(list', r) => Has(list, r)
             /\ Has(list, r) => Has(list', r) \/ r \in astray'
  <2>1. /\ Copies(list, r) = Copies(list', r) + (IF r = Head(list).id THEN 1 ELSE 0)
        /\ Has(list, r) <=> Has(list', r) \/ r = Head(list).id
    BY <1>2, PopCopies
  <2>2. Copies(list', r) \in Nat /\ extra[r] \in Nat
    BY <1>1, <1>3, CopiesType DEF TypeOK
  <2>3. Copies(list', r) + extra[r] <= Copies(list, r) + extra[r]
    BY <2>1, <2>2
  <2> QED BY <1>2, <2>1, <2>2, <2>3
<1>6. QueueOnly
  BY <1>2, <1>5 DEF QueueOnly
<1> QED BY <1>4, <1>6, QueueStep

LEMMA DequeuePutsBackInd ==
    ASSUME IndInv, DequeuePutsBack
    PROVE  IndInv'
<1> DEFINE s == Tail(list)
           e == Head(list)
<1>1. TypeOK
  BY DEF IndInv
<1>2. /\ list \in Seq(Items) /\ list # <<>>
      /\ handler' = handler /\ registry' = registry /\ channel' = channel /\ calls' = calls
      /\ job' = job /\ item' = item /\ found' = found /\ crashes' = crashes
  BY <1>1 DEF TypeOK, DequeuePutsBack, handlerVars, jobVars
<1>2a. \/ EnqueueSucceeds(s, e) /\ astray' = astray
       \/ EnqueueFails(s, e) /\ astray' = astray \cup {e.id}
  BY Zenon DEF DequeuePutsBack
<1>3. s \in Seq(Items) /\ e \in Items /\ e.id \in Requests
  BY <1>2, PopCopies
<1>4. \A r \in Requests :
        /\ Copies(list, r) = Copies(s, r) + (IF r = e.id THEN 1 ELSE 0)
        /\ Has(list, r) <=> Has(s, r) \/ r = e.id
        /\ Copies(s, r) \in Nat /\ extra[r] \in Nat
  BY <1>1, <1>2, <1>3, PopCopies, CopiesType DEF TypeOK
<1> HIDE DEF s, e
<1>5. CASE Pushed(s, e) /\ (doubted' = doubted \/ doubted' = doubted \cup {e.id})
           /\ (astray' = astray \/ astray' = astray \cup {e.id})
  <2>1. TypeOK'
    BY <1>1, <1>2, <1>3, <1>5 DEF TypeOK, Pushed
  <2>2. ASSUME NEW r \in Requests
        PROVE  /\ Copies(list, r)' + extra[r] <= Copies(list, r) + extra'[r]
               /\ extra'[r] >= extra[r]
               /\ Has(list', r) => Has(list, r)
               /\ Has(list, r) => Has(list', r) \/ r \in astray'
    <3>1. /\ Copies(list', r) + extra[r] = Copies(s, r) + extra'[r] + (IF r = e.id THEN 1 ELSE 0)
          /\ extra'[r] >= extra[r]
          /\ Has(list', r) <=> Has(s, r) \/ r = e.id
          /\ extra'[r] \in Nat
      BY <1>5 DEF Pushed
    <3>2. Copies(list', r) + extra[r] <= Copies(list, r) + extra'[r]
      BY <1>4, <3>1
    <3> QED BY <1>4, <3>1, <3>2
  <2>3. QueueOnly
    BY <1>2, <1>5, <2>2 DEF QueueOnly
  <2> QED BY <2>1, <2>3, QueueStep
<1>6. CASE /\ list' = s /\ repeats' = repeats /\ extra' = extra /\ doubted' = doubted
           /\ astray' = astray \cup {e.id}
  <2>1. TypeOK'
    BY <1>1, <1>2, <1>3, <1>6 DEF TypeOK
  <2>2. ASSUME NEW r \in Requests
        PROVE  /\ Copies(list, r)' + extra[r] <= Copies(list, r) + extra'[r]
               /\ extra'[r] >= extra[r]
               /\ Has(list', r) => Has(list, r)
               /\ Has(list, r) => Has(list', r) \/ r \in astray'
    <3>1. Copies(s, r) + extra[r] <= Copies(list, r) + extra[r] /\ extra[r] >= extra[r]
      BY <1>4
    <3> QED BY <1>4, <1>6, <3>1
  <2>3. QueueOnly
    BY <1>2, <1>6, <2>2 DEF QueueOnly
  <2> QED BY <2>1, <2>3, QueueStep
<1>7. \/ Pushed(s, e) /\ doubted' = doubted /\ astray' = astray
      \/ Pushed(s, e) /\ doubted' = doubted \cup {e.id} /\ astray' = astray \cup {e.id}
      \/ /\ list' = s /\ repeats' = repeats /\ extra' = extra /\ doubted' = doubted
         /\ astray' = astray \cup {e.id}
  BY <1>1, <1>2a, <1>3, EnqueueEffect
<1> QED BY <1>5, <1>6, <1>7

LEMMA RipenInd ==
    ASSUME IndInv, NEW i \in DOMAIN list, Ripen(i)
    PROVE  IndInv'
<1>1. TypeOK
  BY DEF IndInv
<1>2. /\ list \in Seq(Items) /\ list' = Ripened(list, i)
      /\ handler' = handler /\ registry' = registry /\ channel' = channel /\ calls' = calls
      /\ job' = job /\ item' = item /\ found' = found /\ astray' = astray
      /\ repeats' = repeats /\ crashes' = crashes /\ extra' = extra /\ doubted' = doubted
  BY <1>1 DEF TypeOK, Ripen, Ripened, handlerVars, jobVars
<1>3. list' \in Seq(Items)
      /\ \A r : Copies(list', r) = Copies(list, r) /\ (Has(list', r) <=> Has(list, r))
  BY <1>2, RipenCopies
<1>4. TypeOK'
  BY <1>1, <1>2, <1>3 DEF TypeOK
<1>5. ASSUME NEW r \in Requests
      PROVE  /\ Copies(list, r)' + extra[r] <= Copies(list, r) + extra'[r]
             /\ extra'[r] >= extra[r]
  <2>1. Copies(list, r) \in Nat /\ extra[r] \in Nat /\ Copies(list', r) = Copies(list, r)
    BY <1>1, <1>3, CopiesType DEF TypeOK
  <2> QED BY <1>2, <2>1
<1>6. QueueOnly
  BY <1>2, <1>3, <1>5 DEF QueueOnly
<1> QED BY <1>4, <1>6, QueueStep

LEMMA KeyExpiresInd ==
    ASSUME IndInv, KeyExpires
    PROVE  IndInv'
<1>1. TypeOK
  BY DEF IndInv
<1>2. /\ list \in Seq(Items) /\ list' = <<>>
      /\ astray' = astray \cup {list[i].id : i \in DOMAIN list}
      /\ handler' = handler /\ registry' = registry /\ channel' = channel /\ calls' = calls
      /\ job' = job /\ item' = item /\ found' = found
      /\ repeats' = repeats /\ crashes' = crashes /\ extra' = extra /\ doubted' = doubted
  BY <1>1 DEF TypeOK, KeyExpires, handlerVars, jobVars
<1>3. list' \in Seq(Items) /\ astray' \subseteq Requests /\ \A r : Has(list, r) => r \in astray'
  <2>1. astray \subseteq Requests
    BY <1>1 DEF TypeOK
  <2>2. list' \in Seq(Items)
    BY <1>2
  <2> QED BY <1>2, <2>1, <2>2, SeqFacts DEF Has
<1>4. TypeOK'
  BY <1>1, <1>2, <1>3 DEF TypeOK
<1>5. ASSUME NEW r \in Requests
      PROVE  /\ Copies(list, r)' + extra[r] <= Copies(list, r) + extra'[r]
             /\ extra'[r] >= extra[r]
             /\ ~Has(list', r)
  <2>1. ~Has(list', r)
    BY <1>2, EmptyCopies
  <2>2. Copies(list, r) \in Nat /\ extra[r] \in Nat /\ Copies(list', r) = 0
    BY <1>1, <1>3, <2>1, CopiesType DEF TypeOK
  <2> QED BY <1>2, <2>1, <2>2
<1>6. QueueOnly
  BY <1>2, <1>3, <1>5 DEF QueueOnly
<1> QED BY <1>4, <1>6, QueueStep

-----------------------------------------------------------------------------
(* The steps of processItem.                                               *)

\* Nothing changes for the requests that goroutine g does not process.
Elsewhere(g) ==
    \A r \in Requests : r # item[g] =>
        /\ calls'[r] = calls[r] /\ extra'[r] = extra[r] /\ (r \in doubted' <=> r \in doubted)
        /\ Copies(list, r)' = Copies(list, r) /\ (Has(list', r) <=> Has(list, r))
        /\ (r \in channel' <=> r \in channel) /\ (r \in registry' <=> r \in registry)

\* What all steps of a goroutine that has an item have in common.
JobOnly(g) ==
    /\ Only(g)
    /\ item'[g] \in {item[g], NoRequest}
    /\ handler' = handler /\ astray \subseteq astray'

LEMMA JobStep ==
    ASSUME IndInv, TypeOK', NEW g \in Goroutines, NEW q \in Requests, item[g] = q,
           JobOnly(g), Elsewhere(g), KeptBy(g, q), Channels(q)', Cared(q)'
    PROVE  IndInv'
<1>1. /\ Only(g) /\ item'[g] \in {item[g], NoRequest} /\ handler' = handler /\ astray \subseteq astray'
      /\ NoRequest \notin Requests
  BY ClusterAssumption DEF JobOnly
<1>2. ASSUME NEW r \in Requests, r # q
      PROVE  KeptBy(g, r)
  <2> DEFINE p == Copies(list, r)  x == Sent(r)  c == calls[r]  m == extra[r]
  <2>1. p \in Nat /\ x \in {0, 1} /\ c \in Nat /\ m \in Nat
    BY NumberTypes DEF IndInv
  <2>2. /\ Copies(list, r)' = p /\ Sent(r)' = x /\ calls'[r] = c /\ extra'[r] = m
        /\ r \notin doubted' => r \notin doubted
    BY <1>2 DEF Elsewhere, Sent
  <2>3. WorksOn(g, r) = 0 /\ WorksOn(g, r)' = 0 /\ AnswersTo(g, r) = 0 /\ AnswersTo(g, r)' = 0
    BY <1>1, <1>2 DEF WorksOn, AnswersTo
  <2> HIDE DEF p, x, c, m
  <2>4. c + p + 0 + m <= c + p + 0 + m /\ p + 0 + x <= p + 0 + x
    BY <2>1
  <2>5. Copies(list, r) = p /\ Sent(r) = x /\ calls[r] = c /\ extra[r] = m
    BY DEF p, x, c, m
  <2> QED BY <2>2, <2>3, <2>4, <2>5 DEF KeptBy
<1>3. ASSUME NEW r \in Requests
      PROVE  Paid(r)' /\ Single(r)'
  BY <1>1, <1>2, CountsKeptBy
<1>4. ASSUME NEW r \in Requests, r # q
      PROVE  Fresh(r)' /\ Channels(r)'
  <2>1. \A h \in Goroutines : item'[h] = r => h # g /\ item[h] = r /\ job'[h] = job[h]
    BY <1>1, <1>4 DEF Only
  <2> QED BY <1>1, <1>4, <2>1 DEF IndInv, Fresh, Channels, Elsewhere
<1>5. Fresh(q)'
  BY <1>1 DEF IndInv, Fresh
<1>6. ASSUME NEW r \in Requests, r # q
      PROVE  Cared(r)'
  <2>1. Attended(r) => Attended(r)'
    <3>1. \A h \in Goroutines : item[h] = r => item'[h] = r /\ job'[h] = job[h] /\ found'[h] = found[h]
      BY <1>6, <1>1 DEF Only
    <3>2. Has(list, r) <=> Has(list', r)
      BY <1>6 DEF Elsewhere
    <3> QED BY <3>1, <3>2 DEF Attended, Has
  <2> QED BY <1>1, <1>6, <2>1 DEF IndInv, Cared, Elsewhere
<1> QED BY <1>3, <1>4, <1>5, <1>6 DEF IndInv

\* The forms of a step of goroutine g: to a label, or to the end.
LEMMA StepFacts ==
    ASSUME TypeOK, NEW g \in Goroutines, job[g] # "idle", NEW l \in Labels \ {"idle"}, Step(g, l)
    PROVE  /\ Only(g) /\ item[g] \in Requests
           /\ item'[g] = item[g] /\ job'[g] = l /\ found'[g] = found[g]
           /\ job' \in [Goroutines -> Labels] /\ item' \in [Goroutines -> Requests \cup {NoRequest}]
           /\ \A h \in Goroutines : job'[h] = "idle" <=> item'[h] = NoRequest
           /\ found' \in [Goroutines -> BOOLEAN]
BY ClusterAssumption DEF TypeOK, Step, Only, Labels

LEMMA FinishFacts ==
    ASSUME TypeOK, NEW g \in Goroutines, job[g] # "idle", Finish(g)
    PROVE  /\ Only(g) /\ item[g] \in Requests
           /\ item'[g] = NoRequest /\ job'[g] = "idle" /\ found'[g] = FALSE
           /\ job' \in [Goroutines -> Labels] /\ item' \in [Goroutines -> Requests \cup {NoRequest}]
           /\ \A h \in Goroutines : job'[h] = "idle" <=> item'[h] = NoRequest
           /\ found' \in [Goroutines -> BOOLEAN]
BY ClusterAssumption DEF TypeOK, Finish, Only, Labels

\* The answer is on its way, or there is nowhere to send it to.
LEMMA RespondFacts ==
    ASSUME TypeOK, NEW g \in Goroutines, job[g] # "idle", Respond(g)
    PROVE  /\ Only(g) /\ item[g] \in Requests /\ item'[g] \in {item[g], NoRequest}
           /\ job'[g] \in {"idle", "reply"}
           /\ found[g] => item'[g] = item[g] /\ found'[g]
           /\ job' \in [Goroutines -> Labels] /\ item' \in [Goroutines -> Requests \cup {NoRequest}]
           /\ \A h \in Goroutines : job'[h] = "idle" <=> item'[h] = NoRequest
           /\ found' \in [Goroutines -> BOOLEAN]
<1>1. CASE found[g]
  <2>1. Step(g, "reply") /\ "reply" \in Labels \ {"idle"}
    BY <1>1 DEF Respond, Labels
  <2> QED BY <1>1, <2>1, StepFacts
<1>2. CASE ~found[g]
  <2>1. Finish(g)
    BY <1>2 DEF Respond
  <2> QED BY <1>2, <2>1, FinishFacts
<1> QED BY <1>1, <1>2

\* A goroutine that leaves a request without an answer to send was not the one
\* that attends it.
LEMMA StillCared ==
    ASSUME IndInv, NEW g \in Goroutines, NEW r \in Requests, item[g] = r, JobOnly(g),
           job[g] # "start", found[g] => item'[g] = item[g] /\ found'[g],
           Has(list, r) => Has(list', r), registry' = registry, channel' = channel
    PROVE  Cared(r)'
<1>1. /\ handler' = handler /\ astray \subseteq astray'
      /\ \A h \in Goroutines : h # g => item'[h] = item[h] /\ job'[h] = job[h] /\ found'[h] = found[h]
  BY DEF JobOnly, Only
<1>2. Cared(r)
  BY DEF IndInv
<1>3. ASSUME NEW h \in Goroutines, item[h] = r, job[h] = "start" \/ found[h]
      PROVE  item'[h] = r /\ (job'[h] = "start" \/ found'[h])
  BY <1>1, <1>3
<1>4. Attended(r) => Attended(r)'
  BY <1>3 DEF Attended, Has
<1> QED BY <1>1, <1>2, <1>4 DEF Cared

\* What a goroutine counts for follows from where it is.
LEMMA CountsOf ==
    ASSUME NEW g \in Goroutines, NEW r, item[g] = r
    PROVE  /\ job[g] \in Calling => WorksOn(g, r) = 1 /\ AnswersTo(g, r) = 1
           /\ job[g] = "reply" => WorksOn(g, r) = 0 /\ AnswersTo(g, r) = 1
           /\ job[g] = "remove" => WorksOn(g, r) = 0 /\ AnswersTo(g, r) = 0
           /\ WorksOn(g, r)' \in {0, 1} /\ AnswersTo(g, r)' \in {0, 1}
           /\ job'[g] = "idle" \/ item'[g] # r => WorksOn(g, r)' = 0 /\ AnswersTo(g, r)' = 0
           /\ job'[g] = "reply" => WorksOn(g, r)' = 0
           /\ job'[g] = "remove" => WorksOn(g, r)' = 0 /\ AnswersTo(g, r)' = 0
BY DEF WorksOn, AnswersTo, Calling

LEMMA JobStartInd ==
    ASSUME IndInv, NEW g \in Goroutines, JobStart(g)
    PROVE  IndInv'
<1> DEFINE q == item[g]
<1>1. TypeOK
  BY DEF IndInv
<1>2. /\ job[g] = "start"
      /\ \/ Finish(g) /\ astray' = astray \cup {q}
         \/ /\ job' = [job EXCEPT ![g] = "allow"] /\ item' = item /\ astray' = astray
            /\ found' = [found EXCEPT ![g] = q \in registry /\ On[g] = Home[q]]
      /\ list' = list /\ handler' = handler /\ registry' = registry /\ channel' = channel
      /\ repeats' = repeats /\ crashes' = crashes /\ calls' = calls /\ extra' = extra
      /\ doubted' = doubted
  BY DEF JobStart, handlerVars
<1>3. /\ q \in Requests /\ Only(g) /\ item'[g] \in {q, NoRequest} /\ job'[g] # "remove"
      /\ \/ q \in astray'
         \/ job'[g] = "allow" /\ item'[g] = q /\ found'[g] = (q \in registry /\ On[g] = Home[q])
      /\ job' \in [Goroutines -> Labels] /\ item' \in [Goroutines -> Requests \cup {NoRequest}]
      /\ \A h \in Goroutines : job'[h] = "idle" <=> item'[h] = NoRequest
      /\ found' \in [Goroutines -> BOOLEAN] /\ astray' \subseteq Requests /\ astray \subseteq astray'
  <2>1. q \in Requests /\ astray \subseteq Requests
    BY <1>1, <1>2 DEF TypeOK
  <2>2. CASE Finish(g) /\ astray' = astray \cup {q}
    BY <1>1, <1>2, <2>1, <2>2, FinishFacts
  <2>3. CASE /\ job' = [job EXCEPT ![g] = "allow"] /\ item' = item /\ astray' = astray
             /\ found' = [found EXCEPT ![g] = q \in registry /\ On[g] = Home[q]]
    <3>1. found' \in [Goroutines -> BOOLEAN]
      BY <1>1, <2>3 DEF TypeOK
    <3> QED BY <1>1, <1>2, <2>1, <2>3, <3>1 DEF TypeOK, Only, Labels
  <2> QED BY <1>2, <2>2, <2>3
<1>4. TypeOK'
  BY <1>1, <1>2, <1>3 DEF TypeOK, Labels
<1>5. PICK r \in Requests : r = q
  BY <1>3
<1> HIDE DEF q
<1>6. JobOnly(g) /\ Elsewhere(g)
  BY <1>2, <1>3 DEF JobOnly, Elsewhere, q
<1>7. KeptBy(g, r)
  <2> DEFINE p == Copies(list, r)  x == Sent(r)  c == calls[r]  m == extra[r]
  <2>1. p \in Nat /\ x \in {0, 1} /\ c \in Nat /\ m \in Nat
    BY <1>4, NumberTypes DEF IndInv
  <2>2. Copies(list, r)' = p /\ Sent(r)' = x /\ calls'[r] = c /\ extra'[r] = m /\ doubted' = doubted
    BY <1>2 DEF Sent
  <2>3. WorksOn(g, r) = 1 /\ AnswersTo(g, r) = 1 /\ WorksOn(g, r)' \in {0, 1} /\ AnswersTo(g, r)' \in {0, 1}
    BY <1>2, <1>5, CountsOf DEF q, Calling
  <2> DEFINE w == WorksOn(g, r)'  a == AnswersTo(g, r)'
  <2>4. w \in {0, 1} /\ a \in {0, 1}
    BY <2>3
  <2> HIDE DEF p, x, c, m, w, a
  <2>5. c + p + w + m <= c + p + 1 + m /\ p + a + x <= p + 1 + x
    BY <2>1, <2>4
  <2> QED BY <2>2, <2>3, <2>5 DEF KeptBy, p, x, c, m, w, a
<1>8. Channels(r)'
  <2>1. Channels(r)
    BY DEF IndInv
  <2>2. \A h \in Goroutines : h # g => job'[h] = job[h]
    BY <1>3 DEF Only
  <2>3. job'[g] # "remove" /\ handler' = handler /\ registry' = registry /\ channel' = channel
    BY <1>2, <1>3
  <2>4. \A h \in Goroutines : item'[h] = r /\ h # g => item[h] = r
    BY <1>3 DEF Only
  <2> QED BY <2>1, <2>2, <2>3, <2>4 DEF Channels
<1>9. Cared(r)'
  <2>1. Cared(r) /\ Channels(r)
    BY DEF IndInv
  <2>2. CASE q \in astray'
    BY <1>5, <2>2 DEF Cared
  <2>3. CASE job'[g] = "allow" /\ item'[g] = q /\ found'[g] = (q \in registry /\ On[g] = Home[q])
    <3>1. r \in registry => (Attended(r) => Attended(r)')
      <4> SUFFICES ASSUME r \in registry, Attended(r)
                   PROVE  Attended(r)'
        OBVIOUS
      <4>1. CASE \E i \in DOMAIN list : list[i].id = r
        BY <1>2, <4>1 DEF Attended
      <4>2. ASSUME NEW h \in Goroutines, item[h] = r, On[h] = Home[r], job[h] = "start" \/ found[h]
            PROVE  item'[h] = r /\ (job'[h] = "start" \/ found'[h])
        BY <1>2, <1>3, <1>5, <2>3, <4>2 DEF Only
      <4> QED BY <4>1, <4>2 DEF Attended
    <3> QED BY <1>2, <1>3, <2>1, <3>1 DEF Cared, Channels
  <2> QED BY <1>3, <2>2, <2>3
<1> QED BY <1>4, <1>5, <1>6, <1>7, <1>8, <1>9, JobStep DEF q

\* A step that leaves the queue, the handlers and the channels alone, and after
\* which the goroutine may still call the provider, may still answer, or is done.
LEMMA PlainStep ==
    ASSUME IndInv, NEW g \in Goroutines, job[g] \in Calling \ {"start"}, Only(g),
           item'[g] \in {item[g], NoRequest}, found[g] => item'[g] = item[g] /\ found'[g],
           job'[g] \in (Calling \ {"start"}) \cup {"reply", "idle"},
           job' \in [Goroutines -> Labels], item' \in [Goroutines -> Requests \cup {NoRequest}],
           \A h \in Goroutines : job'[h] = "idle" <=> item'[h] = NoRequest,
           found' \in [Goroutines -> BOOLEAN],
           list' = list, handler' = handler, registry' = registry, channel' = channel,
           repeats' = repeats, crashes' = crashes, extra' = extra, doubted' = doubted,
           astray' = astray, calls' \in [Requests -> Nat],
           \A r \in Requests : r # item[g] => calls'[r] = calls[r],
           \/ calls' = calls
           \/ job'[g] \in {"reply", "idle"} /\ calls'[item[g]] = calls[item[g]] + 1
    PROVE  IndInv'
<1>1. TypeOK
  BY DEF IndInv
<1>2. item[g] \in Requests
  BY <1>1 DEF TypeOK, Calling
<1>3. TypeOK'
  BY <1>1 DEF TypeOK, Labels
<1>4. PICK r \in Requests : item[g] = r
  BY <1>2
<1>5. JobOnly(g) /\ Elsewhere(g)
  BY <1>4 DEF JobOnly, Elsewhere
<1>6. KeptBy(g, r)
  <2> DEFINE p == Copies(list, r)  x == Sent(r)  c == calls[r]  d == calls'[r]  m == extra[r]
             w == WorksOn(g, r)'  a == AnswersTo(g, r)'
  <2>1. p \in Nat /\ x \in {0, 1} /\ c \in Nat /\ d \in Nat /\ m \in Nat
    BY <1>1, <1>3, NumberTypes
  <2>2. Copies(list, r)' = p /\ Sent(r)' = x /\ extra'[r] = m /\ doubted' = doubted
    BY DEF Sent
  <2>3. /\ WorksOn(g, r) = 1 /\ AnswersTo(g, r) = 1 /\ w \in {0, 1} /\ a \in {0, 1}
        /\ job'[g] \in {"reply", "idle"} => w = 0
    BY <1>4, CountsOf
  <2>4. d = c \/ (w = 0 /\ d = c + 1)
    <3>1. CASE calls' = calls
      <4>1. d = c
        BY <3>1
      <4> HIDE DEF d, c, w
      <4> QED BY <4>1
    <3>2. CASE job'[g] \in {"reply", "idle"} /\ calls'[item[g]] = calls[item[g]] + 1
      <4>1. d = c + 1
        BY <1>4, <3>2
      <4>2. w = 0
        BY <2>3, <3>2
      <4> HIDE DEF d, c, w
      <4> QED BY <4>1, <4>2
    <3> HIDE DEF d, c, w
    <3> QED BY <3>1, <3>2
  <2> HIDE DEF p, x, c, d, m, w, a
  <2>5. d + p + w + m <= c + p + 1 + m /\ p + a + x <= p + 1 + x
    BY <2>1, <2>3, <2>4
  <2> QED BY <2>2, <2>3, <2>5 DEF KeptBy, p, x, c, d, m, w, a
<1>7. Channels(r)'
  <2>1. Channels(r)
    BY DEF IndInv
  <2>2. job'[g] # "remove" /\ \A h \in Goroutines : h # g => job'[h] = job[h] /\ item'[h] = item[h]
    BY DEF Only, Calling
  <2> QED BY <2>1, <2>2 DEF Channels
<1>8. Cared(r)'
  <2>1. job[g] # "start"
    OBVIOUS
  <2> QED BY <1>4, <1>5, <2>1, StillCared
<1> QED BY <1>3, <1>4, <1>5, <1>6, <1>7, <1>8, JobStep

LEMMA JobAllowInd ==
    ASSUME IndInv, NEW g \in Goroutines, JobAllow(g)
    PROVE  IndInv'
<1>1. TypeOK
  BY DEF IndInv
<1>2. /\ job[g] = "allow" /\ list' = list /\ handler' = handler /\ registry' = registry
      /\ channel' = channel /\ repeats' = repeats /\ crashes' = crashes /\ calls' = calls
      /\ extra' = extra /\ doubted' = doubted /\ astray' = astray
  BY DEF JobAllow, handlerVars
<1>3. job[g] \in Calling \ {"start"} /\ calls' \in [Requests -> Nat]
  BY <1>1, <1>2 DEF Calling, TypeOK
<1>4. ASSUME NEW l \in {"process", "requeue"}, Step(g, l)
      PROVE  IndInv'
  <2>1. l \in Labels \ {"idle"} /\ l \in Calling \ {"start"}
    BY DEF Labels, Calling
  <2>2. Step(g, l) /\ job[g] # "idle"
    BY <1>2, <1>4
  <2> HIDE DEF Calling, Labels
  <2> QED BY <1>1, <1>2, <1>3, <2>1, <2>2, StepFacts, PlainStep
<1>5. CASE Respond(g)
  BY <1>1, <1>2, <1>3, <1>5, RespondFacts, PlainStep
<1> QED BY <1>4, <1>5 DEF JobAllow

LEMMA JobProcessInd ==
    ASSUME IndInv, NEW g \in Goroutines, JobProcess(g)
    PROVE  IndInv'
<1>1. TypeOK
  BY DEF IndInv
<1>2. /\ job[g] = "process" /\ list' = list /\ handler' = handler /\ registry' = registry
      /\ channel' = channel /\ repeats' = repeats /\ crashes' = crashes
      /\ calls' = [calls EXCEPT ![item[g]] = @ + 1]
      /\ extra' = extra /\ doubted' = doubted /\ astray' = astray /\ Respond(g)
  BY DEF JobProcess, handlerVars
<1>3. job[g] \in Calling \ {"start"} /\ item[g] \in Requests
  BY <1>1, <1>2 DEF Calling, TypeOK
<1>4. calls \in [Requests -> Nat]
  BY <1>1 DEF TypeOK
<1>5. /\ calls' \in [Requests -> Nat] /\ calls'[item[g]] = calls[item[g]] + 1
      /\ \A r \in Requests : r # item[g] => calls'[r] = calls[r]
  BY <1>2, <1>3, <1>4
<1> QED BY <1>1, <1>2, <1>3, <1>5, RespondFacts, PlainStep

LEMMA JobReplyInd ==
    ASSUME IndInv, NEW g \in Goroutines, JobReply(g)
    PROVE  IndInv'
<1>1. TypeOK
  BY DEF IndInv
<1>2. /\ job[g] = "reply" /\ item[g] \notin channel /\ channel' = channel \cup {item[g]}
      /\ Step(g, "remove") /\ list' = list /\ handler' = handler /\ registry' = registry
      /\ repeats' = repeats /\ crashes' = crashes /\ calls' = calls
      /\ extra' = extra /\ doubted' = doubted /\ astray' = astray
  BY DEF JobReply
<1>3. "remove" \in Labels \ {"idle"} /\ job[g] # "idle"
  BY <1>2 DEF Labels
<1>4. /\ Only(g) /\ item[g] \in Requests /\ item'[g] = item[g] /\ job'[g] = "remove"
      /\ found'[g] = found[g]
      /\ job' \in [Goroutines -> Labels] /\ item' \in [Goroutines -> Requests \cup {NoRequest}]
      /\ \A h \in Goroutines : job'[h] = "idle" <=> item'[h] = NoRequest
      /\ found' \in [Goroutines -> BOOLEAN]
  BY <1>1, <1>2, <1>3, StepFacts
<1>5. TypeOK'
  BY <1>1, <1>2, <1>4 DEF TypeOK, Labels
<1>6. PICK r \in Requests : item[g] = r
  BY <1>4
<1>7. JobOnly(g) /\ Elsewhere(g)
  BY <1>2, <1>4 DEF JobOnly, Elsewhere
<1>8. KeptBy(g, r)
  <2> DEFINE p == Copies(list, r)  c == calls[r]  m == extra[r]
  <2>1. p \in Nat /\ c \in Nat /\ m \in Nat
    BY <1>1, <1>5, NumberTypes
  <2>2. Copies(list, r)' = p /\ calls'[r] = c /\ extra'[r] = m /\ doubted' = doubted
    BY <1>2
  <2>3. Sent(r) = 0 /\ Sent(r)' = 1
    BY <1>2, <1>6 DEF Sent
  <2>4. WorksOn(g, r) = 0 /\ AnswersTo(g, r) = 1 /\ WorksOn(g, r)' = 0 /\ AnswersTo(g, r)' = 0
    BY <1>2, <1>4, <1>6, CountsOf
  <2> HIDE DEF p, c, m
  <2>5. c + p + 0 + m <= c + p + 0 + m /\ p + 0 + 1 <= p + 1 + 0
    BY <2>1
  <2> QED BY <2>2, <2>3, <2>4, <2>5 DEF KeptBy, p, c, m
<1>9. Channels(r)'
  <2>1. Channels(r) /\ r \in channel'
    BY <1>2, <1>6 DEF IndInv
  <2> QED BY <1>2, <2>1 DEF Channels
<1>10. Cared(r)'
  <2>1. Cared(r) /\ r \in channel'
    BY <1>2, <1>6 DEF IndInv
  <2>2. \A h \in Goroutines : /\ item'[h] = item[h] /\ found'[h] = found[h]
                              /\ job[h] = "start" => job'[h] = "start"
    BY <1>2, <1>4 DEF Only
  <2>3. Attended(r) => Attended(r)'
    BY <1>2, <2>2 DEF Attended
  <2> QED BY <1>2, <2>1, <2>3 DEF Cared
<1> QED BY <1>5, <1>6, <1>7, <1>8, <1>9, <1>10, JobStep

LEMMA JobRemoveInd ==
    ASSUME IndInv, NEW g \in Goroutines, JobRemove(g)
    PROVE  IndInv'
<1>1. TypeOK
  BY DEF IndInv
<1>2. /\ job[g] = "remove" /\ registry' = registry \ {item[g]} /\ Finish(g)
      /\ list' = list /\ handler' = handler /\ channel' = channel
      /\ repeats' = repeats /\ crashes' = crashes /\ calls' = calls
      /\ extra' = extra /\ doubted' = doubted /\ astray' = astray
  BY DEF JobRemove, handlerVars
<1>3. /\ Only(g) /\ item[g] \in Requests /\ item'[g] = NoRequest /\ job'[g] = "idle"
      /\ job' \in [Goroutines -> Labels] /\ item' \in [Goroutines -> Requests \cup {NoRequest}]
      /\ \A h \in Goroutines : job'[h] = "idle" <=> item'[h] = NoRequest
      /\ found' \in [Goroutines -> BOOLEAN]
  BY <1>1, <1>2, FinishFacts
<1>4. TypeOK'
  BY <1>1, <1>2, <1>3 DEF TypeOK, Labels
<1>5. PICK r \in Requests : item[g] = r
  BY <1>3
<1>6. JobOnly(g) /\ Elsewhere(g)
  BY <1>2, <1>3 DEF JobOnly, Elsewhere
<1>7. KeptBy(g, r)
  <2> DEFINE p == Copies(list, r)  x == Sent(r)  c == calls[r]  m == extra[r]
  <2>1. p \in Nat /\ x \in {0, 1} /\ c \in Nat /\ m \in Nat
    BY <1>1, <1>4, NumberTypes
  <2>2. Copies(list, r)' = p /\ Sent(r)' = x /\ calls'[r] = c /\ extra'[r] = m /\ doubted' = doubted
    BY <1>2 DEF Sent
  <2>3. WorksOn(g, r) = 0 /\ AnswersTo(g, r) = 0 /\ WorksOn(g, r)' = 0 /\ AnswersTo(g, r)' = 0
    BY <1>2, <1>3, <1>5, CountsOf
  <2> HIDE DEF p, x, c, m
  <2>4. c + p + 0 + m <= c + p + 0 + m /\ p + 0 + x <= p + 0 + x
    BY <2>1
  <2> QED BY <2>2, <2>3, <2>4 DEF KeptBy, p, x, c, m
<1>8. ~(handler[r] = "waiting" /\ r \notin channel) /\ handler[r] \notin {"idle", "registered"}
  BY <1>2, <1>5 DEF IndInv, Channels, Fresh
<1>9. Channels(r)'
  BY <1>2, <1>8 DEF Channels
<1>10. Cared(r)'
  BY <1>2, <1>5, <1>8 DEF Cared
<1> QED BY <1>4, <1>5, <1>6, <1>7, <1>9, <1>10, JobStep

\* A refused request goes back to the queue, or its client is told.
LEMMA JobRequeueInd ==
    ASSUME IndInv, NEW g \in Goroutines, JobRequeue(g)
    PROVE  IndInv'
<1> DEFINE e == [id |-> item[g], ready |-> FALSE]
<1>1. TypeOK
  BY DEF IndInv
<1>2. /\ job[g] = "requeue" /\ handler' = handler /\ registry' = registry /\ channel' = channel
      /\ crashes' = crashes /\ calls' = calls /\ astray' = astray
  BY DEF JobRequeue, handlerVars
<1>3. \/ EnqueueSucceeds(list, e) /\ Finish(g)
      \/ EnqueueFails(list, e) /\ Respond(g)
  BY DEF JobRequeue
<1>4. job[g] \in Calling \ {"start"} /\ job[g] # "idle" /\ item[g] \in Requests
  BY <1>1, <1>2 DEF Calling, TypeOK
<1>5. list \in Seq(Items) /\ e \in Items /\ e.id = item[g]
  BY <1>1, <1>4 DEF TypeOK, Items
<1>6. PICK r \in Requests : item[g] = r
  BY <1>4
<1> HIDE DEF e
<1>7. \/ Pushed(list, e) /\ doubted' = doubted /\ Finish(g)
      \/ Pushed(list, e) /\ doubted' = doubted \cup {e.id} /\ Respond(g)
      \/ list' = list /\ repeats' = repeats /\ extra' = extra /\ doubted' = doubted /\ Respond(g)
  BY <1>1, <1>3, <1>5, EnqueueEffect
<1>8. CASE list' = list /\ repeats' = repeats /\ extra' = extra /\ doubted' = doubted /\ Respond(g)
  <2>1. calls' \in [Requests -> Nat]
    BY <1>1, <1>2 DEF TypeOK
  <2> QED BY <1>1, <1>2, <1>4, <1>8, <2>1, RespondFacts, PlainStep
<1>9. CASE /\ Pushed(list, e)
           /\ \/ doubted' = doubted /\ Finish(g)
              \/ doubted' = doubted \cup {e.id} /\ Respond(g)
  <2>1. /\ Only(g) /\ item'[g] \in {item[g], NoRequest} /\ job'[g] \in {"idle", "reply"}
        /\ job' \in [Goroutines -> Labels] /\ item' \in [Goroutines -> Requests \cup {NoRequest}]
        /\ \A h \in Goroutines : job'[h] = "idle" <=> item'[h] = NoRequest
        /\ found' \in [Goroutines -> BOOLEAN]
    BY <1>1, <1>4, <1>9, RespondFacts, FinishFacts
  <2>2. /\ list' \in Seq(Items) /\ repeats' \in 0 .. MaxRepeats /\ extra' \in [Requests -> Nat]
        /\ Has(list', r)
    BY <1>5, <1>6, <1>9 DEF Pushed
  <2>3. doubted' \subseteq Requests
    BY <1>1, <1>4, <1>5, <1>9 DEF TypeOK
  <2>4. TypeOK'
    BY <1>1, <1>2, <2>1, <2>2, <2>3 DEF TypeOK, Labels
  <2>5. ASSUME NEW s \in Requests, s # item[g]
        PROVE  Copies(list, s)' = Copies(list, s) /\ extra'[s] = extra[s] /\ (Has(list', s) <=> Has(list, s))
    <3> DEFINE p == Copies(list, s)  q == Copies(list', s)  m == extra[s]  n == extra'[s]
    <3>1. p \in Nat /\ q \in Nat /\ m \in Nat /\ n \in Nat
      BY <1>1, <2>4, NumberTypes
    <3>2. q + m = p + n + 0 /\ n = m /\ (Has(list', s) <=> Has(list, s))
      BY <1>5, <1>9, <2>5 DEF Pushed
    <3> HIDE DEF p, q, m, n
    <3>3. q = p
      BY <3>1, <3>2
    <3> QED BY <3>2, <3>3 DEF p, q, m, n
  <2>6. JobOnly(g) /\ Elsewhere(g)
    BY <1>2, <1>5, <1>9, <2>1, <2>5 DEF JobOnly, Elsewhere
  <2>7. KeptBy(g, r)
    <3> DEFINE p == Copies(list, r)  q == Copies(list, r)'  x == Sent(r)  c == calls[r]
               m == extra[r]  n == extra'[r]  a == AnswersTo(g, r)'
    <3>1. p \in Nat /\ q \in Nat /\ x \in {0, 1} /\ c \in Nat /\ m \in Nat /\ n \in Nat
      BY <1>1, <2>4, NumberTypes
    <3>2. Sent(r)' = x /\ calls'[r] = c
      BY <1>2 DEF Sent
    <3>3. q + m = p + n + 1 /\ n >= m
      BY <1>5, <1>6, <1>9 DEF Pushed
    <3>4. /\ WorksOn(g, r) = 1 /\ AnswersTo(g, r) = 1 /\ WorksOn(g, r)' = 0
      BY <1>4, <1>6, <2>1, CountsOf
    <3>5. r \notin doubted' => a = 0 /\ r \notin doubted
      <4>1. Finish(g) => job'[g] = "idle"
        BY <1>1, <1>4, FinishFacts
      <4>2. job'[g] = "idle" => a = 0
        BY <1>6, CountsOf
      <4> HIDE DEF a
      <4> QED BY <1>5, <1>6, <1>9, <4>1, <4>2
    <3> HIDE DEF p, q, x, c, m, n, a
    <3>6. c + q + 0 + m <= c + p + 1 + n
      BY <3>1, <3>3
    <3>7. n = 0 /\ a = 0 => m = 0 /\ q + a + x <= p + 1 + x
      BY <3>1, <3>3
    <3>8. n = 0 /\ r \notin doubted' => m = 0 /\ r \notin doubted /\ q + a + x <= p + 1 + x
      BY <3>5, <3>7
    <3> QED BY <3>2, <3>4, <3>6, <3>8 DEF KeptBy, p, q, x, c, m, n, a
  <2>8. Channels(r)'
    <3>1. Channels(r)
      BY DEF IndInv
    <3>2. job'[g] # "remove" /\ \A h \in Goroutines : h # g => job'[h] = job[h] /\ item'[h] = item[h]
      BY <2>1 DEF Only
    <3> QED BY <1>2, <3>1, <3>2 DEF Channels
  <2>9. Cared(r)'
    BY <2>2 DEF Cared, Attended, Has
  <2> QED BY <1>6, <2>4, <2>6, <2>7, <2>8, <2>9, JobStep
<1> QED BY <1>7, <1>8, <1>9

-----------------------------------------------------------------------------
(* An item is popped: it goes from the list to a goroutine.                *)

LEMMA DequeueInd ==
    ASSUME IndInv, NEW g \in Goroutines, Dequeue(g)
    PROVE  IndInv'
<1> DEFINE q == Head(list).id
<1>1. TypeOK
  BY DEF IndInv
<1>2. /\ job[g] = "idle" /\ list \in Seq(Items) /\ list # <<>> /\ list' = Tail(list)
      /\ job' = [job EXCEPT ![g] = "start"] /\ item' = [item EXCEPT ![g] = q]
      /\ astray' = IF On[g] = Home[q] THEN astray ELSE astray \cup {q}
      /\ handler' = handler /\ registry' = registry /\ channel' = channel /\ found' = found
      /\ repeats' = repeats /\ crashes' = crashes /\ calls' = calls /\ extra' = extra
      /\ doubted' = doubted
  BY <1>1 DEF Dequeue, TypeOK, handlerVars
<1>3. list' \in Seq(Items) /\ q \in Requests
  BY <1>2, PopCopies
<1>4. \A r : /\ Copies(list, r) = Copies(list', r) + (IF r = q THEN 1 ELSE 0)
             /\ Has(list, r) <=> Has(list', r) \/ r = q
  BY <1>2, PopCopies
<1> HIDE DEF q
<1>5. /\ item[g] = NoRequest /\ NoRequest \notin Requests
      /\ item'[g] = q /\ job'[g] = "start" /\ Only(g)
  BY <1>1, <1>2, ClusterAssumption DEF TypeOK, Only
<1>6. TypeOK'
  <2>1. astray' \subseteq Requests
    BY <1>1, <1>2, <1>3 DEF TypeOK
  <2>2. /\ job' \in [Goroutines -> Labels] /\ item' \in [Goroutines -> Requests \cup {NoRequest}]
        /\ \A h \in Goroutines : job'[h] = "idle" <=> item'[h] = NoRequest
    BY <1>1, <1>2, <1>3, <1>5 DEF TypeOK, Labels
  <2> QED BY <1>1, <1>2, <1>3, <2>1, <2>2 DEF TypeOK, Labels
<1>7. ASSUME NEW r \in Requests
      PROVE  KeptBy(g, r)
  <2> DEFINE p == Copies(list, r)  u == Copies(list, r)'  x == Sent(r)  c == calls[r]  m == extra[r]
             w == WorksOn(g, r)'  a == AnswersTo(g, r)'
  <2>1. p \in Nat /\ u \in Nat /\ x \in {0, 1} /\ c \in Nat /\ m \in Nat
    BY <1>1, <1>6, NumberTypes
  <2>2. Sent(r)' = x /\ calls'[r] = c /\ extra'[r] = m /\ doubted' = doubted
    BY <1>2 DEF Sent
  <2>3. WorksOn(g, r) = 0 /\ AnswersTo(g, r) = 0
    BY <1>5 DEF WorksOn, AnswersTo
  <2>4. w = (IF r = q THEN 1 ELSE 0) /\ a = (IF r = q THEN 1 ELSE 0)
    BY <1>5 DEF WorksOn, AnswersTo, Calling
  <2>5. p = u + (IF r = q THEN 1 ELSE 0)
    BY <1>4
  <2> HIDE DEF p, u, x, c, m, w, a
  <2>6. c + u + w + m <= c + p + 0 + m /\ u + a + x <= p + 0 + x
    BY <2>1, <2>4, <2>5
  <2> QED BY <2>2, <2>3, <2>6 DEF KeptBy, p, u, x, c, m, w, a
<1>8. ASSUME NEW r \in Requests
      PROVE  Paid(r)' /\ Single(r)'
  BY <1>5, <1>6, <1>7, CountsKeptBy
<1>9. ASSUME NEW r \in Requests
      PROVE  Fresh(r)' /\ Channels(r)'
  <2>1. \A h \in Goroutines : h # g => item'[h] = item[h] /\ job'[h] = job[h]
    BY <1>5 DEF Only
  <2>2. Fresh(r) /\ Channels(r)
    BY DEF IndInv
  <2>3. Fresh(r)'
    BY <1>2, <1>4, <1>5, <2>1, <2>2 DEF Fresh
  <2>4. Channels(r)'
    BY <1>2, <1>5, <2>1, <2>2 DEF Channels
  <2> QED BY <2>3, <2>4
<1>10. ASSUME NEW r \in Requests
       PROVE  Cared(r)'
  <2>1. Cared(r)
    BY DEF IndInv
  <2>2. Attended(r) => Attended(r)' \/ r \in astray'
    <3>1. \A h \in Goroutines : item[h] = r => item'[h] = r /\ job'[h] = job[h] /\ found'[h] = found[h]
      BY <1>2, <1>5 DEF Only
    <3>2. CASE Has(list, r)
      <4>1. CASE Has(list', r)
        BY <4>1 DEF Attended, Has
      <4>2. CASE r = q /\ On[g] = Home[q]
        BY <1>5, <4>2 DEF Attended
      <4>3. CASE r = q /\ On[g] # Home[q]
        BY <1>2, <4>3
      <4> QED BY <1>4, <3>2, <4>1, <4>2, <4>3
    <3>3. CASE ~Has(list, r)
      BY <3>1, <3>3 DEF Attended, Has
    <3> QED BY <3>2, <3>3
  <2>3. r \in astray => r \in astray'
    BY <1>2
  <2> QED BY <1>2, <2>1, <2>2, <2>3 DEF Cared
<1> QED BY <1>6, <1>8, <1>9, <1>10 DEF IndInv

-----------------------------------------------------------------------------
(* The steps of ServeHTTP.                                                 *)

\* The counts do not grow when no item and no goroutine is added.
LEMMA NothingAdded ==
    ASSUME TypeOK, TypeOK', NEW r \in Requests,
           list' = list, calls' = calls, extra' = extra, doubted' = doubted,
           r \in channel' => r \in channel,
           Working(r)' \subseteq Working(r), Answering(r)' \subseteq Answering(r)
    PROVE  Kept(r)
<1> DEFINE p == Copies(list, r)  x == Sent(r)  y == Sent(r)'  c == calls[r]  m == extra[r]
           w == Cardinality(Working(r))  v == Cardinality(Working(r))'
           a == Cardinality(Answering(r))  b == Cardinality(Answering(r))'
<1>1. /\ p \in Nat /\ x \in {0, 1} /\ y \in {0, 1} /\ c \in Nat /\ m \in Nat
      /\ w \in Nat /\ v \in Nat /\ a \in Nat /\ b \in Nat
  BY CountTypes, NumberTypes
<1>2. Copies(list, r)' = p /\ calls'[r] = c /\ extra'[r] = m
  OBVIOUS
<1>3. y <= x
  BY DEF Sent
<1>4. Cardinality(Working(r)') <= w /\ Cardinality(Answering(r)') <= a
  BY CountTypes, FS_Subset
<1>5. v <= w /\ b <= a
  BY <1>4
<1> HIDE DEF p, x, y, c, m, w, v, a, b
<1>6. c + p + v + m <= c + p + w + m /\ p + b + y <= p + a + x
  BY <1>1, <1>3, <1>5
<1> QED BY <1>2, <1>6 DEF Kept, p, x, y, c, m, w, v, a, b

LEMMA RegisterInd ==
    ASSUME IndInv, NEW q \in Requests, Register(q)
    PROVE  IndInv'
<1>1. TypeOK
  BY DEF IndInv
<1>2. /\ handler[q] = "idle" /\ registry' = registry \cup {q}
      /\ handler' = [handler EXCEPT ![q] = "registered"]
      /\ list' = list /\ channel' = channel /\ job' = job /\ item' = item /\ found' = found
      /\ repeats' = repeats /\ crashes' = crashes /\ calls' = calls /\ extra' = extra
      /\ doubted' = doubted /\ astray' = astray
  BY DEF Register, jobVars
<1>3. TypeOK'
  BY <1>1, <1>2 DEF TypeOK
<1>4. handler'[q] = "registered" /\ \A r \in Requests : r # q => handler'[r] = handler[r]
  BY <1>1, <1>2 DEF TypeOK
<1>5. ASSUME NEW r \in Requests
      PROVE  Paid(r)' /\ Single(r)'
  <2>1. Working(r)' = Working(r) /\ Answering(r)' = Answering(r)
    BY <1>2 DEF Working, Answering
  <2> QED BY <1>1, <1>2, <1>3, <2>1, NothingAdded, CountsKept
<1>6. ASSUME NEW r \in Requests
      PROVE  Fresh(r)' /\ Channels(r)' /\ Cared(r)'
  <2>1. Fresh(r) /\ Channels(r) /\ Cared(r)
    BY DEF IndInv
  <2>2. Attended(r)' <=> Attended(r)
    BY <1>2 DEF Attended
  <2>3. CASE r = q
    BY <1>2, <1>4, <2>1, <2>3 DEF Fresh, Channels, Cared
  <2>4. CASE r # q
    BY <1>2, <1>4, <2>1, <2>2, <2>4 DEF Fresh, Channels, Cared
  <2> QED BY <2>3, <2>4
<1> QED BY <1>3, <1>5, <1>6 DEF IndInv

\* The handler of q, which waits, ends.
LEMMA HandlerEnds ==
    ASSUME IndInv, NEW q \in Requests, handler[q] = "waiting",
           handler' = [handler EXCEPT ![q] = "over"],
           channel' \in {channel, channel \ {q}},
           list' = list, registry' = registry, job' = job, item' = item, found' = found,
           repeats' = repeats, crashes' = crashes, calls' = calls, extra' = extra,
           doubted' = doubted, astray' = astray
    PROVE  IndInv'
<1>1. TypeOK
  BY DEF IndInv
<1>2. TypeOK'
  BY <1>1 DEF TypeOK
<1>3. handler'[q] = "over" /\ \A r \in Requests : r # q => handler'[r] = handler[r]
  BY <1>1 DEF TypeOK
<1>4. ASSUME NEW r \in Requests
      PROVE  Paid(r)' /\ Single(r)'
  <2>1. Working(r)' = Working(r) /\ Answering(r)' = Answering(r) /\ (r \in channel' => r \in channel)
    BY DEF Working, Answering
  <2> QED BY <1>1, <1>2, <2>1, NothingAdded, CountsKept
<1>5. ASSUME NEW r \in Requests
      PROVE  Fresh(r)' /\ Channels(r)' /\ Cared(r)'
  <2>1. Fresh(r) /\ Channels(r) /\ Cared(r)
    BY DEF IndInv
  <2>2. Attended(r)' <=> Attended(r)
    BY DEF Attended
  <2>3. CASE r = q
    BY <1>3, <2>1, <2>2, <2>3 DEF Fresh, Channels, Cared
  <2>4. CASE r # q
    <3>1. r \in channel' <=> r \in channel
      BY <2>4
    <3> QED BY <1>3, <2>1, <2>2, <2>4, <3>1 DEF Fresh, Channels, Cared
  <2> QED BY <2>3, <2>4
<1> QED BY <1>2, <1>4, <1>5 DEF IndInv

LEMMA ReceiveInd ==
    ASSUME IndInv, NEW q \in Requests, Receive(q)
    PROVE  IndInv'
BY HandlerEnds DEF Receive, jobVars

LEMMA TimeoutInd ==
    ASSUME IndInv, NEW q \in Requests, Timeout(q)
    PROVE  IndInv'
BY HandlerEnds DEF Timeout, jobVars

LEMMA HandlerEnqueueInd ==
    ASSUME IndInv, NEW q \in Requests, HandlerEnqueue(q)
    PROVE  IndInv'
<1> DEFINE e == [id |-> q, ready |-> TRUE]
<1>1. TypeOK
  BY DEF IndInv
<1>2. /\ handler[q] = "registered" /\ channel' = channel /\ job' = job /\ item' = item
      /\ found' = found /\ crashes' = crashes /\ calls' = calls /\ astray' = astray
  BY DEF HandlerEnqueue, jobVars
<1>3. \/ /\ EnqueueSucceeds(list, e) /\ registry' = registry
         /\ handler' = [handler EXCEPT ![q] = "waiting"]
      \/ /\ EnqueueFails(list, e) /\ registry' = registry \ {q}
         /\ handler' = [handler EXCEPT ![q] = "over"]
  BY DEF HandlerEnqueue
<1>4. list \in Seq(Items) /\ e \in Items /\ e.id = q
  BY <1>1 DEF TypeOK, Items
<1>5. /\ calls[q] = 0 /\ ~Has(list, q) /\ q \notin channel /\ (\A g \in Goroutines : item[g] # q)
      /\ q \in registry
  BY <1>2 DEF IndInv, Fresh, Channels
<1> HIDE DEF e
<1>6. \/ /\ handler' = [handler EXCEPT ![q] = "waiting"] /\ registry' = registry
         /\ Pushed(list, e) /\ doubted' = doubted
      \/ /\ handler' = [handler EXCEPT ![q] = "over"] /\ registry' = registry \ {q}
         /\ Pushed(list, e) /\ doubted' = doubted \cup {q}
      \/ /\ handler' = [handler EXCEPT ![q] = "over"] /\ registry' = registry \ {q}
         /\ list' = list /\ repeats' = repeats /\ extra' = extra /\ doubted' = doubted
  BY <1>1, <1>3, <1>4, EnqueueEffect
<1>7. /\ handler'[q] \in {"waiting", "over"} /\ registry' \subseteq registry
      /\ handler' \in [Requests -> {"idle", "registered", "waiting", "over"}]
      /\ \A r \in Requests : r # q =>
           /\ handler'[r] = handler[r] /\ (r \in registry' <=> r \in registry)
           /\ (r \in doubted' <=> r \in doubted)
      /\ handler'[q] = "over" => q \notin registry'
      /\ handler'[q] = "waiting" => q \in registry' /\ Pushed(list, e)
      /\ doubted \subseteq doubted' /\ doubted' \subseteq Requests
      /\ Pushed(list, e) \/ (list' = list /\ repeats' = repeats /\ extra' = extra)
  BY <1>1, <1>5, <1>6 DEF TypeOK
<1>8. TypeOK'
  <2>1. list' \in Seq(Items) /\ repeats' \in 0 .. MaxRepeats /\ extra' \in [Requests -> Nat]
    BY <1>1, <1>7 DEF TypeOK, Pushed
  <2> QED BY <1>1, <1>2, <1>7, <2>1 DEF TypeOK
<1>9. \A r \in Requests : r # q => (Has(list', r) <=> Has(list, r))
  BY <1>4, <1>7 DEF Pushed
<1>10. handler'[q] = "waiting" => Has(list', q)
  BY <1>4, <1>7 DEF Pushed
<1>11. \A r \in Requests : Working(r)' = Working(r) /\ Answering(r)' = Answering(r) /\ Sent(r)' = Sent(r)
  BY <1>2 DEF Working, Answering, Sent
<1>12. ASSUME NEW r \in Requests, Pushed(list, e), r # q
       PROVE  Kept(r)
  <2> DEFINE p == Copies(list, r)  u == Copies(list, r)'  x == Sent(r)  c == calls[r]
             m == extra[r]  n == extra'[r]
             w == Cardinality(Working(r))  a == Cardinality(Answering(r))
  <2>1. /\ p \in Nat /\ u \in Nat /\ x \in {0, 1} /\ c \in Nat /\ m \in Nat /\ n \in Nat
        /\ w \in Nat /\ a \in Nat
    BY <1>1, <1>8, CountTypes, NumberTypes
  <2>2. u + m = p + n + 0 /\ n = m
    BY <1>4, <1>12 DEF Pushed
  <2>3. /\ Sent(r)' = x /\ Cardinality(Working(r))' = w /\ Cardinality(Answering(r))' = a
        /\ calls'[r] = c /\ (r \notin doubted' => r \notin doubted)
    BY <1>2, <1>7, <1>11, <1>12
  <2> HIDE DEF p, u, x, c, m, n, w, a
  <2>4. c + u + w + m <= c + p + w + n /\ u + a + x <= p + a + x
    BY <2>1, <2>2
  <2> QED BY <2>2, <2>3, <2>4 DEF Kept, p, u, x, c, m, n, w, a
<1>13. ASSUME Pushed(list, e)
       PROVE  Paid(q)' /\ Single(q)'
  <2> DEFINE u == Copies(list, q)'  m == extra[q]  n == extra'[q]
  <2>1. u \in Nat /\ m \in Nat /\ n \in Nat /\ Copies(list, q) \in Nat
    BY <1>1, <1>8, NumberTypes
  <2>2. u + m = Copies(list, q) + n + 1 /\ n >= m
    BY <1>4, <1>13 DEF Pushed
  <2>3. Copies(list, q) = 0
    BY <1>4, <1>5, CopiesType
  <2>4. Working(q)' = {} /\ Answering(q)' = {}
    BY <1>2, <1>5 DEF Working, Answering
  <2>5. Cardinality(Working(q))' = 0 /\ Cardinality(Answering(q))' = 0
    <3>1. Cardinality(Working(q)') = 0 /\ Cardinality(Answering(q)') = 0
      BY <2>4, FS_EmptySet
    <3> QED BY <3>1
  <2>6. calls'[q] = 0 /\ Sent(q)' = 0
    BY <1>2, <1>5 DEF Sent
  <2> HIDE DEF u, m, n
  <2>7. 0 + u + 0 <= 1 + n
    BY <2>1, <2>2, <2>3
  <2>8. n = 0 => u + 0 + 0 <= 1
    BY <2>1, <2>2, <2>3
  <2>9. Paid(q)'
    BY <2>5, <2>6, <2>7 DEF Paid, u, n
  <2>10. Single(q)'
    BY <2>5, <2>6, <2>8 DEF Single, u, n
  <2> QED BY <2>9, <2>10
<1>14. ASSUME NEW r \in Requests, list' = list, extra' = extra, doubted' = doubted
       PROVE  Paid(r)' /\ Single(r)'
  BY <1>1, <1>2, <1>8, <1>11, <1>14, NothingAdded, CountsKept
<1>15. ASSUME NEW r \in Requests
       PROVE  Paid(r)' /\ Single(r)'
  <2>1. CASE Pushed(list, e) /\ r = q
    BY <1>13, <2>1
  <2>2. CASE Pushed(list, e) /\ r # q
    BY <1>8, <1>12, <2>2, CountsKept
  <2>3. CASE list' = list /\ extra' = extra /\ doubted' = doubted
    BY <1>14, <2>3
  <2> QED BY <1>6, <2>1, <2>2, <2>3
<1>16. ASSUME NEW r \in Requests
       PROVE  Fresh(r)' /\ Channels(r)' /\ Cared(r)'
  <2>1. Fresh(r) /\ Channels(r) /\ Cared(r)
    BY DEF IndInv
  <2>2. CASE r # q
    <3>1. /\ handler'[r] = handler[r] /\ (r \in registry' <=> r \in registry)
          /\ (Has(list', r) <=> Has(list, r))
      BY <1>7, <1>9, <2>2
    <3>2. Attended(r) => Attended(r)'
      BY <1>2, <3>1 DEF Attended, Has
    <3>3. Fresh(r)' /\ Channels(r)'
      BY <1>2, <2>1, <3>1 DEF Fresh, Channels
    <3>4. Cared(r)'
      BY <1>2, <2>1, <3>1, <3>2 DEF Cared
    <3> QED BY <3>3, <3>4
  <2>3. CASE r = q
    <3>1. Fresh(q)' /\ Channels(q)'
      BY <1>2, <1>5, <1>7 DEF Fresh, Channels
    <3>2. handler'[q] = "waiting" => Attended(q)'
      BY <1>10 DEF Attended, Has
    <3>3. Cared(q)'
      BY <1>7, <3>2 DEF Cared
    <3> QED BY <2>3, <3>1, <3>3
  <2> QED BY <2>2, <2>3
<1> QED BY <1>8, <1>15, <1>16 DEF IndInv

-----------------------------------------------------------------------------
(* An instance crashes.                                                    *)

LEMMA CrashInd ==
    ASSUME IndInv, NEW i \in Instances, Crash(i)
    PROVE  IndInv'
<1> DEFINE own == {r \in Requests : Home[r] = i}
           local == {g \in Goroutines : On[g] = i /\ job[g] # "idle"}
<1>1. TypeOK
  BY DEF IndInv
<1>2. /\ crashes < MaxCrashes /\ crashes' = crashes + 1
      /\ handler' = [r \in Requests |->
           IF r \in own /\ handler[r] \in {"registered", "waiting"} THEN "over" ELSE handler[r]]
      /\ registry' = registry \ own /\ channel' = channel \ own
      /\ job' = [g \in Goroutines |-> IF g \in local THEN "idle" ELSE job[g]]
      /\ item' = [g \in Goroutines |-> IF g \in local THEN NoRequest ELSE item[g]]
      /\ found' = [g \in Goroutines |-> found[g] /\ g \notin local]
      /\ astray' = astray \cup {item[g] : g \in local}
      /\ list' = list /\ repeats' = repeats /\ calls' = calls /\ extra' = extra /\ doubted' = doubted
  BY DEF Crash
<1>3. /\ \A r \in Requests : r \in own <=> Home[r] = i
      /\ \A g \in Goroutines : g \in local <=> On[g] = i /\ job[g] # "idle"
      /\ local \subseteq Goroutines
  OBVIOUS
<1> HIDE DEF own, local
<1>4. \A g \in Goroutines :
        /\ g \in local => job'[g] = "idle" /\ item'[g] = NoRequest
        /\ g \notin local => job'[g] = job[g] /\ item'[g] = item[g] /\ (found[g] => found'[g])
  BY <1>2
<1>5. TypeOK'
  <2>1. astray' \subseteq Requests
    <3>1. \A g \in local : item[g] \in Requests
      BY <1>1, <1>3 DEF TypeOK
    <3> QED BY <1>1, <1>2, <3>1 DEF TypeOK
  <2>2. crashes' \in 0 .. MaxCrashes
    BY <1>1, <1>2, ClusterAssumption DEF TypeOK
  <2>3. handler' \in [Requests -> {"idle", "registered", "waiting", "over"}]
    BY <1>1, <1>2 DEF TypeOK
  <2>4. /\ job' \in [Goroutines -> Labels] /\ item' \in [Goroutines -> Requests \cup {NoRequest}]
        /\ found' \in [Goroutines -> BOOLEAN]
    BY <1>1, <1>2 DEF TypeOK, Labels
  <2>5. \A g \in Goroutines : job'[g] = "idle" <=> item'[g] = NoRequest
    BY <1>1, <1>4 DEF TypeOK
  <2> QED BY <1>1, <1>2, <2>1, <2>2, <2>3, <2>4, <2>5 DEF TypeOK, Labels
<1>6. ASSUME NEW r \in Requests
      PROVE  Paid(r)' /\ Single(r)'
  <2>1. Working(r)' \subseteq Working(r) /\ Answering(r)' \subseteq Answering(r)
    BY <1>4 DEF Working, Answering, Calling
  <2>2. r \in channel' => r \in channel
    BY <1>2
  <2> QED BY <1>1, <1>2, <1>5, <2>1, <2>2, NothingAdded, CountsKept
<1>7. ASSUME NEW r \in Requests
      PROVE  Fresh(r)' /\ Channels(r)' /\ Cared(r)'
  <2>1. Fresh(r) /\ Channels(r) /\ Cared(r)
    BY DEF IndInv
  <2>2. \A g \in Goroutines : item'[g] = r => item[g] = r /\ job'[g] = job[g]
    BY <1>4, ClusterAssumption
  <2>3. CASE r \in own
    <3>1. handler'[r] \notin {"registered", "waiting"} /\ r \notin registry' /\ r \notin channel'
      BY <1>2, <2>3
    <3>2. handler'[r] = "idle" => handler[r] = "idle"
      BY <1>2
    <3> QED BY <1>2, <2>1, <2>2, <3>1, <3>2 DEF Fresh, Channels, Cared
  <2>4. CASE r \notin own
    <3>1. /\ handler'[r] = handler[r] /\ (r \in registry' <=> r \in registry)
          /\ (r \in channel' <=> r \in channel) /\ (r \in astray => r \in astray')
      BY <1>2, <2>4
    <3>2. \A g \in Goroutines : On[g] = Home[r] => g \notin local
      BY <1>3, <2>4
    <3>3. Attended(r) => Attended(r)'
      BY <1>2, <1>4, <3>2 DEF Attended
    <3>4. Fresh(r)' /\ Channels(r)'
      BY <1>2, <2>1, <2>2, <3>1 DEF Fresh, Channels
    <3>5. Cared(r)'
      BY <2>1, <3>1, <3>3 DEF Cared
    <3> QED BY <3>4, <3>5
  <2> QED BY <2>3, <2>4
<1> QED BY <1>5, <1>6, <1>7 DEF IndInv

-----------------------------------------------------------------------------
(* The invariant, and what follows from it.                                *)

LEMMA InitInd == Init => IndInv
<1> SUFFICES ASSUME Init PROVE IndInv
  OBVIOUS
<1>1. TypeOK
  <2>1. <<>> \in Seq(Items)
    OBVIOUS
  <2> QED BY <2>1, ClusterAssumption DEF Init, TypeOK
<1>2. ASSUME NEW r \in Requests
      PROVE  Fresh(r) /\ Channels(r) /\ Cared(r)
  <2>1. /\ handler[r] = "idle" /\ calls[r] = 0 /\ r \notin channel /\ r \notin registry
        /\ \A g \in Goroutines : item[g] # r
    BY ClusterAssumption DEF Init
  <2>2. ~Has(list, r)
    BY EmptyCopies DEF Init
  <2> QED BY <2>1, <2>2 DEF Fresh, Channels, Cared
<1>3. ASSUME NEW r \in Requests
      PROVE  Paid(r) /\ Single(r)
  <2>1. Working(r) = {} /\ Answering(r) = {}
    BY ClusterAssumption DEF Init, Working, Answering
  <2>2. Cardinality(Working(r)) = 0 /\ Cardinality(Answering(r)) = 0
    BY <2>1, FS_EmptySet
  <2>3. Copies(list, r) = 0
    BY <1>1, EmptyCopies, CopiesType DEF Init, TypeOK
  <2>4. calls[r] = 0 /\ extra[r] = 0 /\ Sent(r) = 0
    BY DEF Init, Sent
  <2> QED BY <2>2, <2>3, <2>4 DEF Paid, Single
<1> QED BY <1>1, <1>2, <1>3 DEF IndInv

LEMMA NextInd == IndInv /\ [Next]_vars => IndInv'
<1> SUFFICES ASSUME IndInv, [Next]_vars PROVE IndInv'
  OBVIOUS
<1>1. ASSUME NEW r \in Requests, Register(r) \/ HandlerEnqueue(r) \/ Receive(r) \/ Timeout(r)
      PROVE  IndInv'
  BY <1>1, RegisterInd, HandlerEnqueueInd, ReceiveInd, TimeoutInd
<1>2. CASE DequeueDrops \/ DequeuePutsBack \/ KeyExpires
  BY <1>2, DequeueDropsInd, DequeuePutsBackInd, KeyExpiresInd
<1>3. ASSUME NEW i \in DOMAIN list, Ripen(i)
      PROVE  IndInv'
  BY <1>3, RipenInd
<1>4. ASSUME NEW g \in Goroutines,
             \/ Dequeue(g) \/ JobStart(g) \/ JobAllow(g) \/ JobRequeue(g)
             \/ JobProcess(g) \/ JobReply(g) \/ JobRemove(g)
      PROVE  IndInv'
  BY <1>4, DequeueInd, JobStartInd, JobAllowInd, JobRequeueInd, JobProcessInd, JobReplyInd, JobRemoveInd
<1>5. ASSUME NEW i \in Instances, Crash(i)
      PROVE  IndInv'
  BY <1>5, CrashInd
<1>6. CASE UNCHANGED vars
  <2>1. /\ list' = list /\ handler' = handler /\ registry' = registry /\ channel' = channel
        /\ job' = job /\ item' = item /\ found' = found /\ repeats' = repeats /\ crashes' = crashes
        /\ calls' = calls /\ extra' = extra /\ doubted' = doubted /\ astray' = astray
    BY <1>6 DEF vars, handlerVars, jobVars
  <2>2. TypeOK'
    BY <2>1 DEF IndInv, TypeOK
  <2>3. ASSUME NEW r \in Requests
        PROVE  Paid(r)' /\ Single(r)'
    <3>1. Working(r)' = Working(r) /\ Answering(r)' = Answering(r)
      BY <2>1 DEF Working, Answering
    <3> QED BY <2>1, <2>2, <3>1, NothingAdded, CountsKept DEF IndInv
  <2>4. ASSUME NEW r \in Requests
        PROVE  Fresh(r)' /\ Channels(r)' /\ Cared(r)'
    BY <2>1 DEF IndInv, Fresh, Channels, Cared, Attended
  <2> QED BY <2>2, <2>3, <2>4 DEF IndInv
<1> QED BY <1>1, <1>2, <1>3, <1>4, <1>5, <1>6 DEF Next

\* Every reachable state of the deployment satisfies the inductive invariant.
LEMMA Inductive == Spec => []IndInv
BY InitInd, NextInd, PTL DEF Spec

\* The variables of every instance and of the shared list keep their types, and a
\* slot holds an item exactly while its processItem runs.
THEOREM TypeCorrect == Spec => []TypeOK
<1>1. IndInv => TypeOK
  BY DEF IndInv
<1> QED BY <1>1, Inductive, PTL

\* However many instances pop from the list, crash and push again, processItem
\* calls the provider for a request at most once and once more for each push that
\* go-redis repeated.
THEOREM CallsCorrect == Spec => []CallsWithinPushes
<1>1. IndInv => CallsWithinPushes
  <2> SUFFICES ASSUME IndInv, NEW r \in Requests
               PROVE  calls[r] + Pending(r) <= 1 + extra[r]
    BY DEF CallsWithinPushes
  <2> DEFINE c == calls[r]  p == Copies(list, r)  w == Cardinality(Working(r))  m == extra[r]
  <2>1. Pending(r) = p + w
    BY DEF Pending, Copies, Positions, Working, Calling
  <2>2. c \in Nat /\ p \in Nat /\ w \in Nat /\ m \in Nat
    BY CopiesType, CountTypes DEF IndInv, TypeOK
  <2>3. c + p + w <= 1 + m
    BY DEF IndInv, Paid
  <2> HIDE DEF c, p, w, m
  <2>4. c + (p + w) <= 1 + m
    BY <2>2, <2>3
  <2> QED BY <2>1, <2>4 DEF c, m
<1> QED BY <1>1, Inductive, PTL

\* A client of ServeHTTP that waits for nobody, and a channel that is never
\* unregistered, belong to a request that another instance popped, that was dropped,
\* or that processItem could not decode.
THEOREM AbandonedCorrect == Spec => []AbandonedOnlyIfAstray
<1>1. IndInv => AbandonedOnlyIfAstray
  BY DEF IndInv, Cared, AbandonedOnlyIfAstray
<1> QED BY <1>1, Inductive, PTL

\* processItem blocks on the response channel of a request only if the request
\* was copied: its push was repeated, or was reported as failed and had not.
THEOREM BlockedCorrect == Spec => []BlockedOnlyIfCopied
<1>1. IndInv => BlockedOnlyIfCopied
  <2> SUFFICES ASSUME IndInv, NEW g \in Goroutines, job[g] = "reply", item[g] \in channel
               PROVE  extra[item[g]] > 0 \/ item[g] \in doubted
    BY DEF BlockedOnlyIfCopied
  <2>1. PICK r \in Requests : r = item[g]
    BY DEF IndInv, TypeOK
  <2> DEFINE p == Copies(list, r)  a == Cardinality(Answering(r))  m == extra[r]
  <2>2. p \in Nat /\ a \in Nat /\ m \in Nat /\ Sent(r) = 1
    BY <2>1, CopiesType, CountTypes DEF IndInv, TypeOK, Sent
  <2>3. a # 0
    <3>1. g \in Answering(r)
      BY <2>1 DEF Answering
    <3> QED BY <3>1, CountTypes, FS_EmptySet
  <2>4. m = 0 /\ r \notin doubted => p + a + 1 <= 1
    BY <2>2 DEF IndInv, Single
  <2> HIDE DEF p, a, m
  <2>5. ~(p + a + 1 <= 1)
    BY <2>2, <2>3
  <2>6. m = 0 => r \in doubted
    BY <2>4, <2>5
  <2>7. m # 0 => m > 0
    BY <2>2
  <2> QED BY <2>1, <2>6, <2>7 DEF m
<1> QED BY <1>1, Inductive, PTL

-----------------------------------------------------------------------------
(* Without faults.                                                         *)

\* Redis loses no reply, so no push is repeated and none is doubted.
NoCopies == ~Faults => (\A r \in Requests : extra[r] = 0) /\ doubted = {}

LEMMA EnqueueNoCopies ==
    ASSUME TypeOK, NoCopies, NEW s, NEW e, EnqueueSucceeds(s, e) \/ EnqueueFails(s, e)
    PROVE  NoCopies'
<1> SUFFICES ASSUME ~Faults PROVE (\A r \in Requests : extra'[r] = 0) /\ doubted' = {}
  BY DEF NoCopies
<1>1. (\A r \in Requests : extra[r] = 0) /\ doubted = {} /\ extra \in [Requests -> Nat]
  BY DEF NoCopies, TypeOK
<1>2. ASSUME NEW k \in 0 .. MaxRepeats, PushTo(s, e, k)
      PROVE  \A r \in Requests : extra'[r] = 0
  <2>1. k = 0 /\ extra' = [extra EXCEPT ![e.id] = @ + k]
    BY <1>2 DEF PushTo
  <2> QED BY <1>1, <2>1
<1>3. doubted' = doubted /\ ((\E k \in 0 .. MaxRepeats : PushTo(s, e, k)) \/ extra' = extra)
  BY DEF EnqueueSucceeds, EnqueueFails
<1> QED BY <1>1, <1>2, <1>3

LEMMA NextNoCopies == TypeOK /\ NoCopies /\ [Next]_vars => NoCopies'
<1> SUFFICES ASSUME TypeOK, NoCopies, [Next]_vars PROVE NoCopies'
  OBVIOUS
<1>1. CASE UNCHANGED <<extra, doubted>>
  BY <1>1 DEF NoCopies
<1>2. ASSUME NEW r \in Requests, HandlerEnqueue(r) PROVE NoCopies'
  <2>1. \E e : EnqueueSucceeds(list, e) \/ EnqueueFails(list, e)
    BY <1>2 DEF HandlerEnqueue
  <2> QED BY <2>1, EnqueueNoCopies
<1>3. CASE DequeuePutsBack
  <2>1. \E s, e : EnqueueSucceeds(s, e) \/ EnqueueFails(s, e)
    BY <1>3 DEF DequeuePutsBack
  <2> QED BY <2>1, EnqueueNoCopies
<1>4. ASSUME NEW g \in Goroutines, JobRequeue(g) PROVE NoCopies'
  <2>1. \E e : EnqueueSucceeds(list, e) \/ EnqueueFails(list, e)
    BY <1>4 DEF JobRequeue
  <2> QED BY <2>1, EnqueueNoCopies
<1>5. ASSUME NEW r \in Requests, Register(r) \/ Receive(r) \/ Timeout(r) PROVE NoCopies'
  BY <1>1, <1>5 DEF Register, Receive, Timeout
<1>6. CASE DequeueDrops \/ KeyExpires
  BY <1>1, <1>6 DEF DequeueDrops, KeyExpires
<1>7. ASSUME NEW i \in DOMAIN list, Ripen(i) PROVE NoCopies'
  BY <1>1, <1>7 DEF Ripen
<1>8. ASSUME NEW g \in Goroutines,
             \/ Dequeue(g) \/ JobStart(g) \/ JobAllow(g)
             \/ JobProcess(g) \/ JobReply(g) \/ JobRemove(g)
      PROVE  NoCopies'
  BY <1>1, <1>8 DEF Dequeue, JobStart, JobAllow, JobProcess, JobReply, JobRemove
<1>9. ASSUME NEW i \in Instances, Crash(i) PROVE NoCopies'
  BY <1>1, <1>9 DEF Crash
<1>10. CASE UNCHANGED vars
  BY <1>1, <1>10 DEF vars
<1> QED BY <1>2, <1>3, <1>4, <1>5, <1>6, <1>7, <1>8, <1>9, <1>10 DEF Next

\* What a deployment on a Redis that does not fail promises, with any number of
\* instances popping from the list: one call of the provider per request at
\* most, and a send of processItem (line 383) that never blocks.
FaultFree ==
    ~Faults =>
        /\ \A r \in Requests : calls[r] <= 1
        /\ \A g \in Goroutines : job[g] = "reply" => item[g] \notin channel

\* Without faults, refusals, put-backs and the race of the instances for the
\* list never make processItem call the provider twice or block on a channel.
THEOREM FaultFreeCorrect == Spec => []FaultFree
<1>1. Init => NoCopies
  BY DEF Init, NoCopies
<1>2. TypeOK /\ NoCopies /\ CallsWithinPushes /\ BlockedOnlyIfCopied => FaultFree
  <2> SUFFICES ASSUME TypeOK, NoCopies, CallsWithinPushes, BlockedOnlyIfCopied, ~Faults
               PROVE  /\ \A r \in Requests : calls[r] <= 1
                      /\ \A g \in Goroutines : job[g] = "reply" => item[g] \notin channel
    BY DEF FaultFree
  <2>1. ASSUME NEW r \in Requests PROVE calls[r] <= 1
    <3> DEFINE c == calls[r]  p == Copies(list, r)  w == Cardinality(Working(r))
    <3>1. Pending(r) = p + w /\ extra[r] = 0
      BY DEF Pending, Copies, Positions, Working, Calling, NoCopies
    <3>2. c \in Nat /\ p \in Nat /\ w \in Nat
      BY CopiesType, CountTypes DEF TypeOK
    <3>3. c + (p + w) <= 1 + 0
      BY <3>1 DEF CallsWithinPushes
    <3> HIDE DEF c, p, w
    <3>4. c <= 1
      BY <3>2, <3>3
    <3> QED BY <3>4 DEF c
  <2>2. ASSUME NEW g \in Goroutines, job[g] = "reply", item[g] \in channel PROVE FALSE
    <3>1. item[g] \in Requests /\ (extra[item[g]] > 0 \/ item[g] \in doubted)
      BY <2>2 DEF TypeOK, BlockedOnlyIfCopied
    <3>2. extra[item[g]] = 0 /\ item[g] \notin doubted
      BY <3>1 DEF NoCopies
    <3> QED BY <3>1, <3>2
  <2> QED BY <2>1, <2>2
<1>3. Spec => []NoCopies
  BY <1>1, NextNoCopies, TypeCorrect, PTL DEF Spec
<1> QED BY <1>2, <1>3, TypeCorrect, CallsCorrect, BlockedCorrect, PTL
=============================================================================
