-------------------------- MODULE RedisFIFO_proofs --------------------------
(***************************************************************************)
(* Proofs about RedisFIFO, for any numbers of items, producers and         *)
(* instances, any capacity, any number of retries, and with or without     *)
(* faults.                                                                 *)
(***************************************************************************)
EXTENDS RedisFIFO, ListCopies

-----------------------------------------------------------------------------
(* The inductive invariant.                                                *)

Labels == {"idle", "llen", "rpush", "expire", "blpop", "check"}

\* Where an actor has an item in hand.
Holding == {"llen", "rpush", "check"}

\* What the actors between LLEN and RPUSH may still push: one entry for each
\* RPUSH that the client has left.
Outstanding == {w \in Actors \X (1 .. Pushes) : pc[w[1]] = "rpush" /\ w[2] > sent[w[1]]}

\* Each of them has seen room for one more item.
Limit == MaxSize - 1 + Cardinality(Actors) * Pushes

Count == Len(list) + Cardinality(Outstanding) <= Limit

\* An actor that will push the first copy of what it has in hand.
InHands(x) == {a \in Actors : held[a] # NoItem /\ sent[a] = 0 /\ held[a].id = x}

Holds(a, x) == IF held[a] # NoItem /\ sent[a] = 0 /\ held[a].id = x THEN 1 ELSE 0

New(x) == IF x \in fresh THEN 1 ELSE 0

\* CopiesOnlyByRepeats for one item, with the copy of an item not yet enqueued.
Copied(x) ==
    Copies(list, x) + Cardinality(InHands(x)) + returned[x] + New(x) <= 1 + extra[x]

IndInv ==
    /\ TypeOK
    /\ \A a \in Actors : sent[a] < Pushes
    /\ Count
    /\ \A x \in Ids : Copied(x)

LEMMA Sizes ==
    /\ IsFiniteSet(Actors) /\ Cardinality(Actors) \in Nat
    /\ Pushes \in Nat /\ Pushes > 0 /\ Pushes <= MaxRetries + 1 /\ MaxRetries \in Nat
    /\ IsFiniteSet(Actors \X (1 .. Pushes))
    /\ Cardinality(Actors \X (1 .. Pushes)) = Cardinality(Actors) * Pushes
    /\ Limit \in Nat /\ Cardinality(Actors) * Pushes \in Nat
<1>1. IsFiniteSet(Actors) /\ Cardinality(Actors) \in Nat
  BY RedisFIFOAssumption, FS_Union, FS_CardinalityType DEF Actors
<1>2. Pushes \in Nat /\ Pushes > 0 /\ Pushes <= MaxRetries + 1 /\ MaxRetries \in Nat
  BY RedisFIFOAssumption DEF Pushes
<1>3. IsFiniteSet(1 .. Pushes) /\ Cardinality(1 .. Pushes) = Pushes
  <2>1. /\ IsFiniteSet(1 .. Pushes)
        /\ Cardinality(1 .. Pushes) = IF 1 > Pushes THEN 0 ELSE Pushes - 1 + 1
    BY <1>2, FS_Interval
  <2> QED BY <1>2, <2>1
<1>4. /\ IsFiniteSet(Actors \X (1 .. Pushes))
      /\ Cardinality(Actors \X (1 .. Pushes)) = Cardinality(Actors) * Pushes
  BY <1>1, <1>3, FS_Product
<1>5. Cardinality(Actors) * Pushes \in Nat
  BY <1>4, FS_CardinalityType
<1> DEFINE n == Cardinality(Actors) * Pushes
<1>6. n \in Nat
  BY <1>5
<1> HIDE DEF n
<1>7. MaxSize - 1 + n \in Nat
  BY <1>6, RedisFIFOAssumption
<1> QED BY <1>1, <1>2, <1>4, <1>5, <1>7 DEF Limit, n

LEMMA OutstandingType ==
    /\ IsFiniteSet(Outstanding) /\ Cardinality(Outstanding) \in Nat
    /\ IsFiniteSet(Outstanding') /\ Cardinality(Outstanding') \in Nat
    /\ Cardinality(Outstanding') <= Cardinality(Actors) * Pushes
<1>1. Outstanding \subseteq Actors \X (1 .. Pushes) /\ Outstanding' \subseteq Actors \X (1 .. Pushes)
  BY DEF Outstanding
<1>2. /\ IsFiniteSet(Outstanding) /\ IsFiniteSet(Outstanding')
      /\ Cardinality(Outstanding') <= Cardinality(Actors \X (1 .. Pushes))
  BY <1>1, Sizes, FS_Subset
<1> QED BY <1>2, Sizes, FS_CardinalityType

-----------------------------------------------------------------------------
(* Steps of one actor.                                                     *)

\* Actor a goes to label l with e in hand, of which it has sent n copies.
Moves(a, l, e, n) ==
    /\ pc' \in [Actors -> Labels] /\ held' \in [Actors -> Items \cup {NoItem}]
    /\ sent' \in [Actors -> 0 .. MaxRetries]
    /\ pc'[a] = l /\ held'[a] = e /\ sent'[a] = n
    /\ \A b \in Actors : b # a => pc'[b] = pc[b] /\ held'[b] = held[b] /\ sent'[b] = sent[b]

LEMMA Moved ==
    ASSUME TypeOK, NEW a \in Actors, NEW l \in Labels, pc' = [pc EXCEPT ![a] = l]
    PROVE  /\ UNCHANGED <<held, sent>> => Moves(a, l, held[a], sent[a])
           /\ Release(a, l) => Moves(a, l, NoItem, 0)
           /\ \A e \in Items : held' = [held EXCEPT ![a] = e] /\ UNCHANGED sent => Moves(a, l, e, sent[a])
<1>1. pc' \in [Actors -> Labels] /\ pc'[a] = l /\ \A b \in Actors : b # a => pc'[b] = pc[b]
  BY DEF TypeOK, Labels
<1>2. ASSUME UNCHANGED <<held, sent>> PROVE Moves(a, l, held[a], sent[a])
  BY <1>1, <1>2 DEF TypeOK, Moves
<1>3. ASSUME Release(a, l) PROVE Moves(a, l, NoItem, 0)
  <2>1. 0 \in 0 .. MaxRetries
    BY Sizes
  <2> QED BY <1>1, <1>3, <2>1 DEF TypeOK, Moves, Release
<1>4. ASSUME NEW e \in Items, held' = [held EXCEPT ![a] = e], UNCHANGED sent
      PROVE  Moves(a, l, e, sent[a])
  BY <1>1, <1>4 DEF TypeOK, Moves
<1> QED BY <1>2, <1>3, <1>4

\* What the step does to the copies of an item.
Balance(a, x) ==
    Copies(list, x)' + Holds(a, x)' + returned'[x] + New(x)' + extra[x]
      <= Copies(list, x) + Holds(a, x) + returned[x] + New(x) + extra'[x]

LEMMA HandTypes ==
    ASSUME NEW x
    PROVE  /\ IsFiniteSet(InHands(x)) /\ IsFiniteSet(InHands(x)')
           /\ Cardinality(InHands(x)) \in Nat /\ Cardinality(InHands(x)') \in Nat
<1>1. InHands(x) \subseteq Actors /\ InHands(x)' \subseteq Actors
  BY DEF InHands
<1> QED BY <1>1, Sizes, FS_Subset, FS_CardinalityType

LEMMA CopiedKept ==
    ASSUME TypeOK, TypeOK', NEW a \in Actors, NEW x \in Ids, Copied(x), Balance(a, x),
           \A b \in Actors : b # a => held'[b] = held[b] /\ sent'[b] = sent[b]
    PROVE  Copied(x)'
<1> DEFINE c == Copies(list, x)  d == Copies(list, x)'  h == Holds(a, x)  i == Holds(a, x)'
           r == returned[x]  s == returned'[x]  n == New(x)  m == New(x)'
           k == extra[x]  l == extra'[x]
           u == Cardinality(InHands(x))  v == Cardinality(InHands(x)')
<1>1. \A b : b # a => (b \in InHands(x) <=> b \in InHands(x)')
  BY DEF InHands
<1>2. h = (IF a \in InHands(x) THEN 1 ELSE 0) /\ i = (IF a \in InHands(x)' THEN 1 ELSE 0)
  BY DEF Holds, InHands
<1>3. v + h = u + i
  BY <1>1, <1>2, HandTypes, OneMoves
<1>4. /\ c \in Nat /\ d \in Nat /\ h \in Nat /\ i \in Nat /\ r \in Nat /\ s \in Nat
      /\ n \in Nat /\ m \in Nat
  BY ListType DEF TypeOK, Holds, New
<1>5. k \in Nat /\ l \in Nat /\ u \in Nat /\ v \in Nat
  BY HandTypes, RedisFIFOAssumption DEF TypeOK
<1>6. d + i + s + m + k <= c + h + r + n + l
  BY DEF Balance
<1>7. c + u + r + n <= 1 + k
  BY DEF Copied
<1>8. Copied(x)' <=> d + v + s + m <= 1 + l
  BY DEF Copied
<1> HIDE DEF c, d, h, i, r, s, n, m, k, l, u, v
<1> QED BY <1>3, <1>4, <1>5, <1>6, <1>7, <1>8

LEMMA ActorStep ==
    ASSUME IndInv, NEW a \in Actors, NEW l \in Labels, NEW e \in Items \cup {NoItem},
           NEW n \in 0 .. MaxRetries, Moves(a, l, e, n),
           l \in Holding <=> e # NoItem, n > 0 => l = "rpush", n < Pushes,
           list' \in Seq(Items), ttl' \in BOOLEAN, bare' \in BOOLEAN, fresh' \subseteq Ids,
           returned' \in [Ids -> Nat], extra' \in [Ids -> 0 .. MaxRepeats],
           \A x \in Ids : Balance(a, x), Count'
    PROVE  IndInv'
<1>1. \A b \in Actors : pc'[b] \in Holding <=> held'[b] # NoItem
  BY DEF IndInv, TypeOK, Moves, Holding
<1>2. (\A b \in Actors : sent'[b] > 0 => pc'[b] = "rpush") /\ \A b \in Actors : sent'[b] < Pushes
  BY DEF IndInv, TypeOK, Moves
<1>3. TypeOK'
  BY <1>1, <1>2 DEF TypeOK, Moves, Labels, Holding
<1>4. \A x \in Ids : Copied(x)'
  BY <1>3, CopiedKept DEF IndInv, Moves
<1> QED BY <1>2, <1>3, <1>4 DEF IndInv

\* A step that queues nothing and lets nobody past LLEN.
LEMMA CountKept ==
    ASSUME IndInv, list' \in Seq(Items), Len(list') <= Len(list), Outstanding' \subseteq Outstanding
    PROVE  Count'
<1> DEFINE k == Len(list)  n == Cardinality(Outstanding)  l == Len(list')  m == Cardinality(Outstanding')
<1>1. m \in Nat /\ n \in Nat /\ m <= n
  BY OutstandingType, FS_Subset
<1>2. k \in Nat /\ l \in Nat /\ l <= k /\ Limit \in Nat
  BY Sizes, LenProperties DEF IndInv, TypeOK
<1>3. k + n <= Limit
  BY DEF IndInv, Count
<1>4. Count' <=> l + m <= Limit
  BY DEF Count, Limit, Pushes, Actors
<1> HIDE DEF k, n, l, m
<1> QED BY <1>1, <1>2, <1>3, <1>4

\* An actor that does not get past LLEN, or pushes again, has no more to push.
LEMMA NoMoreOutstanding ==
    ASSUME IndInv, NEW a \in Actors, NEW l, NEW e, NEW n, Moves(a, l, e, n), l # "rpush"
    PROVE  Outstanding' \subseteq Outstanding
BY DEF Moves, Outstanding

\* A step after which the actor holds no more than before, and the list and the
\* other counts are what they were.
LEMMA PlainStep ==
    ASSUME IndInv, NEW a \in Actors, NEW l \in Labels \ {"rpush"}, NEW e \in Items \cup {NoItem},
           Moves(a, l, e, 0), l \in Holding <=> e # NoItem, e \in {held[a], NoItem}, sent[a] = 0 \/ e = NoItem,
           UNCHANGED <<list, fresh, returned, extra>>, ttl' \in BOOLEAN, bare' \in BOOLEAN
    PROVE  IndInv'
<1>1. list' = list /\ fresh' = fresh /\ returned' = returned /\ extra' = extra
  OBVIOUS
<1>2. 0 \in 0 .. MaxRetries /\ 0 < Pushes
  BY Sizes
<1>3. Count'
  <2>1. Outstanding' \subseteq Outstanding
    BY NoMoreOutstanding
  <2>2. list' \in Seq(Items) /\ Len(list') <= Len(list)
    BY <1>1, LenProperties DEF IndInv, TypeOK
  <2> QED BY <2>1, <2>2, CountKept
<1>4. ASSUME NEW x \in Ids PROVE Balance(a, x)
  <2> DEFINE c == Copies(list, x)  h == Holds(a, x)  i == Holds(a, x)'
             r == returned[x]  n == New(x)  k == extra[x]
  <2>1. c \in Nat /\ h \in Nat /\ i \in Nat /\ r \in Nat /\ n \in Nat /\ k \in Nat
    BY ListType, RedisFIFOAssumption DEF IndInv, TypeOK, Holds, New
  <2>2. i <= h
    BY DEF Moves, Holds
  <2>3. Copies(list, x)' = c /\ returned'[x] = r /\ New(x)' = n /\ extra'[x] = k
    BY <1>1 DEF New
  <2>4. Balance(a, x) <=> c + i + r + n + k <= c + h + r + n + k
    BY <2>3 DEF Balance
  <2> HIDE DEF c, h, i, r, n, k
  <2> QED BY <2>1, <2>2, <2>4
<1>5. /\ list' \in Seq(Items) /\ fresh' \subseteq Ids /\ returned' \in [Ids -> Nat]
      /\ extra' \in [Ids -> 0 .. MaxRepeats]
  BY <1>1 DEF IndInv, TypeOK
<1> DEFINE n == 0
<1>6. n \in 0 .. MaxRetries /\ n < Pushes /\ ~(n > 0) /\ Moves(a, l, e, n)
  BY <1>2
<1> HIDE DEF n
<1> QED BY <1>3, <1>4, <1>5, <1>6, ActorStep

LEMMA NoneSent ==
    ASSUME TypeOK, NEW a \in Actors, pc[a] # "rpush"
    PROVE  sent[a] = 0
<1>1. sent[a] \in 0 .. MaxRetries /\ ~(sent[a] > 0)
  BY DEF TypeOK
<1> QED BY <1>1, Sizes

LEMMA RestType == \A a \in Actors : Rest(a) \in {"idle", "blpop"}
BY DEF Rest

-----------------------------------------------------------------------------
(* Enqueue.                                                                *)

LEMMA ReleaseStep ==
    ASSUME IndInv, NEW a \in Actors, NEW l \in Labels \ Holding, Release(a, l),
           UNCHANGED <<list, fresh, returned, extra>>, ttl' \in BOOLEAN, bare' \in BOOLEAN
    PROVE  IndInv'
<1>1. Moves(a, l, NoItem, 0)
  BY Moved DEF IndInv, Release, Goto
<1>2. l \in Labels \ {"rpush"} /\ ~(l \in Holding) /\ NoItem \in Items \cup {NoItem}
  BY DEF Holding
<1> QED BY <1>1, <1>2, PlainStep

LEMMA EnqueueFailsStep ==
    ASSUME IndInv, NEW a \in Actors, EnqueueFails(a)
    PROVE  IndInv'
<1>1. Rest(a) \in Labels \ Holding
  BY RestType DEF Labels, Holding
<1>2. Release(a, Rest(a)) /\ UNCHANGED <<list, fresh, returned, extra>>
  BY DEF EnqueueFails
<1>3. ttl' \in BOOLEAN /\ bare' \in BOOLEAN
  BY DEF EnqueueFails, IndInv, TypeOK
<1> QED BY <1>1, <1>2, <1>3, ReleaseStep

LEMMA CrashStep ==
    ASSUME IndInv, NEW a \in Actors, Crash(a)
    PROVE  IndInv'
<1>1. Rest(a) \in Labels \ Holding
  BY RestType DEF Labels, Holding
<1>2. Release(a, Rest(a)) /\ UNCHANGED <<list, fresh, returned, extra>>
  BY DEF Crash
<1>3. ttl' \in BOOLEAN /\ bare' \in BOOLEAN
  BY DEF Crash, IndInv, TypeOK
<1> QED BY <1>1, <1>2, <1>3, ReleaseStep

LEMMA EnqueueCallStep ==
    ASSUME IndInv, NEW p \in Producers, NEW x \in Ids, EnqueueCall(p, x)
    PROVE  IndInv'
<1>0. p \in Actors /\ pc[p] = "idle" /\ held[p] = NoItem /\ sent[p] = 0
  <2>1. p \in Actors /\ pc[p] = "idle"
    BY DEF EnqueueCall, Actors
  <2> QED BY <2>1, NoneSent DEF IndInv, TypeOK
<1>1. UNCHANGED <<list, ttl, sent, extra, bare>> /\ pc' = [pc EXCEPT ![p] = "llen"]
  BY DEF EnqueueCall, Goto
<1>2. PICK e \in Items :
        /\ e.id = x /\ held' = [held EXCEPT ![p] = e]
        /\ \/ x \in fresh /\ fresh' = fresh \ {x} /\ returned' = returned
           \/ returned[x] > 0 /\ returned' = [returned EXCEPT ![x] = @ - 1] /\ fresh' = fresh
  BY DEF EnqueueCall, Items
<1>3. Moves(p, "llen", e, 0) /\ "llen" \in Labels /\ "llen" \in Holding /\ e # NoItem
  BY <1>0, <1>1, <1>2, Moved, RedisFIFOAssumption DEF IndInv, Labels, Holding
<1>4. /\ list' \in Seq(Items) /\ ttl' \in BOOLEAN /\ bare' \in BOOLEAN /\ fresh' \subseteq Ids
      /\ returned' \in [Ids -> Nat] /\ extra' \in [Ids -> 0 .. MaxRepeats]
  <2>1. returned' \in [Ids -> Nat]
    BY <1>2 DEF IndInv, TypeOK
  <2> QED BY <1>1, <1>2, <2>1 DEF IndInv, TypeOK
<1>5. Count'
  <2>1. Outstanding' \subseteq Outstanding
    BY <1>0, <1>3, NoMoreOutstanding
  <2>2. Len(list') <= Len(list)
    BY <1>1, LenProperties DEF IndInv, TypeOK
  <2> QED BY <1>4, <2>1, <2>2, CountKept
<1>6. ASSUME NEW y \in Ids PROVE Balance(p, y)
  <2> DEFINE c == Copies(list, y)  i == Holds(p, y)'  k == extra[y]
             r == returned[y]  s == returned'[y]  n == New(y)  m == New(y)'
  <2>1. c \in Nat /\ i \in Nat /\ k \in Nat /\ r \in Nat /\ s \in Nat /\ n \in Nat /\ m \in Nat
    BY <1>4, ListType, RedisFIFOAssumption DEF IndInv, TypeOK, Holds, New
  <2>2. Holds(p, y) = 0 /\ Copies(list, y)' = c /\ extra'[y] = k
    BY <1>0, <1>1 DEF Holds
  <2>3. i + s + m <= r + n
    <3>1. CASE y = x
      <4>1. i <= 1
        BY DEF Holds
      <4>2. (n = 1 /\ m = 0 /\ s = r) \/ (s = r - 1 /\ m = n)
        BY <1>2, <3>1 DEF New, IndInv, TypeOK
      <4> HIDE DEF i, s, m, r, n
      <4> QED BY <2>1, <4>1, <4>2
    <3>2. CASE y # x
      <4>1. i = 0
        BY <1>2, <1>3, <3>2 DEF Moves, Holds
      <4>2. m = n /\ s = r
        BY <1>2, <3>2 DEF New, IndInv, TypeOK
      <4> HIDE DEF i, s, m, r, n
      <4> QED BY <2>1, <4>1, <4>2
    <3> QED BY <3>1, <3>2
  <2>4. Balance(p, y) <=> c + i + s + m + k <= c + 0 + r + n + k
    BY <2>2 DEF Balance
  <2> HIDE DEF c, i, k, r, s, n, m
  <2> QED BY <2>1, <2>3, <2>4
<1>7. 0 \in 0 .. MaxRetries /\ 0 < Pushes
  BY Sizes
<1> DEFINE z == 0  l == "llen"
<1>8. /\ z \in 0 .. MaxRetries /\ z < Pushes /\ ~(z > 0) /\ Moves(p, l, e, z)
      /\ l \in Labels /\ l \in Holding
  BY <1>3, <1>7
<1> HIDE DEF z, l
<1> QED BY <1>0, <1>3, <1>4, <1>5, <1>6, <1>8, ActorStep

LEMMA LLenStep ==
    ASSUME IndInv, NEW a \in Actors, LLen(a)
    PROVE  IndInv'
<1>0. pc[a] = "llen" /\ held[a] # NoItem /\ held[a] \in Items /\ sent[a] = 0
  <2>1. pc[a] = "llen"
    BY DEF LLen
  <2> QED BY <2>1, NoneSent DEF IndInv, TypeOK
<1>1. CASE EnqueueFails(a)
  BY <1>1, EnqueueFailsStep
<1>2. CASE Len(list) < MaxSize /\ Goto(a, "rpush") /\ UNCHANGED <<list, ttl, held, sent, history>>
  <2>1. Moves(a, "rpush", held[a], 0) /\ "rpush" \in Labels /\ "rpush" \in Holding
    BY <1>0, <1>2, Moved DEF IndInv, Labels, Holding, Goto
  <2>2. /\ list' = list /\ ttl' = ttl /\ held' = held /\ sent' = sent
        /\ fresh' = fresh /\ returned' = returned /\ extra' = extra /\ bare' = bare
    BY <1>2 DEF history
  <2>3. Count'
    <3> DEFINE m == Cardinality(Outstanding')  n == Cardinality(Actors) * Pushes  k == Len(list)
    <3>1. m \in Nat /\ n \in Nat /\ m <= n
      BY OutstandingType, Sizes
    <3>2. k \in Nat /\ MaxSize \in Nat /\ k < MaxSize
      BY <1>2, LenProperties, RedisFIFOAssumption DEF IndInv, TypeOK
    <3>3. Count' <=> k + m <= MaxSize - 1 + n
      BY <2>2 DEF Count, Limit, Actors, Pushes
    <3> HIDE DEF m, n, k
    <3> QED BY <3>1, <3>2, <3>3
  <2>4. ASSUME NEW x \in Ids PROVE Balance(a, x)
    <3> DEFINE t == Copies(list, x) + Holds(a, x) + returned[x] + New(x) + extra[x]
    <3>1. Balance(a, x) <=> t <= t
      BY <2>2 DEF Balance, Holds, New
    <3>2. t \in Nat
      <4> DEFINE c == Copies(list, x)  h == Holds(a, x)  r == returned[x]  n == New(x)  k == extra[x]
      <4>1. c \in Nat /\ h \in Nat /\ r \in Nat /\ n \in Nat /\ k \in Nat
        BY ListType, RedisFIFOAssumption DEF IndInv, TypeOK, Holds, New
      <4> HIDE DEF c, h, r, n, k
      <4>2. c + h + r + n + k \in Nat
        BY <4>1
      <4> QED BY <4>2 DEF c, h, r, n, k
    <3> HIDE DEF t
    <3> QED BY <3>1, <3>2
  <2>5. /\ list' \in Seq(Items) /\ ttl' \in BOOLEAN /\ bare' \in BOOLEAN /\ fresh' \subseteq Ids
        /\ returned' \in [Ids -> Nat] /\ extra' \in [Ids -> 0 .. MaxRepeats]
    BY <2>2 DEF IndInv, TypeOK
  <2> DEFINE z == 0  l == "rpush"  e == held[a]
  <2>6. /\ z \in 0 .. MaxRetries /\ z < Pushes /\ ~(z > 0) /\ Moves(a, l, e, z)
        /\ l \in Labels /\ l \in Holding /\ e \in Items /\ e # NoItem
    BY <1>0, <2>1, Sizes
  <2> HIDE DEF z, l, e
  <2> QED BY <2>3, <2>4, <2>5, <2>6, ActorStep
<1> QED BY <1>1, <1>2 DEF LLen

LEMMA RPushStep ==
    ASSUME IndInv, NEW a \in Actors, RPush(a)
    PROVE  IndInv'
<1> DEFINE e == held[a]
<1>0. pc[a] = "rpush" /\ e # NoItem /\ e \in Items /\ e.id \in Ids
  <2>1. pc[a] = "rpush"
    BY DEF RPush
  <2> QED BY <2>1 DEF IndInv, TypeOK, Items
<1>1. CASE EnqueueFails(a)
  BY <1>1, EnqueueFailsStep
<1>2. CASE ~EnqueueFails(a)
  <2>1. PushCopy(a) /\ bare' \in BOOLEAN
    BY <1>2 DEF RPush, IndInv, TypeOK
  <2>2. /\ list' = Append(list, e) /\ ttl' = ttl /\ fresh' = fresh /\ returned' = returned
        /\ \/ sent[a] = 0 /\ extra' = extra
           \/ sent[a] > 0 /\ extra[e.id] < MaxRepeats /\ extra' = [extra EXCEPT ![e.id] = @ + 1]
    BY <2>1 DEF PushCopy
  <2>3. sent[a] \in Nat /\ sent[a] \in 0 .. MaxRetries /\ sent[a] < Pushes
    BY Sizes DEF IndInv, TypeOK
  <2>4. PICK l \in Labels, f \in Items \cup {NoItem}, n \in 0 .. MaxRetries :
          /\ Moves(a, l, f, n) /\ (l \in Holding <=> f # NoItem) /\ (n > 0 => l = "rpush")
          /\ n < Pushes /\ (l = "rpush" => n = sent[a] + 1) /\ (n = 0 => f = NoItem)
    <3>1. ASSUME NEW l \in {"expire", "idle", "blpop"}, Release(a, l)
          PROVE  Moves(a, l, NoItem, 0) /\ l \in Labels /\ l \notin Holding /\ l # "rpush"
      BY <3>1, Moved DEF IndInv, Release, Goto, Labels, Holding
    <3>2. 0 \in 0 .. MaxRetries /\ 0 < Pushes /\ ~(0 > 0)
      BY Sizes
    <3>3. CASE Release(a, "expire") \/ Release(a, Rest(a))
      BY <3>1, <3>2, <3>3, RestType
    <3>4. CASE /\ Faults /\ sent[a] < MaxRetries /\ sent' = [sent EXCEPT ![a] = @ + 1]
               /\ UNCHANGED <<pc, held>>
      <4> DEFINE n == sent[a] + 1
      <4>1. n \in 0 .. MaxRetries /\ n < Pushes /\ n # 0
        BY <2>3, <3>4, Sizes DEF Pushes
      <4>2. Moves(a, "rpush", e, n)
        BY <1>0, <3>4, <4>1 DEF IndInv, TypeOK, Moves, Labels
      <4>3. "rpush" \in Labels /\ "rpush" \in Holding
        BY DEF Labels, Holding
      <4> QED BY <1>0, <4>1, <4>2, <4>3
    <3> QED BY <1>2, <3>3, <3>4 DEF RPush
  <2>5. /\ list' \in Seq(Items) /\ Len(list') = Len(list) + 1
        /\ list' = Appended(list, e, 0)
    <3>1. list \in Seq(Items)
      BY DEF IndInv, TypeOK
    <3>2. list' \in Seq(Items) /\ Len(list') = Len(list) + 1
      BY <1>0, <2>2, <3>1, AppendProperties
    <3>3. Repeated(e, 0) = <<e>>
      <4>1. 1 .. 0 + 1 = {1}
        OBVIOUS
      <4> QED BY <4>1 DEF Repeated
    <3>4. Append(list, e) = list \o <<e>>
      BY <1>0, <3>1, AppendIsConcat
    <3> QED BY <2>2, <3>2, <3>3, <3>4 DEF Appended
  <2>6. Count'
    <3> DEFINE w == <<a, sent[a] + 1>>
               k == Len(list)  i == Cardinality(Outstanding)  j == Cardinality(Outstanding')
    <3>1. w \in Outstanding
      <4>1. sent[a] + 1 \in 1 .. Pushes /\ sent[a] + 1 > sent[a]
        BY <2>3, Sizes
      <4> QED BY <1>0, <4>1 DEF Outstanding
    <3>2. Outstanding' \subseteq Outstanding \ {w}
      <4> SUFFICES ASSUME NEW v \in Outstanding' PROVE v \in Outstanding /\ v # w
        OBVIOUS
      <4>1. v \in Actors \X (1 .. Pushes) /\ pc'[v[1]] = "rpush" /\ v[2] > sent'[v[1]]
        BY DEF Outstanding
      <4>2. CASE v[1] # a
        BY <2>4, <4>1, <4>2 DEF Outstanding, Moves
      <4>3. CASE v[1] = a
        <5>1. v[2] > sent[a] + 1 /\ v[2] \in Nat
          BY <2>4, <4>1, <4>3, Sizes DEF Moves
        <5>2. v[2] > sent[a] /\ v[2] # sent[a] + 1
          BY <2>3, <5>1
        <5> QED BY <1>0, <4>1, <4>3, <5>2 DEF Outstanding
      <4> QED BY <4>2, <4>3
    <3> HIDE DEF w
    <3>3. j <= Cardinality(Outstanding \ {w}) /\ Cardinality(Outstanding \ {w}) = i - 1
      <4>1. IsFiniteSet(Outstanding)
        BY OutstandingType
      <4>2. IsFiniteSet(Outstanding \ {w}) /\ Cardinality(Outstanding \ {w}) = i - 1
        BY <3>1, <4>1, FS_RemoveElement
      <4> QED BY <3>2, <4>2, FS_Subset
    <3>4. i \in Nat /\ j \in Nat /\ k \in Nat /\ Limit \in Nat
      BY OutstandingType, Sizes, LenProperties DEF IndInv, TypeOK
    <3>5. k + i <= Limit
      BY DEF IndInv, Count
    <3>6. Count' <=> (k + 1) + j <= Limit
      BY <2>5 DEF Count, Limit, Pushes, Actors
    <3> HIDE DEF k, i, j
    <3> QED BY <3>3, <3>4, <3>5, <3>6
  <2>7. extra' \in [Ids -> 0 .. MaxRepeats]
    <3>1. extra \in [Ids -> 0 .. MaxRepeats]
      BY DEF IndInv, TypeOK
    <3>2. CASE extra' = extra
      BY <3>1, <3>2
    <3>3. CASE extra[e.id] < MaxRepeats /\ extra' = [extra EXCEPT ![e.id] = @ + 1]
      <4>1. extra[e.id] + 1 \in 0 .. MaxRepeats
        BY <1>0, <3>1, <3>3, RedisFIFOAssumption
      <4> QED BY <3>1, <3>3, <4>1
    <3> QED BY <2>2, <3>2, <3>3
  <2>8. ASSUME NEW x \in Ids PROVE Balance(a, x)
    <3> DEFINE c == Copies(list, x)  d == Copies(list, x)'  h == Holds(a, x)  i == Holds(a, x)'
               r == returned[x]  m == New(x)  k == extra[x]  j == extra'[x]
    <3>1. /\ c \in Nat /\ d \in Nat /\ h \in Nat /\ r \in Nat /\ m \in Nat
          /\ k \in Nat /\ j \in Nat
      BY <2>5, <2>7, ListType, RedisFIFOAssumption DEF IndInv, TypeOK, Holds, New
    <3>2. i = 0
      BY <2>4 DEF Holds, Moves
    <3>3. d + k <= c + h + j
      <4> DEFINE q == e.id  t == list'
      <4>1. /\ q = e.id /\ t = Appended(list, e, 0) /\ 0 \in Nat /\ e \in Items
            /\ list \in Seq(Items)
        BY <1>0, <2>5 DEF IndInv, TypeOK
      <4>1a. d = Copies(t, x)
        OBVIOUS
      <4> HIDE DEF q, t
      <4>2. CASE x = q
        <5>1. d = c + (0 + 1)
          BY <4>1, <4>1a, <4>2, ListPush
        <5>2. (h = 1 /\ j = k) \/ j = k + 1
          BY <1>0, <2>2, <4>1, <4>2 DEF Holds, IndInv, TypeOK
        <5> HIDE DEF c, d, h, j, k
        <5> QED BY <3>1, <5>1, <5>2
      <4>3. CASE x # q
        <5>1. d = c
          BY <4>1, <4>1a, <4>3, ListPush
        <5>2. j = k
          BY <2>2, <4>1, <4>3 DEF IndInv, TypeOK
        <5> HIDE DEF c, d, h, j, k
        <5> QED BY <3>1, <5>1, <5>2
      <4> QED BY <4>2, <4>3
    <3>4. Balance(a, x) <=> d + 0 + r + m + k <= c + h + r + m + j
      BY <2>2, <3>2 DEF Balance, New
    <3> HIDE DEF c, d, h, r, m, k, j
    <3> QED BY <3>1, <3>3, <3>4
  <2>9. ttl' \in BOOLEAN /\ fresh' \subseteq Ids /\ returned' \in [Ids -> Nat]
    BY <2>2 DEF IndInv, TypeOK
  <2> QED BY <2>1, <2>4, <2>5, <2>6, <2>7, <2>8, <2>9, ActorStep
<1> QED BY <1>1, <1>2

LEMMA ExpireStep ==
    ASSUME IndInv, NEW a \in Actors, Expire(a)
    PROVE  IndInv'
<1>1. pc[a] = "expire" /\ pc' = [pc EXCEPT ![a] = Rest(a)] /\ UNCHANGED <<list, held, sent, fresh, returned, extra>>
  BY DEF Expire, Goto
<1>2. held[a] = NoItem /\ sent[a] = 0
  BY <1>1, NoneSent DEF IndInv, TypeOK
<1>3. Rest(a) \in Labels \ {"rpush"} /\ Rest(a) \notin Holding
  BY RestType DEF Labels, Holding
<1>4. Moves(a, Rest(a), NoItem, 0)
  BY <1>1, <1>2, <1>3, Moved DEF IndInv
<1>5. ttl' \in BOOLEAN /\ bare' \in BOOLEAN
  BY DEF Expire, IndInv, TypeOK
<1> QED BY <1>1, <1>2, <1>3, <1>4, <1>5, PlainStep

-----------------------------------------------------------------------------
(* Dequeue.                                                                *)

LEMMA BLPopStep ==
    ASSUME IndInv, NEW c \in Consumers, BLPop(c)
    PROVE  IndInv'
<1> DEFINE e == Head(list)
<1>0. c \in Actors /\ pc[c] = "blpop" /\ list # <<>> /\ list' = Tail(list)
      /\ UNCHANGED <<sent, fresh, returned, extra>>
  BY DEF BLPop, Actors
<1>1. held[c] = NoItem /\ sent[c] = 0
  BY <1>0, NoneSent DEF IndInv, TypeOK
<1>2. /\ list \in Seq(Items) /\ list' \in Seq(Items) /\ Len(list') = Len(list) - 1
      /\ e \in Items /\ e # NoItem
  BY <1>0, HeadTailProperties, RedisFIFOAssumption DEF IndInv, TypeOK
<1>3. ttl' \in BOOLEAN /\ bare' \in BOOLEAN
  BY DEF BLPop, IndInv, TypeOK
<1>4. PICK l \in Labels \ {"rpush"}, f \in {e, NoItem} :
        Moves(c, l, f, 0) /\ (l \in Holding <=> f # NoItem)
  <2>1. CASE held' = [held EXCEPT ![c] = e] /\ Goto(c, "check")
    <3>1. Moves(c, "check", e, 0)
      BY <1>0, <1>1, <1>2, <2>1, Moved DEF IndInv, Goto, Labels
    <3> QED BY <1>2, <3>1 DEF Labels, Holding
  <2>2. CASE UNCHANGED <<pc, held>>
    <3>1. Moves(c, "blpop", NoItem, 0)
      BY <1>0, <1>1, <2>2 DEF IndInv, TypeOK, Moves, Labels
    <3> QED BY <3>1 DEF Labels, Holding
  <2> QED BY <2>1, <2>2 DEF BLPop
<1>5. Count'
  <2>1. Outstanding' \subseteq Outstanding
    BY <1>0, <1>4, NoMoreOutstanding
  <2>2. Len(list') <= Len(list)
    BY <1>2, LenProperties
  <2> QED BY <1>2, <2>1, <2>2, CountKept
<1>6. ASSUME NEW x \in Ids PROVE Balance(c, x)
  <2> DEFINE p == Copies(list, x)  q == Copies(list, x)'  i == Holds(c, x)'
             r == returned[x]  m == New(x)  k == extra[x]
  <2>1. p \in Nat /\ q \in Nat /\ i \in Nat /\ r \in Nat /\ m \in Nat /\ k \in Nat
    BY <1>2, ListType, RedisFIFOAssumption DEF IndInv, TypeOK, Holds, New
  <2>2. Holds(c, x) = 0
    BY <1>1 DEF Holds
  <2>3. q + i <= p
    <3> DEFINE t == list'
    <3>1. t = Tail(list) /\ list \in Seq(Items) /\ list # <<>> /\ q = Copies(t, x)
      BY <1>0, <1>2
    <3> HIDE DEF t, q
    <3>4. t = Tail(list) /\ list \in Seq(Items) /\ list # <<>>
      BY <3>1
    <3>5. x = Head(list).id => Copies(list, x) = Copies(t, x) + 1
      BY <3>4, ListPop
    <3>6. x # Head(list).id => Copies(list, x) = Copies(t, x)
      BY <3>4, ListPop
    <3>2. CASE x = e.id
      <4>1. p = q + 1
        BY <3>1, <3>2, <3>5
      <4>2. i <= 1
        BY DEF Holds
      <4> HIDE DEF p, q, i
      <4> QED BY <2>1, <4>1, <4>2
    <3>3. CASE x # e.id
      <4>1. p = q
        BY <3>1, <3>3, <3>6
      <4>2. i = 0
        BY <1>4, <3>3 DEF Holds, Moves
      <4> HIDE DEF p, q, i
      <4> QED BY <2>1, <4>1, <4>2
    <3> QED BY <3>2, <3>3
  <2>4. Balance(c, x) <=> q + i + r + m + k <= p + 0 + r + m + k
    BY <1>0, <2>2 DEF Balance, New
  <2> HIDE DEF p, q, i, r, m, k
  <2> QED BY <2>1, <2>3, <2>4
<1>7. fresh' \subseteq Ids /\ returned' \in [Ids -> Nat] /\ extra' \in [Ids -> 0 .. MaxRepeats]
  BY <1>0 DEF IndInv, TypeOK
<1> DEFINE z == 0
<1>8. z \in 0 .. MaxRetries /\ z < Pushes /\ ~(z > 0) /\ Moves(c, l, f, z)
  BY <1>4, Sizes
<1>9. l \in Labels /\ f \in Items \cup {NoItem} /\ (l \in Holding <=> f # NoItem)
  BY <1>2, <1>4
<1> HIDE DEF z
<1> QED BY <1>0, <1>2, <1>3, <1>5, <1>6, <1>7, <1>8, <1>9, ActorStep

LEMMA CheckStep ==
    ASSUME IndInv, NEW c \in Consumers, Check(c)
    PROVE  IndInv'
<1>0. /\ c \in Actors /\ pc[c] = "check"
      /\ UNCHANGED <<list, ttl, fresh, extra, bare>>
  BY DEF Check, Actors
<1>1. held[c] # NoItem /\ held[c] \in Items /\ held[c].id \in Ids /\ sent[c] = 0
  <2>1. held[c] # NoItem /\ held[c] \in Items
    BY <1>0 DEF IndInv, TypeOK
  <2> QED BY <1>0, <2>1, NoneSent DEF IndInv, Items
<1>2. ttl' \in BOOLEAN /\ bare' \in BOOLEAN
  BY <1>0 DEF IndInv, TypeOK
<1>3. CASE Release(c, "blpop") /\ UNCHANGED returned
  <2>1. "blpop" \in Labels \ Holding
    BY DEF Labels, Holding
  <2> QED BY <1>0, <1>2, <1>3, <2>1, ReleaseStep
<1>4. CASE Goto(c, "llen") /\ UNCHANGED <<held, sent, returned>>
  <2>1. Moves(c, "llen", held[c], 0) /\ "llen" \in Labels \ {"rpush"} /\ "llen" \in Holding
    BY <1>0, <1>1, <1>4, Moved DEF IndInv, Goto, Labels, Holding
  <2> QED BY <1>0, <1>1, <1>2, <1>4, <2>1, PlainStep
<1>5. CASE Return(c)
  <2> DEFINE y == held[c].id
  <2>1. /\ Moves(c, "blpop", NoItem, 0) /\ "blpop" \in Labels \ {"rpush"} /\ "blpop" \notin Holding
        /\ returned' = [returned EXCEPT ![y] = @ + 1]
    BY <1>0, <1>5, Moved DEF IndInv, Return, Release, Goto, Labels, Holding
  <2>2. Count'
    <3>1. Outstanding' \subseteq Outstanding
      BY <1>0, <2>1, NoMoreOutstanding
    <3>2. list' \in Seq(Items) /\ Len(list') <= Len(list)
      BY <1>0, LenProperties DEF IndInv, TypeOK
    <3> QED BY <3>1, <3>2, CountKept
  <2>3. returned' \in [Ids -> Nat]
    BY <1>1, <2>1 DEF IndInv, TypeOK
  <2>4. ASSUME NEW x \in Ids PROVE Balance(c, x)
    <3> DEFINE p == Copies(list, x)  h == Holds(c, x)  r == returned[x]  s == returned'[x]
               m == New(x)  k == extra[x]
    <3>1. p \in Nat /\ h \in Nat /\ r \in Nat /\ s \in Nat /\ m \in Nat /\ k \in Nat
      BY <2>3, ListType, RedisFIFOAssumption DEF IndInv, TypeOK, Holds, New
    <3>2. Holds(c, x)' = 0
      BY <2>1 DEF Holds, Moves
    <3>3. s <= h + r
      <4>1. CASE x = y
        <5>1. h = 1 /\ s = r + 1
          BY <1>1, <2>1, <4>1 DEF Holds, IndInv, TypeOK
        <5> HIDE DEF h, r, s
        <5> QED BY <3>1, <5>1
      <4>2. CASE x # y
        <5>1. s = r
          BY <1>1, <2>1, <4>2 DEF IndInv, TypeOK
        <5> HIDE DEF h, r, s
        <5> QED BY <3>1, <5>1
      <4> QED BY <4>1, <4>2
    <3>4. Balance(c, x) <=> p + 0 + s + m + k <= p + h + r + m + k
      BY <1>0, <3>2 DEF Balance, New
    <3> HIDE DEF p, h, r, s, m, k
    <3> QED BY <3>1, <3>3, <3>4
  <2>5. list' \in Seq(Items) /\ fresh' \subseteq Ids /\ extra' \in [Ids -> 0 .. MaxRepeats]
    BY <1>0 DEF IndInv, TypeOK
  <2> DEFINE z == 0  l == "blpop"  f == NoItem
  <2>6. /\ z \in 0 .. MaxRetries /\ z < Pushes /\ ~(z > 0) /\ Moves(c, l, f, z)
        /\ l \in Labels /\ l \notin Holding /\ f \in Items \cup {NoItem} /\ f = NoItem
    BY <2>1, Sizes
  <2> HIDE DEF z, l, f
  <2> QED BY <1>0, <1>2, <2>2, <2>3, <2>4, <2>5, <2>6, ActorStep
<1> QED BY <1>3, <1>4, <1>5 DEF Check

-----------------------------------------------------------------------------
(* Time and Clear.                                                         *)

\* A step in which no actor moves or gets another item in hand.
LEMMA StillStep ==
    ASSUME IndInv, list' \in Seq(Items), Len(list') <= Len(list),
           \A x \in Ids : Copies(list', x) <= Copies(list, x),
           UNCHANGED <<pc, sent, fresh, returned, extra>>, ttl' \in BOOLEAN, bare' \in BOOLEAN,
           held' \in [Actors -> Items \cup {NoItem}],
           \A a \in Actors : (held'[a] # NoItem <=> held[a] # NoItem)
                             /\ (held[a] # NoItem => held'[a].id = held[a].id)
    PROVE  IndInv'
<1>1. TypeOK'
  BY DEF IndInv, TypeOK
<1>2. Outstanding' \subseteq Outstanding
  BY DEF Outstanding
<1>3. Count'
  BY <1>2, CountKept
<1>4. ASSUME NEW x \in Ids PROVE Copied(x)'
  <2> DEFINE p == Copies(list, x)  q == Copies(list', x)  u == Cardinality(InHands(x))
             r == returned[x]  m == New(x)  k == extra[x]
  <2>1. p \in Nat /\ q \in Nat /\ u \in Nat /\ r \in Nat /\ m \in Nat /\ k \in Nat
    BY ListType, HandTypes, RedisFIFOAssumption DEF IndInv, TypeOK, New
  <2>2. InHands(x)' = InHands(x)
    BY DEF InHands
  <2>3. q <= p
    OBVIOUS
  <2>4. p + u + r + m <= 1 + k
    BY DEF IndInv, Copied
  <2>5. Copied(x)' <=> q + u + r + m <= 1 + k
    BY <2>2 DEF Copied, New
  <2> HIDE DEF p, q, u, r, m, k
  <2> QED BY <2>1, <2>3, <2>4, <2>5
<1> QED BY <1>1, <1>3, <1>4 DEF IndInv

LEMMA RipenStep ==
    ASSUME IndInv, NEW x \in Ids, Ripen(x)
    PROVE  IndInv'
<1>0. UNCHANGED <<ttl, pc, sent, fresh, returned, extra, bare>>
  BY DEF Ripen, history
<1>1. list \in Seq(Items) /\ held \in [Actors -> Items \cup {NoItem}]
      /\ ttl' \in BOOLEAN /\ bare' \in BOOLEAN
  BY <1>0 DEF IndInv, TypeOK
<1>2. \A e \in Items : Readied(e) \in Items /\ Readied(e).id = e.id
  BY DEF Items, Readied
<1>3. ASSUME NEW i \in DOMAIN list, list' = [list EXCEPT ![i].ready = TRUE], held' = held
      PROVE  IndInv'
  <2> DEFINE t == list'
  <2>1. t = Ripened(list, i)
    BY <1>3 DEF Ripened
  <2> HIDE DEF t
  <2>2. t \in Seq(Items) /\ \A y : Copies(t, y) = Copies(list, y)
    BY <1>1, <1>2, <2>1, ListRipen
  <2>3. list' \in Seq(Items) /\ \A y \in Ids : Copies(list', y) <= Copies(list, y)
    <3>1. \A y \in Ids : Copies(list, y) \in Nat
      BY <1>1, ListType
    <3> QED BY <2>2, <3>1 DEF t
  <2>4. Len(list') = Len(list)
    <3>1. DOMAIN list' = DOMAIN list
      BY <1>3
    <3> QED BY <1>1, <2>3, <3>1, LenProperties
  <2>5. Len(list') <= Len(list)
    BY <1>1, <2>4, LenProperties
  <2> QED BY <1>0, <1>1, <1>3, <2>3, <2>5, StillStep
<1>4. ASSUME NEW a \in Actors, held[a] = [id |-> x, ready |-> FALSE],
             held' = [held EXCEPT ![a].ready = TRUE], list' = list
      PROVE  IndInv'
  <2>1. held[a] \in Items /\ held' = [held EXCEPT ![a] = Readied(held[a])]
    BY <1>4 DEF Items, Readied
  <2>2. held[a] # NoItem /\ Readied(held[a]) # NoItem /\ Readied(held[a]) \in Items
        /\ Readied(held[a]).id = held[a].id
    BY <1>2, <2>1, RedisFIFOAssumption
  <2>3. /\ held' \in [Actors -> Items \cup {NoItem}]
        /\ \A b \in Actors : (held'[b] # NoItem <=> held[b] # NoItem)
                             /\ (held[b] # NoItem => held'[b].id = held[b].id)
    BY <1>1, <2>1, <2>2
  <2>4. /\ list' \in Seq(Items) /\ Len(list') <= Len(list)
        /\ \A y \in Ids : Copies(list', y) <= Copies(list, y)
    BY <1>1, <1>4, LenProperties, ListType
  <2> QED BY <1>0, <1>1, <2>3, <2>4, StillStep
<1> QED BY <1>3, <1>4 DEF Ripen

LEMMA DeleteKeyStep ==
    ASSUME IndInv, DeleteKey
    PROVE  IndInv'
<1>1. list' = <<>> /\ UNCHANGED <<pc, held, sent, fresh, returned, extra>>
      /\ ttl' \in BOOLEAN /\ bare' \in BOOLEAN
  BY DEF DeleteKey
<1>2. list' \in Seq(Items) /\ Len(list') = 0 /\ list \in Seq(Items)
  BY <1>1, EmptySeq DEF IndInv, TypeOK
<1>3. Len(list') <= Len(list)
  BY <1>2, LenProperties
<1>4. \A x \in Ids : Copies(list', x) <= Copies(list, x)
  <2>1. ASSUME NEW x \in Ids PROVE Copies(list', x) <= Copies(list, x)
    <3>1. Copies(list', x) = 0
      BY <1>1, <1>2, EmptyCopies, ListType
    <3>2. Copies(list, x) \in Nat
      BY <1>2, ListType
    <3> QED BY <3>1, <3>2
  <2> QED BY <2>1
<1>5. held' \in [Actors -> Items \cup {NoItem}]
  BY <1>1 DEF IndInv, TypeOK
<1> QED BY <1>1, <1>2, <1>3, <1>4, <1>5, StillStep

-----------------------------------------------------------------------------
(* The invariant, and what follows from it.                                *)

LEMMA InitInv == Init => IndInv
<1> SUFFICES ASSUME Init PROVE IndInv
  OBVIOUS
<1>1. list = <<>> /\ list \in Seq(Items) /\ Len(list) = 0
  BY EmptySeq DEF Init
<1>2. \A a \in Actors : pc[a] \in {"idle", "blpop"} /\ held[a] = NoItem /\ sent[a] = 0
  BY DEF Init
<1>3. 0 \in 0 .. MaxRetries /\ 0 \in 0 .. MaxRepeats /\ 0 < Pushes
  BY Sizes, RedisFIFOAssumption
<1>4. TypeOK
  <2>1. pc \in [Actors -> Labels] /\ held \in [Actors -> Items \cup {NoItem}]
    BY DEF Init, Labels
  <2>2. /\ sent \in [Actors -> 0 .. MaxRetries] /\ returned \in [Ids -> Nat]
        /\ extra \in [Ids -> 0 .. MaxRepeats]
    BY <1>3 DEF Init
  <2>3. ttl \in BOOLEAN /\ bare \in BOOLEAN /\ fresh \subseteq Ids
    BY DEF Init
  <2> QED BY <1>1, <1>2, <2>1, <2>2, <2>3 DEF TypeOK, Labels
<1>5. Count
  <2>1. Outstanding = {}
    BY <1>2 DEF Outstanding
  <2>2. Cardinality(Outstanding) = 0
    BY <2>1, FS_EmptySet
  <2> QED BY <1>1, <2>2, Sizes DEF Count
<1>6. ASSUME NEW x \in Ids PROVE Copied(x)
  <2>1. InHands(x) = {}
    BY <1>2 DEF InHands
  <2>2. Cardinality(InHands(x)) = 0
    BY <2>1, FS_EmptySet
  <2>3. Copies(list, x) = 0
    BY <1>1, EmptyCopies, ListType
  <2>4. returned[x] = 0 /\ extra[x] = 0 /\ New(x) = 1
    BY DEF Init, New
  <2> QED BY <2>2, <2>3, <2>4 DEF Copied
<1> QED BY <1>2, <1>3, <1>4, <1>5, <1>6 DEF IndInv

LEMMA NextInv == IndInv /\ [Next]_vars => IndInv'
<1> SUFFICES ASSUME IndInv, [Next]_vars PROVE IndInv'
  OBVIOUS
<1>1. CASE UNCHANGED vars
  <2>1. /\ list' = list /\ ttl' = ttl /\ pc' = pc /\ held' = held /\ sent' = sent
        /\ fresh' = fresh /\ returned' = returned /\ extra' = extra /\ bare' = bare
    BY <1>1 DEF vars, history
  <2>2. /\ list' \in Seq(Items) /\ Len(list') <= Len(list)
        /\ \A x \in Ids : Copies(list', x) <= Copies(list, x)
    BY <2>1, LenProperties, ListType DEF IndInv, TypeOK
  <2>3. ttl' \in BOOLEAN /\ bare' \in BOOLEAN /\ held' \in [Actors -> Items \cup {NoItem}]
    BY <2>1 DEF IndInv, TypeOK
  <2> QED BY <2>1, <2>2, <2>3, StillStep
<1>2. CASE Next
  BY <1>2, EnqueueCallStep, LLenStep, RPushStep, ExpireStep, CrashStep, BLPopStep, CheckStep,
     RipenStep, DeleteKeyStep DEF Next, EnqueueStep, Clear, KeyExpires
<1> QED BY <1>1, <1>2

LEMMA Inductive == Spec => []IndInv
BY InitInv, NextInv, PTL DEF Spec

\* Every variable keeps its type, an actor holds an item exactly while it has one
\* to push or to look at, and has copies in flight only between LLEN and EXPIRE.
THEOREM TypeCorrect == Spec => []TypeOK
BY Inductive, PTL DEF IndInv

\* The list outgrows maxSize by less than what the actors that can be between LLEN
\* and RPUSH (lines 368-387 of fifo_queue.go) can push, each of them once and,
\* when replies are lost, once more for each retry of the client.
THEOREM OverrunBounded == Spec => []OverrunBound
<1>1. IndInv => OverrunBound
  <2> SUFFICES ASSUME IndInv PROVE OverrunBound
    OBVIOUS
  <2> DEFINE n == Cardinality(Outstanding)
  <2>1. n \in Nat /\ Limit \in Nat /\ Len(list) \in Nat
    BY OutstandingType, Sizes, LenProperties DEF IndInv, TypeOK
  <2>2. Len(list) + n <= Limit
    BY DEF IndInv, Count
  <2> HIDE DEF n
  <2>3. Len(list) <= Limit
    BY <2>1, <2>2
  <2> QED BY <2>3 DEF OverrunBound, Limit
<1> QED BY <1>1, Inductive, PTL

\* Whatever is popped, put back (line 451), lost or queued again, an item has one
\* copy and one more for each push that the client repeated.
THEOREM CopiesCorrect == Spec => []CopiesOnlyByRepeats
<1>1. IndInv => CopiesOnlyByRepeats
  <2> SUFFICES ASSUME IndInv, NEW x \in Ids
               PROVE  Listed(x) + InHand(Actors, x) + returned[x] <= 1 + extra[x]
    BY DEF CopiesOnlyByRepeats
  <2> DEFINE c == Listed(x)  h == InHand(Actors, x)  r == returned[x]  m == New(x)  k == extra[x]
  <2>1. c = Copies(list, x) /\ h = Cardinality(InHands(x))
    BY DEF Listed, Copies, Positions, InHand, InHands
  <2>2. c \in Nat /\ h \in Nat /\ r \in Nat /\ m \in Nat /\ k \in Nat
    BY <2>1, ListType, HandTypes, RedisFIFOAssumption DEF IndInv, TypeOK, New
  <2>3. c + h + r + m <= 1 + k
    BY <2>1 DEF IndInv, Copied
  <2> HIDE DEF c, h, r, m, k
  <2>4. c + h + r <= 1 + k
    BY <2>2, <2>3
  <2> QED BY <2>4 DEF c, h, r, k
<1> QED BY <1>1, Inductive, PTL

-----------------------------------------------------------------------------
(* The time to live of the key.                                            *)

\* An actor whose push is in the list, or may be, and that has not called Expire.
Due(a) == pc[a] = "expire" \/ sent[a] > 0

\* The key is looked after: KeyHasExpiry without the list.
Kept == ttl \/ bare \/ \E a \in Actors : Due(a)

LEMMA ExpiryStep ==
    ASSUME TypeOK, TypeOK', KeyHasExpiry, [Next]_vars
    PROVE  KeyHasExpiry'
<1>0. (KeyHasExpiry <=> (list # <<>> => Kept)) /\ (KeyHasExpiry' <=> (list' # <<>> => Kept'))
  BY DEF KeyHasExpiry, Kept, Due
<1>1. ASSUME list' = <<>> \/ list # <<>>, ttl => ttl' \/ list' = <<>>, bare => bare' \/ list' = <<>>,
             \A b \in Actors : Due(b) => Due(b)' \/ bare' \/ ttl' \/ list' = <<>>
      PROVE  KeyHasExpiry'
  BY <1>0, <1>1 DEF Kept
<1>2. ASSUME NEW a \in Actors, ~Due(a),
             \A b \in Actors : b # a => pc'[b] = pc[b] /\ sent'[b] = sent[b]
      PROVE  \A b \in Actors : Due(b) => Due(b)'
  BY <1>2 DEF Due
<1>3. ASSUME NEW a \in Actors, NEW l, Release(a, l) \/ (Goto(a, l) /\ UNCHANGED sent)
      PROVE  \A b \in Actors : b # a => pc'[b] = pc[b] /\ sent'[b] = sent[b]
  BY <1>3 DEF TypeOK, Release, Goto
<1>4. ASSUME NEW a \in Actors, pc[a] \in {"idle", "llen", "blpop", "check"} PROVE ~Due(a)
  BY <1>4, NoneSent DEF Due
<1>5. ASSUME NEW p \in Producers, NEW x \in Ids, EnqueueCall(p, x) PROVE KeyHasExpiry'
  <2>1. p \in Actors /\ Goto(p, "llen") /\ pc[p] = "idle" /\ UNCHANGED <<list, ttl, sent, bare>>
    BY <1>5 DEF EnqueueCall, Actors
  <2> QED BY <1>1, <1>2, <1>3, <1>4, <2>1
<1>6. ASSUME NEW a \in Actors, EnqueueFails(a), pc[a] \in {"llen", "rpush"} PROVE KeyHasExpiry'
  <2>1. /\ Release(a, Rest(a)) /\ UNCHANGED <<list, ttl>>
        /\ bare' = (bare \/ (sent[a] > 0 /\ list # <<>> /\ ~ttl))
    BY <1>6 DEF EnqueueFails
  <2>2. \A b \in Actors : b # a => (Due(b) => Due(b)')
    BY <1>3, <2>1 DEF Due
  <2>3. Due(a) => bare' \/ ttl' \/ list' = <<>>
    BY <1>6, <2>1 DEF Due
  <2> QED BY <1>0, <2>1, <2>2, <2>3 DEF Kept
<1>7. ASSUME NEW a \in Actors, LLen(a) PROVE KeyHasExpiry'
  <2>1. CASE EnqueueFails(a)
    BY <1>6, <1>7, <2>1 DEF LLen
  <2>2. CASE Goto(a, "rpush") /\ UNCHANGED <<list, ttl, held, sent, history>>
    <3>1. pc[a] = "llen" /\ UNCHANGED <<list, ttl, sent, bare>>
      BY <1>7, <2>2 DEF LLen, history
    <3> QED BY <1>1, <1>2, <1>3, <1>4, <2>2, <3>1
  <2> QED BY <1>7, <2>1, <2>2 DEF LLen
<1>8. ASSUME NEW a \in Actors, RPush(a) PROVE KeyHasExpiry'
  <2>1. CASE EnqueueFails(a)
    BY <1>6, <1>8, <2>1 DEF RPush
  <2>2. CASE Release(a, "expire")
    <3>1. pc'[a] = "expire"
      BY <2>2 DEF TypeOK, Release, Goto
    <3> QED BY <3>1 DEF KeyHasExpiry
  <2>3. CASE sent' = [sent EXCEPT ![a] = @ + 1]
    <3>1. sent'[a] > 0
      <4>1. sent[a] \in Nat /\ sent'[a] = sent[a] + 1
        BY <2>3, Sizes DEF TypeOK
      <4> QED BY <4>1
    <3> QED BY <3>1 DEF KeyHasExpiry
  <2>4. CASE bare' = (bare \/ ~ttl) /\ PushCopy(a)
    BY <2>4 DEF KeyHasExpiry, PushCopy
  <2> QED BY <1>8, <2>1, <2>2, <2>3, <2>4 DEF RPush
<1>9. ASSUME NEW a \in Actors, Expire(a) PROVE KeyHasExpiry'
  <2>1. /\ Goto(a, Rest(a)) /\ UNCHANGED <<list, sent>> /\ pc[a] = "expire"
        /\ \/ ttl' = (list # <<>>) /\ bare' = FALSE
           \/ bare' = (bare \/ (list # <<>> /\ ~ttl)) /\ ttl' = ttl
    BY <1>9 DEF Expire
  <2>2. CASE ttl' = (list # <<>>)
    <3>1. list # <<>> => ttl'
      BY <2>2
    <3> QED BY <1>0, <2>1, <3>1 DEF Kept
  <2>3. CASE bare' = (bare \/ (list # <<>> /\ ~ttl)) /\ ttl' = ttl
    <3>1. list # <<>> => ttl' \/ bare'
      BY <2>3
    <3> QED BY <1>0, <2>1, <3>1 DEF Kept
  <2> QED BY <2>1, <2>2, <2>3
<1>10. ASSUME NEW c \in Consumers, BLPop(c) PROVE KeyHasExpiry'
  <2>1. /\ c \in Actors /\ pc[c] = "blpop" /\ list # <<>> /\ list' = Tail(list) /\ sent' = sent
        /\ ttl' = (ttl /\ Len(list) > 1) /\ bare' = (bare /\ Len(list) > 1)
        /\ Goto(c, "check") \/ pc' = pc
    BY <1>10 DEF BLPop, Actors
  <2>2. \A b \in Actors : Due(b) => Due(b)'
    <3>1. CASE Goto(c, "check")
      BY <1>2, <1>3, <1>4, <2>1, <3>1
    <3>2. CASE pc' = pc
      BY <2>1, <3>2 DEF Due
    <3> QED BY <2>1, <3>1, <3>2
  <2>3. list' # <<>> => Len(list) > 1
    <3>1. Len(list) \in Nat /\ Len(list') = Len(list) - 1 /\ list' \in Seq(Items)
      BY <2>1, HeadTailProperties, LenProperties DEF TypeOK
    <3>2. list' # <<>> => Len(list') # 0
      BY <3>1, EmptySeq
    <3>3. Len(list') \in Nat
      BY <3>1, LenProperties
    <3> QED BY <3>1, <3>2, <3>3
  <2>4. list' # <<>> => (ttl => ttl') /\ (bare => bare')
    BY <2>1, <2>3
  <2>5. list # <<>> => Kept
    BY <1>0
  <2> QED BY <1>0, <2>1, <2>2, <2>4, <2>5, Zenon DEF Kept
<1>11. ASSUME NEW c \in Consumers, Check(c) PROVE KeyHasExpiry'
  <2>1. /\ c \in Actors /\ pc[c] = "check" /\ UNCHANGED <<list, ttl, bare>>
        /\ \/ Release(c, "blpop")
           \/ Goto(c, "llen") /\ UNCHANGED sent
    BY <1>11 DEF Check, Actors, Return
  <2>2. \A b \in Actors : b # c => pc'[b] = pc[b] /\ sent'[b] = sent[b]
    BY <1>3, <2>1
  <2>3. \A b \in Actors : Due(b) => Due(b)'
    BY <1>2, <1>4, <2>1, <2>2
  <2> QED BY <1>1, <2>1, <2>3
<1>12. ASSUME NEW x \in Ids, Ripen(x) PROVE KeyHasExpiry'
  <2>1. UNCHANGED <<ttl, pc, sent, bare>> /\ (list' # <<>> => list # <<>>)
    <3>1. UNCHANGED <<ttl, pc, sent, bare>>
      BY <1>12 DEF Ripen, history
    <3>2. list' = list \/ \E i \in DOMAIN list : TRUE
      BY <1>12 DEF Ripen
    <3>3. (\E i \in DOMAIN list : TRUE) => list # <<>>
      OBVIOUS
    <3> QED BY <3>1, <3>2, <3>3
  <2> QED BY <2>1 DEF KeyHasExpiry
<1>13. CASE DeleteKey
  BY <1>13 DEF DeleteKey, KeyHasExpiry
<1>14. ASSUME NEW a \in Actors, Crash(a) PROVE KeyHasExpiry'
  <2>1. /\ Release(a, Rest(a)) /\ UNCHANGED <<list, ttl>>
        /\ bare' = (bare \/ ((sent[a] > 0 \/ pc[a] = "expire") /\ list # <<>> /\ ~ttl))
    BY <1>14 DEF Crash
  <2>2. \A b \in Actors : b # a => (Due(b) => Due(b)')
    BY <1>3, <2>1 DEF Due
  <2>3. Due(a) => bare' \/ ttl' \/ list' = <<>>
    BY <2>1 DEF Due
  <2> QED BY <1>0, <2>1, <2>2, <2>3 DEF Kept
<1>15. CASE UNCHANGED vars
  BY <1>15 DEF vars, history, KeyHasExpiry
<1>16. CASE Next
  BY <1>5, <1>7, <1>8, <1>9, <1>10, <1>11, <1>12, <1>13, <1>14, <1>16
     DEF Next, EnqueueStep, Clear, KeyExpires
<1> QED BY <1>15, <1>16

\* A list that is not empty has a time to live, or an actor that has pushed is
\* about to call Expire (line 396), or an Enqueue ended between the two.
THEOREM ExpiryCorrect == Spec => []KeyHasExpiry
<1>1. Init => KeyHasExpiry
  BY DEF Init, KeyHasExpiry
<1>2. TypeOK /\ TypeOK' /\ KeyHasExpiry /\ [Next]_vars => KeyHasExpiry'
  BY ExpiryStep
<1> QED BY <1>1, <1>2, TypeCorrect, PTL DEF Spec

-----------------------------------------------------------------------------
(* Without faults.                                                         *)

\* Nothing is pushed twice, and no Enqueue ends between RPUSH and EXPIRE.
Undisturbed == ~Faults => ~bare /\ \A x \in Ids : extra[x] = 0

LEMMA UndisturbedStep ==
    ASSUME IndInv, Undisturbed, [Next]_vars
    PROVE  Undisturbed'
<1> SUFFICES ASSUME ~Faults PROVE ~bare' /\ \A x \in Ids : extra'[x] = 0
  BY DEF Undisturbed
<1>1. ~bare /\ \A x \in Ids : extra[x] = 0
  BY DEF Undisturbed
<1>2. \A a \in Actors : sent[a] = 0 /\ ~(sent[a] > 0)
  <2> SUFFICES ASSUME NEW a \in Actors PROVE sent[a] = 0 /\ ~(sent[a] > 0)
    OBVIOUS
  <2>1. sent[a] \in Nat /\ sent[a] < 1
    BY Sizes DEF IndInv, TypeOK, Pushes
  <2> QED BY <2>1
<1>4. ASSUME NEW a \in Actors, EnqueueFails(a) PROVE extra' = extra /\ ~bare'
  BY <1>1, <1>2, <1>4 DEF EnqueueFails
<1>5. ASSUME NEW a \in Actors, LLen(a) \/ RPush(a) PROVE extra' = extra /\ ~bare'
  <2>1. CASE LLen(a)
    BY <1>1, <1>4, <2>1 DEF LLen, history
  <2>2. CASE RPush(a)
    BY <1>1, <1>2, <2>2 DEF RPush, PushCopy
  <2> QED BY <1>5, <2>1, <2>2
<1>6. ASSUME NEW a \in Actors, Expire(a) PROVE extra' = extra /\ ~bare'
  BY <1>6 DEF Expire
<1>7. ASSUME NEW c \in Consumers, BLPop(c) \/ Check(c) PROVE extra' = extra /\ ~bare'
  <2>1. CASE BLPop(c)
    BY <1>1, <2>1 DEF BLPop
  <2>2. CASE Check(c)
    BY <1>1, <2>2 DEF Check, Return, history
  <2> QED BY <1>7, <2>1, <2>2
<1>8. ASSUME NEW p \in Producers, NEW x \in Ids, EnqueueCall(p, x) PROVE extra' = extra /\ ~bare'
  BY <1>1, <1>8 DEF EnqueueCall
<1>9. ASSUME NEW x \in Ids, Ripen(x) PROVE extra' = extra /\ ~bare'
  BY <1>1, <1>9 DEF Ripen, history
<1>10. CASE DeleteKey
  BY <1>1, <1>10 DEF DeleteKey
<1>11. ASSUME NEW a \in Actors, Crash(a) PROVE FALSE
  BY <1>11 DEF Crash
<1>12. CASE UNCHANGED vars
  BY <1>1, <1>12 DEF vars, history
<1> QED BY <1>1, <1>5, <1>6, <1>7, <1>8, <1>9, <1>10, <1>11, <1>12
        DEF Next, EnqueueStep, Clear, KeyExpires

\* What the queue promises on a Redis that does not fail: an item is in one place
\* only, and a list that is not empty has a time to live, or an actor that has
\* pushed is about to call Expire (line 396).
FaultFree ==
    ~Faults =>
        /\ \A x \in Ids : Listed(x) + InHand(Actors, x) + returned[x] <= 1
        /\ list # <<>> => ttl \/ \E a \in Actors : pc[a] = "expire"

\* Without faults Enqueue and Dequeue never make a second copy of an item, nor
\* leave the key without a time to live, whatever the other actors do meanwhile.
THEOREM FaultFreeCorrect == Spec => []FaultFree
<1>1. Init => Undisturbed
  BY DEF Init, Undisturbed
<1>2. Spec => []Undisturbed
  BY <1>1, UndisturbedStep, Inductive, PTL DEF Spec
<1>3. IndInv /\ Undisturbed /\ CopiesOnlyByRepeats /\ KeyHasExpiry => FaultFree
  <2> SUFFICES ASSUME IndInv, Undisturbed, CopiesOnlyByRepeats, KeyHasExpiry, ~Faults
               PROVE  /\ \A x \in Ids : Listed(x) + InHand(Actors, x) + returned[x] <= 1
                      /\ list # <<>> => ttl \/ \E a \in Actors : pc[a] = "expire"
    BY DEF FaultFree
  <2>1. ~bare /\ \A x \in Ids : extra[x] = 0
    BY DEF Undisturbed
  <2>2. ASSUME NEW x \in Ids PROVE Listed(x) + InHand(Actors, x) + returned[x] <= 1
    <3>1. Listed(x) + InHand(Actors, x) + returned[x] <= 1 + extra[x] /\ 1 + extra[x] = 1
      BY <2>1 DEF CopiesOnlyByRepeats
    <3> QED BY <3>1
  <2>3. ASSUME NEW a \in Actors, sent[a] > 0 PROVE FALSE
    <3>1. sent[a] \in Nat /\ sent[a] < 1
      BY Sizes DEF IndInv, TypeOK, Pushes
    <3> QED BY <2>3, <3>1
  <2>4. list # <<>> => ttl \/ \E a \in Actors : pc[a] = "expire"
    BY <2>1, <2>3 DEF KeyHasExpiry
  <2> QED BY <2>2, <2>4
<1> QED BY <1>2, <1>3, Inductive, CopiesCorrect, ExpiryCorrect, PTL
=============================================================================
