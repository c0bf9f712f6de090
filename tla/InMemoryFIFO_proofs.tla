------------------------- MODULE InMemoryFIFO_proofs -------------------------
(***************************************************************************)
(* Proofs about InMemoryFIFO, for any finite set of items and any capacity *)
(* of the queue.                                                           *)
(***************************************************************************)
EXTENDS InMemoryFIFO, FiniteSetTheorems, SequenceTheorems, TLAPS

-----------------------------------------------------------------------------
(* The slice.                                                              *)

LEMMA ItemsFacts ==
    ASSUME TypeOK
    PROVE  /\ Len(items) \in Nat /\ MaxSize \in Nat /\ Len(items) <= MaxSize
           /\ DOMAIN items = 1 .. Len(items)
           /\ items \in [1 .. Len(items) -> Items]
           /\ \A k \in DOMAIN items : items[k] \in Items /\ items[k].id \in Ids
           /\ Queued \subseteq Ids
<1>1. items \in Seq(Items) /\ Len(items) <= MaxSize
  BY DEF TypeOK
<1>2. Len(items) \in Nat /\ DOMAIN items = 1 .. Len(items) /\ items \in [1 .. Len(items) -> Items]
  BY <1>1, LenProperties
<1>3. \A k \in DOMAIN items : items[k] \in Items /\ items[k].id \in Ids
  BY <1>2 DEF Items
<1> QED BY <1>1, <1>2, <1>3, FIFOAssumption DEF Queued

LEMMA RemoveAtType ==
    ASSUME TypeOK, NEW k \in DOMAIN items
    PROVE  RemoveAt(items, k) \in Seq(Items) /\ Len(RemoveAt(items, k)) = Len(items) - 1
<1> DEFINE a == SubSeq(items, 1, k - 1)
           b == SubSeq(items, k + 1, Len(items))
<1>0. /\ Len(items) \in Nat /\ k \in 1 .. Len(items)
      /\ \A i \in 1 .. Len(items) : items[i] \in Items
  BY ItemsFacts
<1>1. a \in Seq(Items) /\ Len(a) = k - 1
  BY <1>0, SubSeqProperties
<1>2. b \in Seq(Items) /\ Len(b) = Len(items) - k
  BY <1>0, SubSeqProperties
<1>3. a \o b \in Seq(Items) /\ Len(a \o b) = Len(a) + Len(b)
  BY <1>1, <1>2, ConcatProperties
<1>4. RemoveAt(items, k) = a \o b
  BY DEF RemoveAt
<1> HIDE DEF a, b
<1> QED BY <1>0, <1>1, <1>2, <1>3, <1>4

-----------------------------------------------------------------------------
(* The inductive invariant.                                                *)

\* From the test for emptiness on, mu or the notify list keeps the consumer and
\* the producers apart.
Asleep == loop \in {"arming", "parked"} => items = <<>>

\* The turn that will abandon its watcher, once the consumer has been woken.
Woken == IF loop \in {"relock", "woken"} THEN 1 ELSE 0

\* Before the shutdown no watcher has anything to do, and every wake-up was for
\* an item of its own.
WokenByItems ==
    ~ctxDone =>
        /\ watcher \in {"none", "armed"}
        /\ leftover + Woken <= Cardinality(accepted)

IndInv == TypeOK /\ Asleep /\ WokenByItems

LEMMA InitInd == Init => IndInv
<1> SUFFICES ASSUME Init PROVE IndInv
  OBVIOUS
<1>1. items \in Seq(Items) /\ Len(items) = 0
  BY EmptySeq DEF Init
<1>2. TypeOK
  <2>1. items \in Seq(Items) /\ Len(items) <= MaxSize
    BY <1>1, FIFOAssumption
  <2>2. /\ loop = "top" /\ watcher = "none" /\ leftover = 0 /\ ctxDone = FALSE
        /\ accepted = {} /\ left = {}
    BY DEF Init
  <2> QED BY <2>1, <2>2 DEF TypeOK
<1>3. Asleep /\ WokenByItems
  BY FS_EmptySet DEF Init, Asleep, WokenByItems, Woken
<1> QED BY <1>2, <1>3 DEF IndInv

LEMMA AcceptedSize ==
    ASSUME TypeOK
    PROVE  IsFiniteSet(accepted) /\ Cardinality(accepted) \in Nat /\ leftover \in Nat
<1>1. IsFiniteSet(accepted)
  BY FIFOAssumption, FS_Subset DEF TypeOK
<1> QED BY <1>1, FS_CardinalityType DEF TypeOK

LEMMA EnqueueInd ==
    ASSUME IndInv, NEW x \in Ids, NEW ready \in BOOLEAN, Enqueue(x, ready)
    PROVE  IndInv'
<1> USE DEF IndInv
<1>1. /\ loop \notin {"scan", "arming", "woken"} /\ loop' = Signalled
      /\ x \notin accepted /\ accepted' = accepted \cup {x}
      /\ UNCHANGED <<watcher, leftover, ctxDone, left>>
  BY DEF Enqueue, Held
<1>2. items' \in Seq(Items) /\ Len(items') <= MaxSize
  <2>1. [id |-> x, ready |-> ready] \in Items
    BY DEF Items
  <2>2. items' \in Seq(Items) /\ Len(items') = Len(items) + 1 /\ Len(items) < MaxSize
    BY <2>1, AppendProperties DEF Enqueue, TypeOK
  <2> QED BY <2>2, ItemsFacts
<1>3. TypeOK'
  BY <1>1, <1>2 DEF TypeOK, Signalled
<1>4. Asleep'
  BY <1>1 DEF Asleep, Signalled, TypeOK
<1>5. WokenByItems'
  <2> DEFINE n == Cardinality(accepted)  w == Woken  v == Woken'
  <2>1. n \in Nat /\ Cardinality(accepted') = n + 1 /\ leftover \in Nat
    BY <1>1, AcceptedSize, FS_AddElement
  <2>2. w \in {0, 1} /\ v \in {0, 1}
    BY DEF Woken
  <2>3. ~ctxDone => watcher \in {"none", "armed"} /\ leftover + Woken <= n
    BY DEF WokenByItems
  <2> HIDE DEF n, w, v
  <2>4. leftover + w <= n => leftover + v <= n + 1
    BY <2>1, <2>2
  <2> QED BY <1>1, <2>1, <2>3, <2>4 DEF WokenByItems, w, v
<1> QED BY <1>3, <1>4, <1>5

\* The other operations of the producers' side leave the consumer alone and the
\* slice no longer than it was; if it was empty, it still is.
LEMMA SliceInd ==
    ASSUME IndInv, \/ \E i \in DOMAIN items : Ripen(i)
                   \/ CleanupExpired
                   \/ Clear
    PROVE  IndInv'
<1> USE DEF IndInv
<1>1. UNCHANGED <<loop, watcher, leftover, ctxDone, accepted>>
  BY DEF Ripen, CleanupExpired, Clear
<1>2. /\ items' \in Seq(Items) /\ Len(items') <= MaxSize /\ left' \subseteq Ids
      /\ items = <<>> => items' = <<>>
  <2>1. ASSUME NEW i \in DOMAIN items, Ripen(i)
        PROVE  /\ items' \in Seq(Items) /\ Len(items') <= MaxSize /\ left' \subseteq Ids
               /\ items = <<>> => items' = <<>>
    <3>1. items[i] \in Items /\ [items[i] EXCEPT !.ready = TRUE] \in Items
      BY ItemsFacts DEF Items
    <3>2. items' = [items EXCEPT ![i] = [items[i] EXCEPT !.ready = TRUE]] /\ left' = left
      BY <2>1 DEF Ripen
    <3>3. items' \in Seq(Items) /\ Len(items') = Len(items)
      BY <3>1, <3>2, ItemsFacts, ExceptSeq DEF TypeOK
    <3> QED BY <3>2, <3>3 DEF TypeOK
  <2>2. CASE CleanupExpired
    <3>1. PICK n \in 0 .. Len(items) - 1 : \E kept \in [1 .. n -> DOMAIN items] :
            /\ items' = [i \in 1 .. n |-> items[kept[i]]]
            /\ left' = left \cup {items[k].id : k \in {k \in DOMAIN items : \A i \in 1 .. n : kept[i] # k}}
      BY <2>2 DEF CleanupExpired
    <3>2. PICK kept \in [1 .. n -> DOMAIN items] :
            /\ items' = [i \in 1 .. n |-> items[kept[i]]]
            /\ left' = left \cup {items[k].id : k \in {k \in DOMAIN items : \A i \in 1 .. n : kept[i] # k}}
      BY <3>1
    <3>3. n \in Nat /\ n < Len(items) /\ items # <<>>
      BY ItemsFacts
    <3>4. items' \in [1 .. n -> Items]
      BY <3>2, ItemsFacts
    <3>5. items' \in Seq(Items) /\ Len(items') = n
      BY <3>3, <3>4
    <3>6. left' \subseteq Ids
      BY <3>2, ItemsFacts DEF TypeOK
    <3> QED BY <3>3, <3>5, <3>6, ItemsFacts
  <2>3. CASE Clear
    <3>1. items' = <<>> /\ left' = left \cup Queued
      BY <2>3 DEF Clear
    <3> QED BY <3>1, EmptySeq, ItemsFacts DEF TypeOK
  <2> QED BY <2>1, <2>2, <2>3
<1>3. TypeOK' /\ Asleep'
  BY <1>1, <1>2 DEF TypeOK, Asleep
<1>4. WokenByItems'
  BY <1>1 DEF WokenByItems, Woken
<1> QED BY <1>3, <1>4

\* processLoop and Dequeue.
LEMMA DequeueInd ==
    ASSUME IndInv, DequeueStep
    PROVE  IndInv'
<1> USE DEF IndInv
<1>1. CASE Top \/ Lock \/ Relock \/ NoneReady
  BY <1>1 DEF Top, Lock, Relock, NoneReady, TypeOK, Asleep, WokenByItems, Woken
<1>2. CASE StartWatcher \/ Park
  BY <1>2 DEF StartWatcher, Park, TypeOK, Asleep, WokenByItems, Woken
<1>3. CASE CheckDone
  <2>1. /\ loop = "woken" /\ loop' \in {"top", "scan"} /\ watcher' = "none"
        /\ leftover' \in {leftover, leftover + 1}
        /\ UNCHANGED <<items, ctxDone, accepted, left>>
    BY <1>3 DEF CheckDone
  <2>2. TypeOK' /\ Asleep'
    BY <2>1 DEF TypeOK, Asleep
  <2>3. Woken = 1 /\ Woken' = 0
    BY <2>1 DEF Woken
  <2> DEFINE n == Cardinality(accepted)
  <2>4. n \in Nat /\ leftover \in Nat
    BY AcceptedSize
  <2>5. ~ctxDone => leftover + 1 <= n
    BY <2>3 DEF WokenByItems
  <2> HIDE DEF n
  <2>6. leftover + 1 <= n => leftover' + 0 <= n
    <3>1. leftover' = leftover \/ leftover' = leftover + 1
      BY <2>1
    <3> QED BY <2>4, <3>1
  <2> QED BY <2>1, <2>2, <2>3, <2>5, <2>6 DEF WokenByItems, n
<1>4. CASE Take
  <2>1. PICK k \in DOMAIN items : items' = RemoveAt(items, k) /\ left' = left \cup {items[k].id}
    BY <1>4 DEF Take
  <2>2. loop = "scan" /\ loop' = "top" /\ UNCHANGED <<watcher, leftover, ctxDone, accepted>>
    BY <1>4 DEF Take
  <2>3. items' \in Seq(Items) /\ Len(items') <= MaxSize /\ left' \subseteq Ids
    BY <2>1, RemoveAtType, ItemsFacts DEF TypeOK
  <2>4. TypeOK' /\ Asleep'
    BY <2>2, <2>3 DEF TypeOK, Asleep
  <2>5. WokenByItems'
    BY <2>2 DEF WokenByItems, Woken
  <2> QED BY <2>4, <2>5
<1> QED BY <1>1, <1>2, <1>3, <1>4 DEF DequeueStep

\* The context and the watchers.
LEMMA ContextInd ==
    ASSUME IndInv, Cancel \/ WatcherStep
    PROVE  IndInv'
<1> USE DEF IndInv
<1>1. CASE Cancel
  BY <1>1 DEF Cancel, TypeOK, Asleep, WokenByItems
<1>2. CASE WatcherSignals
  BY <1>2 DEF WatcherSignals, Signalled, TypeOK, Asleep, WokenByItems
<1>3. CASE WatcherCloses
  BY <1>3 DEF WatcherCloses, TypeOK, Asleep, WokenByItems
<1>4. CASE LeftoverSignals
  BY <1>4 DEF LeftoverSignals, Signalled, TypeOK, Asleep, WokenByItems
<1> QED BY <1>1, <1>2, <1>3, <1>4 DEF WatcherStep

LEMMA NextInd == IndInv /\ [Next]_vars => IndInv'
<1> SUFFICES ASSUME IndInv, [Next]_vars PROVE IndInv'
  OBVIOUS
<1>1. CASE UNCHANGED vars
  BY <1>1 DEF vars, IndInv, TypeOK, Asleep, WokenByItems, Woken
<1> QED BY <1>1, EnqueueInd, SliceInd, DequeueInd, ContextInd DEF Next

LEMMA Inductive == Spec => []IndInv
BY InitInd, NextInd, PTL DEF Spec

-----------------------------------------------------------------------------
(* The theorems.                                                           *)

\* Every variable keeps its type; in particular Enqueue never lets the slice grow
\* past maxSize.
THEOREM TypeCorrect == Spec => []TypeOK
BY Inductive, PTL DEF IndInv

\* The wake-up of Enqueue is never lost: processLoop does not sleep in Dequeue
\* while the queue holds an item.
THEOREM WakeupCorrect == Spec => []NoLostWakeup
<1>1. IndInv => NoLostWakeup
  BY DEF IndInv, Asleep, NoLostWakeup
<1> QED BY <1>1, Inductive, PTL

\* Until the shutdown, Dequeue has abandoned at most one watcher goroutine for
\* each item that Enqueue has accepted.
THEOREM LeakCorrect == Spec => []LeakPerItem
<1>1. IndInv => LeakPerItem
  <2> SUFFICES ASSUME IndInv, ~ctxDone PROVE leftover <= Cardinality(accepted)
    BY DEF LeakPerItem
  <2> DEFINE n == Cardinality(accepted)
  <2>1. n \in Nat /\ leftover \in Nat /\ leftover + Woken <= n /\ Woken \in {0, 1}
    BY AcceptedSize DEF IndInv, WokenByItems, Woken
  <2> HIDE DEF n
  <2>2. leftover <= n
    BY <2>1
  <2> QED BY <2>2 DEF n
<1> QED BY <1>1, Inductive, PTL
=============================================================================
