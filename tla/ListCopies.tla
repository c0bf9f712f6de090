----------------------------- MODULE ListCopies ------------------------------
(***************************************************************************)
(* Lemmas about the Redis list of items, through how many copies of an     *)
(* item it holds, and about sets that differ in one element.               *)
(***************************************************************************)
EXTENDS Integers, FiniteSetTheorems, SequenceTheorems, TLAPS

\* Where the copies of item r are in list s, how many they are, and whether there is one.
Positions(s, r) == {i \in DOMAIN s : s[i].id = r}

Copies(s, r) == Cardinality(Positions(s, r))

Has(s, r) == \E i \in DOMAIN s : s[i].id = r

\* A list has finitely many copies of an item.
LEMMA ListType ==
    ASSUME NEW I, NEW s \in Seq(I), NEW r
    PROVE  /\ IsFiniteSet(Positions(s, r))
           /\ Copies(s, r) \in Nat
           /\ Copies(s, r) = 0 <=> ~Has(s, r)
<1>1. Positions(s, r) \subseteq 1 .. Len(s) /\ Len(s) \in Int
  BY LenProperties DEF Positions
<1>2. IsFiniteSet(1 .. Len(s))
  BY <1>1, FS_Interval
<1>3. IsFiniteSet(Positions(s, r))
  BY <1>1, <1>2, FS_Subset
<1>4. Copies(s, r) \in Nat
  BY <1>3, FS_CardinalityType DEF Copies
<1>5. Copies(s, r) = 0 <=> Positions(s, r) = {}
  BY <1>3, FS_EmptySet DEF Copies
<1> QED BY <1>3, <1>4, <1>5 DEF Positions, Has

\* A deleted key holds nothing.
LEMMA EmptyCopies == \A r : ~Has(<<>>, r)
BY DEF Has

\* What RPUSH, sent k + 1 times, does to the list, and what the end of a delay does.
Repeated(e, k) == [i \in 1 .. k + 1 |-> e]

Appended(s, e, k) == s \o Repeated(e, k)

Readied(e) == [e EXCEPT !.ready = TRUE]

Ripened(s, k) == [s EXCEPT ![k].ready = TRUE]

\* k + 1 copies of an item are appended.
LEMMA ListPush ==
    ASSUME NEW I, NEW s \in Seq(I), NEW e \in I, NEW k \in Nat,
           NEW q, q = e.id, NEW t, t = Appended(s, e, k), NEW r
    PROVE  /\ t \in Seq(I)
           /\ r = q => Copies(t, r) = Copies(s, r) + (k + 1)
           /\ r # q => Copies(t, r) = Copies(s, r)
           /\ Has(t, r) <=> Has(s, r) \/ r = q
<1> DEFINE u == Repeated(e, k)
           n == Len(s)
           new == (n + 1) .. (n + k + 1)
<1>1. u \in [1 .. k + 1 -> I] /\ u \in Seq(I) /\ Len(u) = k + 1 /\ \A i \in 1 .. k + 1 : u[i] = e
  <2>1. u \in [1 .. k + 1 -> I] /\ \A i \in 1 .. k + 1 : u[i] = e
    BY DEF Repeated
  <2>2. k + 1 \in Nat
    OBVIOUS
  <2> HIDE DEF u
  <2> QED BY <2>1, <2>2
<1>2. n \in Nat /\ DOMAIN s = 1 .. n
  BY LenProperties
<1> HIDE DEF u
<1>3. /\ t \in Seq(I) /\ Len(t) = n + (k + 1)
      /\ \A i \in 1 .. n + (k + 1) : t[i] = IF i <= n THEN s[i] ELSE u[i - n]
  <2>1. t = s \o u
    BY DEF u, Appended
  <2>2. u \in Seq(I) /\ Len(u) = k + 1
    BY <1>1
  <2>3. /\ s \o u \in Seq(I) /\ Len(s \o u) = Len(s) + Len(u)
        /\ \A i \in 1 .. Len(s) + Len(u) : (s \o u)[i] = IF i <= Len(s) THEN s[i] ELSE u[i - Len(s)]
    BY <2>2, ConcatProperties
  <2> QED BY <2>1, <2>2, <2>3, Zenon
<1> HIDE DEF n
<1>4. DOMAIN t = 1 .. n + (k + 1)
  BY <1>3, LenProperties
<1>5. \A i \in DOMAIN s : i \in DOMAIN t /\ t[i] = s[i] /\ i \notin new
  BY <1>2, <1>3, <1>4
<1>6. \A i \in new : i \in DOMAIN t /\ t[i] = e
  <2> TAKE i \in new
  <2>1. i \in 1 .. n + (k + 1) /\ ~(i <= n) /\ i - n \in 1 .. k + 1
    BY <1>2
  <2> QED BY <1>1, <1>3, <1>4, <2>1
<1>7. \A i \in DOMAIN t : i \in DOMAIN s \/ i \in new
  BY <1>2, <1>4
<1>8. n + 1 \in new /\ n + 1 \in Int /\ n + k + 1 \in Int
  BY <1>2
<1>9. IsFiniteSet(new) /\ Cardinality(new) = k + 1
  <2>1. IsFiniteSet(new) /\ Cardinality(new) = IF n + 1 > n + k + 1 THEN 0 ELSE (n + k + 1) - (n + 1) + 1
    BY <1>8, FS_Interval
  <2> QED BY <1>2, <2>1
<1> HIDE DEF new
<1>10. Has(t, r) <=> Has(s, r) \/ r = e.id
  BY <1>5, <1>6, <1>7, <1>8 DEF Has
<1>11. CASE r = e.id
  <2>1. Positions(t, r) = Positions(s, r) \cup new /\ Positions(s, r) \cap new = {}
    BY <1>5, <1>6, <1>7, <1>11 DEF Positions
  <2>2. IsFiniteSet(Positions(s, r)) /\ Copies(s, r) \in Nat
    BY ListType
  <2>3. Cardinality(Positions(t, r)) =
          Cardinality(Positions(s, r)) + Cardinality(new) - Cardinality(Positions(s, r) \cap new)
    BY <1>9, <2>1, <2>2, FS_Union
  <2>4. Copies(t, r) = Copies(s, r) + (k + 1) - 0
    BY <1>9, <2>1, <2>3, FS_EmptySet DEF Copies
  <2> QED BY <1>3, <1>10, <1>11, <2>2, <2>4
<1>12. CASE r # e.id
  <2>1. Positions(t, r) = Positions(s, r)
    BY <1>5, <1>6, <1>7, <1>12 DEF Positions
  <2>2. Copies(s, r) \in Nat
    BY ListType
  <2> QED BY <1>3, <1>10, <1>12, <2>1, <2>2 DEF Copies
<1> QED BY <1>11, <1>12

\* The head is taken off.
LEMMA ListPop ==
    ASSUME NEW I, NEW s \in Seq(I), s # <<>>, NEW t, t = Tail(s), NEW r
    PROVE  /\ t \in Seq(I) /\ Head(s) \in I
           /\ r = Head(s).id => Copies(s, r) = Copies(t, r) + 1
           /\ r # Head(s).id => Copies(s, r) = Copies(t, r)
           /\ Has(s, r) <=> Has(t, r) \/ r = Head(s).id
<1>1. /\ t \in Seq(I) /\ Len(t) = Len(s) - 1 /\ Head(s) \in I
      /\ \A i \in 1 .. Len(t) : t[i] = s[i + 1]
  BY HeadTailProperties
<1>2. /\ Len(s) \in Nat /\ DOMAIN s = 1 .. Len(s) /\ DOMAIN t = 1 .. Len(s) - 1
      /\ 1 \in DOMAIN s /\ Head(s) = s[1]
  BY <1>1, LenProperties, EmptySeq
<1>3. \A i \in DOMAIN t : i + 1 \in DOMAIN s /\ i + 1 # 1 /\ t[i] = s[i + 1]
  BY <1>1, <1>2
<1>4. \A i \in DOMAIN s : i # 1 => i - 1 \in DOMAIN t /\ s[i] = t[i - 1] /\ (i - 1) + 1 = i
  <2> SUFFICES ASSUME NEW i \in DOMAIN s, i # 1
               PROVE  i - 1 \in DOMAIN t /\ s[i] = t[i - 1] /\ (i - 1) + 1 = i
    OBVIOUS
  <2>1. i - 1 \in DOMAIN t /\ (i - 1) + 1 = i
    BY <1>2
  <2> QED BY <1>3, <2>1
<1> DEFINE P == Positions(t, r)
           Q == Positions(s, r) \ {1}
           f == [i \in P |-> i + 1]
<1>5. f \in Bijection(P, Q)
  <2>1. \A i \in P : i + 1 \in Q /\ i \in Int
    BY <1>2, <1>3 DEF Positions
  <2>2. f \in [P -> Q]
    BY <2>1
  <2>3. \A i, j \in P : f[i] = f[j] => i = j
    BY <2>1
  <2>4. \A j \in Q : \E i \in P : f[i] = j
    <3> SUFFICES ASSUME NEW j \in Q PROVE \E i \in P : f[i] = j
      OBVIOUS
    <3>1. j - 1 \in P /\ (j - 1) + 1 = j
      BY <1>4 DEF Positions
    <3> QED BY <3>1
  <2> HIDE DEF f, P, Q
  <2> QED BY <2>2, <2>3, <2>4 DEF Bijection, Injection, Surjection, IsInjective
<1>6. IsFiniteSet(P) /\ IsFiniteSet(Positions(s, r)) /\ Copies(s, r) \in Nat /\ Copies(t, r) \in Nat
  BY <1>1, ListType
<1>7. Cardinality(Q) = Cardinality(P)
  BY <1>5, <1>6, FS_Bijection DEF ExistsBijection
<1>8. Cardinality(Q) = IF 1 \in Positions(s, r) THEN Cardinality(Positions(s, r)) - 1
                       ELSE Cardinality(Positions(s, r))
  BY <1>6, FS_RemoveElement
<1>9. 1 \in Positions(s, r) <=> r = Head(s).id
  BY <1>2 DEF Positions
<1>10. /\ r = Head(s).id => Copies(s, r) = Copies(t, r) + 1
       /\ r # Head(s).id => Copies(s, r) = Copies(t, r)
  BY <1>6, <1>7, <1>8, <1>9 DEF Copies
<1>11. Has(s, r) <=> Has(t, r) \/ r = Head(s).id
  BY <1>2, <1>3, <1>4 DEF Has
<1> QED BY <1>1, <1>2, <1>10, <1>11

\* The delay of an item ends.
LEMMA ListRipen ==
    ASSUME NEW I, NEW s \in Seq(I), NEW k \in DOMAIN s, NEW t, t = Ripened(s, k), NEW r,
           \A e \in I : Readied(e) \in I /\ Readied(e).id = e.id
    PROVE  t \in Seq(I) /\ Copies(t, r) = Copies(s, r) /\ (Has(t, r) <=> Has(s, r))
<1>0. Len(s) \in Nat /\ DOMAIN s = 1 .. Len(s) /\ s[k] \in I /\ s \in [1 .. Len(s) -> I]
  BY LenProperties
<1>1. Readied(s[k]) \in I
  BY <1>0 DEF Readied
<1>2. t = [s EXCEPT ![k] = Readied(s[k])]
  BY DEF Ripened, Readied
<1>3. t \in Seq(I)
  BY <1>0, <1>1, <1>2, ExceptSeq
<1>4. DOMAIN t = DOMAIN s /\ \A j \in DOMAIN s : t[j].id = s[j].id
  BY <1>0, <1>1, <1>2
<1>5. Positions(t, r) = Positions(s, r)
  BY <1>4 DEF Positions
<1> QED BY <1>3, <1>4, <1>5 DEF Copies, Has

\* Two sets that differ in one element at most.
LEMMA OneMoves ==
    ASSUME NEW S, NEW T, IsFiniteSet(S), IsFiniteSet(T), NEW g,
           \A h : h # g => (h \in S <=> h \in T)
    PROVE  Cardinality(T) + (IF g \in S THEN 1 ELSE 0) = Cardinality(S) + (IF g \in T THEN 1 ELSE 0)
<1>1. S \ {g} = T \ {g}
  OBVIOUS
<1>2. /\ Cardinality(S \ {g}) = IF g \in S THEN Cardinality(S) - 1 ELSE Cardinality(S)
      /\ Cardinality(T \ {g}) = IF g \in T THEN Cardinality(T) - 1 ELSE Cardinality(T)
  BY FS_RemoveElement
<1>3. Cardinality(S) \in Nat /\ Cardinality(T) \in Nat
  BY FS_CardinalityType
<1> QED BY <1>1, <1>2, <1>3
=============================================================================
