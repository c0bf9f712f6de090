-------------------------- MODULE TokenBucket_proofs --------------------------
(***************************************************************************)
(* Proofs about TokenBucket, for every set of calls, every bucket size,    *)
(* rate and cost.                                                          *)
(***************************************************************************)
EXTENDS TokenBucket, TLAPS

-----------------------------------------------------------------------------
(* Arithmetic.  Products of two constants or variables are kept behind     *)
(* names; these are the only facts about them that the proofs use.         *)

LEMMA CapacityType == Capacity \in Nat
BY BucketAssumption DEF Capacity

LEMMA PriceType ==
    ASSUME NEW n \in Int
    PROVE  Price(n) \in Int /\ (n > 0 => Price(n) > 0)
BY BucketAssumption DEF Price

LEMMA RateTimes ==
    ASSUME NEW a \in Nat, NEW b \in Nat, b <= a
    PROVE  /\ Rate * a \in Nat
           /\ Rate * b \in Nat
           /\ Rate * (a - b) \in Nat
           /\ Rate * (a - b) = Rate * a - Rate * b
<1>1. Rate * a \in Nat /\ Rate * b \in Nat /\ a - b \in Nat
  BY BucketAssumption
<1>2. Rate * (a - b) \in Nat
  BY <1>1, BucketAssumption
<1>3. Rate * (a - b) = Rate * a - Rate * b
  BY BucketAssumption
<1> QED BY <1>1, <1>2, <1>3

LEMMA RateOne ==
    ASSUME NEW a \in Nat
    PROVE  Rate * (a + 1) = Rate * a + Rate
BY BucketAssumption

\* What refill leaves in the bucket.
LEMMA RefilledBounds ==
    ASSUME TypeOK
    PROVE  /\ Refilled \in 0 .. Capacity
           /\ availableTokens <= Refilled
           /\ Refilled <= availableTokens + (Rate * now - Rate * lastRefillTime)
<1>1. now \in Nat /\ lastRefillTime \in Nat /\ lastRefillTime <= now
  BY DEF TypeOK
<1>2. /\ Rate * (now - lastRefillTime) \in Nat
      /\ Rate * (now - lastRefillTime) = Rate * now - Rate * lastRefillTime
      /\ Rate * now \in Nat /\ Rate * lastRefillTime \in Nat
  BY <1>1, RateTimes
<1> DEFINE acc == Rate * (now - lastRefillTime)
<1>3. acc \in Nat /\ acc = Rate * now - Rate * lastRefillTime
  BY <1>2
<1>4. Refilled = IF Capacity <= availableTokens + acc THEN Capacity ELSE availableTokens + acc
  BY DEF Refilled
<1>5. availableTokens \in 0 .. Capacity /\ Capacity \in Nat
  BY CapacityType DEF TypeOK
<1> HIDE DEF acc
<1>6. /\ Refilled \in 0 .. Capacity
      /\ availableTokens <= Refilled
      /\ Refilled <= availableTokens + acc
  BY <1>3, <1>4, <1>5
<1> QED BY <1>3, <1>6

-----------------------------------------------------------------------------
(* The inductive invariant.                                                *)

\* The credit still in the bucket, and what has been spent, together never
\* exceed a full bucket plus the time that has been credited.
Credit == availableTokens + spent <= Capacity + Rate * lastRefillTime

\* What is known of a call from where its client and its goroutine are.
CallInv(c) ==
    /\ pc[c] \in {"idle", "reserve"} =>
         /\ sleeper[c] = "none" /\ charged[c] = 0 /\ ok[c]
         /\ c \notin waiters /\ c \notin closed
    /\ pc[c] # "done" => ret[c] = "none"
    /\ pc[c] = "reserve" => tokens[c] > 0
    /\ sleeper[c] = "sleeping" => charged[c] = 0
    /\ sleeper[c] = "notifying" => charged[c] = Price(tokens[c])
    /\ sleeper[c] # "none" => tokens[c] > 0 /\ ret[c] \notin {"allowed", "denied", "invalid"}
    /\ c \in waiters => ok[c] /\ sleeper[c] # "none"
    /\ c \in waiters /\ sleeper[c] = "gone" => charged[c] = 0
    /\ pc[c] = "select" => c \in waiters \/ c \in closed
    /\ c \in closed => c \notin waiters /\ ok[c] /\ sleeper[c] = "gone"
    /\ charged[c] \in {0, Price(tokens[c])}
    /\ c \in closed => charged[c] = Price(tokens[c])
    /\ ret[c] \in {"allowed", "fulfilled"} => charged[c] = Price(tokens[c])
    /\ ret[c] \in {"denied", "invalid"} => charged[c] = 0

Lifecycle == \A c \in Calls : CallInv(c)

IndInv == TypeOK /\ Credit /\ Lifecycle

LEMMA InitInd == Init => IndInv
<1> SUFFICES ASSUME Init PROVE IndInv
  OBVIOUS
<1>1. Capacity \in Nat /\ Rate * 0 = 0
  BY CapacityType, BucketAssumption
<1>2. TypeOK
  BY <1>1 DEF Init, TypeOK, PCs, Returns
<1>3. Credit
  BY <1>1 DEF Init, Credit
<1>4. Lifecycle
  BY DEF Init, Lifecycle, CallInv
<1> QED BY <1>2, <1>3, <1>4 DEF IndInv

\* Time passing, and a window being opened, change neither credit nor calls.
LEMMA TickInd == IndInv /\ Tick => IndInv'
<1> SUFFICES ASSUME IndInv, Tick PROVE IndInv'
  OBVIOUS
<1>1. TypeOK'
  BY DEF IndInv, TypeOK, Tick, bucketVars, reservationVars, clientVars, accountVars, windowVars, Capacity
<1>2. Credit' /\ Lifecycle'
  BY DEF IndInv, Credit, Lifecycle, CallInv, Tick, bucketVars, reservationVars, clientVars, accountVars, Capacity, Price
<1> QED BY <1>1, <1>2 DEF IndInv

LEMMA ObserveInd == IndInv /\ Observe => IndInv'
<1> SUFFICES ASSUME IndInv, Observe PROVE IndInv'
  OBVIOUS
<1>1. TypeOK'
  BY DEF IndInv, TypeOK, Observe, bucketVars, reservationVars, clientVars, accountVars, Capacity
<1>2. Credit' /\ Lifecycle'
  BY DEF IndInv, Credit, Lifecycle, CallInv, Observe, bucketVars, reservationVars, clientVars, accountVars, Capacity, Price
<1> QED BY <1>1, <1>2 DEF IndInv

\* A critical section that refills the bucket and takes n of what is there
\* keeps the credit bound when spent grows by n: the only place where the
\* bucket is credited.
LEMMA RefillKeepsCredit ==
    ASSUME TypeOK, Credit, NEW n \in Nat, n <= Refilled,
           RefillAndTake(n), spent' = spent + n
    PROVE  /\ Credit'
           /\ availableTokens' \in 0 .. Capacity
           /\ lastRefillTime' = now
<1>1. /\ Refilled \in 0 .. Capacity
      /\ Refilled <= availableTokens + (Rate * now - Rate * lastRefillTime)
  BY RefilledBounds
<1>2. Rate * now \in Nat /\ Rate * lastRefillTime \in Nat
  BY RateTimes DEF TypeOK
<1>3. availableTokens \in Nat /\ spent \in Nat /\ Capacity \in Nat
  BY CapacityType DEF TypeOK
<1>4. availableTokens' = Refilled - n /\ lastRefillTime' = now
  BY DEF RefillAndTake
<1>5. Capacity' = Capacity /\ Rate * lastRefillTime' = Rate * now
  BY <1>4 DEF Capacity
<1>6. availableTokens + spent <= Capacity + Rate * lastRefillTime
  BY DEF Credit
<1>7. availableTokens' + spent' <= Capacity + Rate * now
  BY <1>1, <1>2, <1>3, <1>4, <1>6
<1>8. Credit'
  BY <1>5, <1>7 DEF Credit
<1> QED BY <1>1, <1>3, <1>4, <1>8

LEMMA GetTokensAvailableInd == IndInv /\ GetTokensAvailableN => IndInv'
<1> SUFFICES ASSUME IndInv, GetTokensAvailableN PROVE IndInv'
  OBVIOUS
<1> USE DEF IndInv
<1>1. 0 <= Refilled
  BY RefilledBounds, CapacityType
<1>2. RefillAndTake(0) /\ spent' = spent /\ spent \in Nat
  BY DEF GetTokensAvailableN, accountVars, TypeOK
<1>3. /\ Credit'
      /\ availableTokens' \in 0 .. Capacity
      /\ lastRefillTime' = now
  BY <1>1, <1>2, RefillKeepsCredit
<1>4. TypeOK'
  BY <1>3 DEF TypeOK, GetTokensAvailableN, reservationVars, clientVars, accountVars, windowVars, Capacity
<1>5. Lifecycle'
  BY DEF Lifecycle, CallInv, GetTokensAvailableN, reservationVars, clientVars, accountVars, Price
<1> QED BY <1>3, <1>4, <1>5

\* The three ways an entry point can go.  Each changes only call c.
LEMMA GrantInd ==
    ASSUME IndInv, NEW c \in Calls, NEW n \in Costs, pc[c] \in {"idle", "reserve"},
           n > 0, Refilled >= Price(n), RefillAndTake(Price(n)), Charge(c, n)
    PROVE  /\ Credit'
           /\ availableTokens' \in 0 .. Capacity
           /\ lastRefillTime' = now
           /\ spent' \in Nat /\ spent <= spent'
           /\ charged' \in [Calls -> Nat]
           /\ charged' = [charged EXCEPT ![c] = Price(n)]
<1> USE DEF IndInv
<1>1. n \in Int /\ Price(n) \in Int /\ Price(n) > 0
  BY PriceType, BucketAssumption
<1>2. Price(n) \in Nat /\ spent \in Nat /\ charged \in [Calls -> Nat]
  BY <1>1 DEF TypeOK
<1>3. Price(n) <= Refilled
  BY <1>1, RefilledBounds, CapacityType
<1>4. spent' = spent + Price(n)
  BY DEF Charge
<1>5. /\ Credit'
      /\ availableTokens' \in 0 .. Capacity
      /\ lastRefillTime' = now
  BY <1>2, <1>3, <1>4, RefillKeepsCredit
<1>6. charged[c] = 0
  BY DEF Lifecycle, CallInv
<1>7. charged' = [charged EXCEPT ![c] = Price(n)]
  <2>1. charged[c] + Price(n) = Price(n)
    BY <1>2, <1>6
  <2> QED BY <2>1 DEF Charge
<1>8. charged' \in [Calls -> Nat]
  BY <1>2, <1>7
<1> QED BY <1>2, <1>4, <1>5, <1>7, <1>8

LEMMA TooFewInd ==
    ASSUME IndInv, RefillAndTake(0), UNCHANGED accountVars
    PROVE  /\ Credit'
           /\ availableTokens' \in 0 .. Capacity
           /\ lastRefillTime' = now
<1> USE DEF IndInv
<1>1. 0 <= Refilled
  BY RefilledBounds, CapacityType
<1>2. spent' = spent + 0
  BY DEF accountVars, TypeOK
<1> QED BY <1>1, <1>2, RefillKeepsCredit

\* AllowN, and WaitN as far as it is the same.
LEMMA AttemptInd ==
    ASSUME IndInv, NEW c \in Calls, NEW n \in Costs, pc[c] = "idle",
           tokens' = [tokens EXCEPT ![c] = n],
           \/ RejectCost(c, n)
           \/ Grant(c, n)
           \/ TooFew(n) /\ (Return(c, "denied") \/ Goto(c, "reserve")),
           UNCHANGED <<now, reservationVars, windowVars>>
    PROVE  IndInv'
<1> USE DEF IndInv
<1>0. n \in Int /\ Price(n) \in Int /\ tokens'[c] = n /\ (n > 0 => Price(n) > 0)
  BY PriceType, BucketAssumption DEF TypeOK
<1>1. CASE RejectCost(c, n)
  <2>1. TypeOK'
    BY <1>0, <1>1 DEF TypeOK, RejectCost, Return, bucketVars, reservationVars, accountVars, windowVars, PCs, Returns, Capacity
  <2>2. Credit'
    BY <1>1 DEF Credit, RejectCost, bucketVars, accountVars, Capacity
  <2>3. ASSUME NEW d \in Calls PROVE CallInv(d)'
    BY <1>0, <1>1 DEF Lifecycle, CallInv, RejectCost, Return, TypeOK, accountVars, reservationVars, Price
  <2> QED BY <2>1, <2>2, <2>3 DEF Lifecycle
<1>2. CASE Grant(c, n)
  <2>1. /\ Credit'
        /\ availableTokens' \in 0 .. Capacity
        /\ lastRefillTime' = now
        /\ spent' \in Nat /\ spent <= spent'
        /\ charged' \in [Calls -> Nat]
        /\ charged' = [charged EXCEPT ![c] = Price(n)]
    BY <1>2, GrantInd DEF Grant
  <2>2. TypeOK'
    BY <1>0, <1>2, <2>1 DEF TypeOK, Grant, Return, reservationVars, windowVars, PCs, Returns, Capacity
  <2>3. ASSUME NEW d \in Calls PROVE CallInv(d)'
    BY <1>0, <1>2, <2>1 DEF Lifecycle, CallInv, Grant, Return, TypeOK, reservationVars, Price
  <2> QED BY <2>1, <2>2, <2>3 DEF Lifecycle
<1>3. CASE TooFew(n) /\ (Return(c, "denied") \/ Goto(c, "reserve"))
  <2>1. /\ Credit'
        /\ availableTokens' \in 0 .. Capacity
        /\ lastRefillTime' = now
    BY <1>3, TooFewInd DEF TooFew
  <2>2. TypeOK'
    BY <1>0, <1>3, <2>1 DEF TypeOK, TooFew, Return, Goto, reservationVars, accountVars, windowVars, PCs, Returns, Capacity
  <2>3. ASSUME NEW d \in Calls PROVE CallInv(d)'
    BY <1>0, <1>3 DEF Lifecycle, CallInv, TooFew, Return, Goto, TypeOK, accountVars, reservationVars, Price
  <2> QED BY <2>1, <2>2, <2>3 DEF Lifecycle
<1> QED BY <1>1, <1>2, <1>3

LEMMA ReserveInd ==
    ASSUME IndInv, NEW c \in Calls, NEW n \in Costs, ReserveN(c, n)
    PROVE  IndInv'
<1> USE DEF IndInv
<1>0. /\ n \in Int /\ Price(n) \in Int /\ (n > 0 => Price(n) > 0)
      /\ tokens' = [tokens EXCEPT ![c] = n]
      /\ tokens'[c] = n
      /\ pc[c] \in {"idle", "reserve"}
      /\ UNCHANGED <<now, windowVars>>
  BY PriceType, BucketAssumption DEF TypeOK, ReserveN
<1>1. CASE RejectCost(c, n) /\ UNCHANGED reservationVars
  <2>1. TypeOK'
    BY <1>0, <1>1 DEF TypeOK, RejectCost, Return, bucketVars, reservationVars, accountVars, windowVars, PCs, Returns, Capacity
  <2>2. Credit'
    BY <1>1 DEF Credit, RejectCost, bucketVars, accountVars, Capacity
  <2>3. ASSUME NEW d \in Calls PROVE CallInv(d)'
    BY <1>0, <1>1 DEF Lifecycle, CallInv, RejectCost, Return, TypeOK, accountVars, reservationVars, Price
  <2> QED BY <2>1, <2>2, <2>3 DEF Lifecycle
<1>2. CASE ReserveNow(c, n)
  <2>1. /\ Credit'
        /\ availableTokens' \in 0 .. Capacity
        /\ lastRefillTime' = now
        /\ spent' \in Nat /\ spent <= spent'
        /\ charged' \in [Calls -> Nat]
        /\ charged' = [charged EXCEPT ![c] = Price(n)]
    BY <1>0, <1>2, GrantInd DEF ReserveNow
  <2>2. TypeOK'
    BY <1>0, <1>2, <2>1 DEF TypeOK, ReserveNow, Reserved, Goto, windowVars, PCs, Returns, Capacity
  <2>3. ASSUME NEW d \in Calls PROVE CallInv(d)'
    BY <1>0, <1>2, <2>1 DEF Lifecycle, CallInv, ReserveNow, Reserved, Goto, TypeOK, Price
  <2> QED BY <2>1, <2>2, <2>3 DEF Lifecycle
<1>3. CASE ReserveLater(c, n)
  <2>1. /\ Credit'
        /\ availableTokens' \in 0 .. Capacity
        /\ lastRefillTime' = now
    BY <1>3, TooFewInd DEF ReserveLater
  <2>2. now + (Price(n) - Refilled) \div Rate \in Nat
    <3>1. Price(n) - Refilled \in Nat
      BY <1>0, <1>3, RefilledBounds, CapacityType DEF ReserveLater
    <3>2. (Price(n) - Refilled) \div Rate \in Nat
      BY <3>1, BucketAssumption
    <3> QED BY <3>2 DEF TypeOK
  <2>3. TypeOK'
    BY <1>0, <1>3, <2>1, <2>2 DEF TypeOK, ReserveLater, Reserved, Goto, accountVars, windowVars, PCs, Returns, Capacity
  <2>4. ASSUME NEW d \in Calls PROVE CallInv(d)'
    BY <1>0, <1>3 DEF Lifecycle, CallInv, ReserveLater, Reserved, Goto, TypeOK, accountVars, Price
  <2> QED BY <2>1, <2>3, <2>4 DEF Lifecycle
<1> QED BY <1>1, <1>2, <1>3 DEF ReserveN

\* The goroutine of a reservation charges without crediting: the credit bound
\* holds with slack, and the call had not been charged before.
LEMMA FireInd ==
    ASSUME IndInv, NEW c \in Calls, Fire(c)
    PROVE  IndInv'
<1> USE DEF IndInv
<1>0. /\ tokens[c] \in Int /\ tokens[c] > 0
      /\ Price(tokens[c]) \in Nat
      /\ charged[c] = 0
      /\ spent \in Nat /\ charged \in [Calls -> Nat]
      /\ availableTokens \in 0 .. Capacity /\ Capacity \in Nat
      /\ UNCHANGED <<now, lastRefillTime, waiters, closed, timeToProcess, ok, tokens, pc, ret, winStart, winBase>>
  <2>1. tokens[c] \in Int /\ tokens[c] > 0 /\ charged[c] = 0
    BY DEF Fire, Lifecycle, CallInv, TypeOK
  <2>2. Price(tokens[c]) \in Nat
    BY <2>1, PriceType
  <2> QED BY <2>1, <2>2, CapacityType DEF TypeOK, Fire, clientVars, windowVars
<1>1. CASE /\ availableTokens >= Price(tokens[c])
           /\ availableTokens' = availableTokens - Price(tokens[c])
           /\ Charge(c, tokens[c])
           /\ sleeper' = [sleeper EXCEPT ![c] = "notifying"]
  <2>1. charged' = [charged EXCEPT ![c] = Price(tokens[c])]
    <3>1. charged[c] + Price(tokens[c]) = Price(tokens[c])
      BY <1>0
    <3> QED BY <1>1, <3>1 DEF Charge
  <2>2. spent' = spent + Price(tokens[c])
    BY <1>1 DEF Charge
  <2>3. TypeOK'
    BY <1>0, <1>1, <2>1, <2>2 DEF TypeOK, Capacity
  <2>4. Credit'
    <3>1. availableTokens' + spent' = availableTokens + spent
      BY <1>0, <1>1, <2>2
    <3> QED BY <1>0, <3>1 DEF Credit, Capacity
  <2>5. ASSUME NEW d \in Calls PROVE CallInv(d)'
    BY <1>0, <1>1, <2>1 DEF Lifecycle, CallInv, Fire, TypeOK, Price
  <2> QED BY <2>3, <2>4, <2>5 DEF Lifecycle
<1>2. CASE /\ sleeper' = [sleeper EXCEPT ![c] = "gone"]
           /\ UNCHANGED <<availableTokens, accountVars>>
  <2>1. TypeOK'
    BY <1>0, <1>2 DEF TypeOK, accountVars, Capacity
  <2>2. Credit'
    BY <1>0, <1>2 DEF Credit, accountVars, Capacity
  <2>3. ASSUME NEW d \in Calls PROVE CallInv(d)'
    BY <1>0, <1>2 DEF Lifecycle, CallInv, Fire, TypeOK, accountVars, Price
  <2> QED BY <2>1, <2>2, <2>3 DEF Lifecycle
<1> QED BY <1>1, <1>2 DEF Fire

LEMMA NotifyInd ==
    ASSUME IndInv, NEW c \in Calls, Notify(c)
    PROVE  IndInv'
<1> USE DEF IndInv
<1>1. TypeOK'
  BY DEF TypeOK, Notify, bucketVars, clientVars, accountVars, windowVars, Capacity
<1>2. Credit'
  BY DEF Credit, Notify, bucketVars, accountVars, Capacity
<1>3. ASSUME NEW d \in Calls PROVE CallInv(d)'
  BY DEF Lifecycle, CallInv, Notify, TypeOK, clientVars, accountVars, Price
<1> QED BY <1>1, <1>2, <1>3 DEF Lifecycle

\* The client's own steps on a reservation never touch the bucket.
LEMMA ClientInd ==
    ASSUME IndInv, NEW c \in Calls,
           WaitCheck(c) \/ WaitLookup(c) \/ WaitCancelled(c) \/ WaitFulfilled(c) \/ CancelAt(c)
    PROVE  IndInv'
<1> USE DEF IndInv
<1>1. TypeOK'
  <2>1. CASE WaitCheck(c)
    BY <2>1 DEF TypeOK, WaitCheck, Return, Goto, bucketVars, reservationVars, accountVars, windowVars, PCs, Returns, Capacity
  <2>2. CASE WaitLookup(c)
    BY <2>2 DEF TypeOK, WaitLookup, Return, Goto, bucketVars, reservationVars, accountVars, windowVars, PCs, Returns, Capacity
  <2>3. CASE WaitCancelled(c)
    BY <2>3 DEF TypeOK, WaitCancelled, CancelEffect, Return, bucketVars, accountVars, windowVars, PCs, Returns, Capacity
  <2>4. CASE WaitFulfilled(c)
    BY <2>4 DEF TypeOK, WaitFulfilled, Return, bucketVars, reservationVars, accountVars, windowVars, PCs, Returns, Capacity
  <2>5. CASE CancelAt(c)
    BY <2>5 DEF TypeOK, CancelAt, CancelEffect, bucketVars, clientVars, accountVars, windowVars, Capacity
  <2> QED BY <2>1, <2>2, <2>3, <2>4, <2>5
<1>2. Credit'
  BY DEF Credit, WaitCheck, WaitLookup, WaitCancelled, WaitFulfilled, CancelAt, bucketVars, accountVars, Capacity
<1>3. ASSUME NEW d \in Calls PROVE CallInv(d)'
  <2>1. CASE WaitCheck(c)
    BY <2>1 DEF Lifecycle, CallInv, WaitCheck, Return, Goto, TypeOK, reservationVars, accountVars, Price
  <2>2. CASE WaitLookup(c)
    BY <2>2 DEF Lifecycle, CallInv, WaitLookup, Return, Goto, TypeOK, reservationVars, accountVars, Price
  <2>3. CASE WaitCancelled(c)
    BY <2>3 DEF Lifecycle, CallInv, WaitCancelled, CancelEffect, Return, TypeOK, accountVars, Price
  <2>4. CASE WaitFulfilled(c)
    BY <2>4 DEF Lifecycle, CallInv, WaitFulfilled, Return, TypeOK, reservationVars, accountVars, Price
  <2>5. CASE CancelAt(c)
    BY <2>5 DEF Lifecycle, CallInv, CancelAt, CancelEffect, TypeOK, clientVars, accountVars, Price
  <2> QED BY <2>1, <2>2, <2>3, <2>4, <2>5
<1> QED BY <1>1, <1>2, <1>3 DEF Lifecycle

LEMMA StutterInd == IndInv /\ UNCHANGED vars => IndInv'
BY DEF IndInv, TypeOK, Credit, Lifecycle, CallInv, vars, bucketVars, reservationVars,
       clientVars, accountVars, windowVars, Capacity, Price

LEMMA NextInd == IndInv /\ [Next]_vars => IndInv'
<1> SUFFICES ASSUME IndInv, [Next]_vars PROVE IndInv'
  OBVIOUS
<1>1. ASSUME NEW c \in Calls, Entry(c) PROVE IndInv'
  <2>1. PICK n \in Costs : AllowN(c, n) \/ WaitN(c, n) \/ ReserveN(c, n)
    BY <1>1 DEF Entry
  <2>2. CASE AllowN(c, n)
    BY <2>2, AttemptInd DEF AllowN
  <2>3. CASE WaitN(c, n)
    BY <2>3, AttemptInd DEF WaitN
  <2>4. CASE ReserveN(c, n)
    BY <2>4, ReserveInd
  <2> QED BY <2>1, <2>2, <2>3, <2>4
<1>2. ASSUME NEW c \in Calls, OnReservation(c) PROVE IndInv'
  BY <1>2, FireInd, NotifyInd, ClientInd DEF OnReservation
<1> QED
  BY <1>1, <1>2, TickInd, ObserveInd, GetTokensAvailableInd, StutterInd DEF Next

-----------------------------------------------------------------------------
LEMMA Inductive == Spec => []IndInv
BY InitInd, NextInd, PTL DEF Spec

\* Every variable keeps its type, for every set of calls and every size of
\* bucket: in particular neither the client's deduction (lines 99 and 153) nor
\* the goroutine's (line 191) ever overdraws the bucket.
THEOREM TypeCorrect == Spec => []TypeOK
BY Inductive, PTL DEF IndInv

\* The limiter never grants more than one full bucket plus the refill of the
\* elapsed time, whatever mix of AllowN, WaitN and reservations is used.
THEOREM TotalBounded == Spec => []TotalBound
<1>1. IndInv => TotalBound
  <2> SUFFICES ASSUME IndInv PROVE TotalBound
    OBVIOUS
  <2>1. /\ now \in Nat /\ lastRefillTime \in Nat /\ lastRefillTime <= now
        /\ availableTokens \in Nat /\ spent \in Nat /\ Capacity \in Nat
    BY CapacityType DEF IndInv, TypeOK
  <2>2. Rate * lastRefillTime <= Rate * now /\ Rate * lastRefillTime \in Nat /\ Rate * now \in Nat
    BY <2>1, RateTimes
  <2> QED BY <2>1, <2>2 DEF IndInv, Credit, TotalBound
<1> QED BY <1>1, Inductive, PTL

\* The answers of AllowN and of a closed channel tell the truth about the
\* charge, and no call is ever charged twice.  (The clock of Wait does not.)
THEOREM AnswersCorrect == Spec => []AnswersMatchCharges
<1>1. IndInv => AnswersMatchCharges
  BY DEF IndInv, Lifecycle, CallInv, AnswersMatchCharges
<1> QED BY <1>1, Inductive, PTL

\* No channel is closed twice, and no cancelled reservation is fulfilled.
THEOREM ClosedCorrect == Spec => []ClosedOnce
<1>1. IndInv => ClosedOnce
  BY DEF IndInv, TypeOK, Lifecycle, CallInv, ClosedOnce
<1> QED BY <1>1, Inductive, PTL

\* A caller that nobody will wake has not been charged.
THEOREM StrandedCorrect == Spec => []StrandedUncharged
<1>1. IndInv => StrandedUncharged
  BY DEF IndInv, TypeOK, Lifecycle, CallInv, StrandedUncharged
<1> QED BY <1>1, Inductive, PTL

-----------------------------------------------------------------------------
(* Until a goroutine takes tokens for a reservation.  The argument is made   *)
(* on Level, the bucket as it would be after a refill: the lazy refill does  *)
(* not change it, a tick raises it by Rate and a grant lowers it by exactly  *)
(* the charge.                                                               *)

LEMMA LevelType ==
    ASSUME TypeOK
    PROVE  Level = Refilled /\ Level \in 0 .. Capacity /\ Capacity \in Nat
BY RefilledBounds, CapacityType DEF Level, Refilled

LEMMA TickLevel ==
    ASSUME TypeOK, Tick
    PROVE  Level' = IF Capacity <= Level + Rate THEN Capacity ELSE Level + Rate
<1> DEFINE acc == Rate * (now - lastRefillTime)
<1>1. /\ now \in Nat /\ lastRefillTime \in Nat /\ lastRefillTime <= now
      /\ availableTokens \in Nat /\ Capacity \in Nat
      /\ Rate \in Nat
  BY CapacityType, BucketAssumption DEF TypeOK
<1>2. acc \in Nat
  BY <1>1, RateTimes
<1>3. Rate * (now' - lastRefillTime') = acc + Rate
  <2>1. now' - lastRefillTime' = (now - lastRefillTime) + 1 /\ now - lastRefillTime \in Nat
    BY <1>1 DEF Tick, bucketVars
  <2> QED BY <2>1, RateOne
<1>4. Level' = IF Capacity <= availableTokens + (acc + Rate) THEN Capacity ELSE availableTokens + (acc + Rate)
  BY <1>3 DEF Level, Tick, bucketVars, Capacity
<1>5. Level = IF Capacity <= availableTokens + acc THEN Capacity ELSE availableTokens + acc
  BY DEF Level
<1> HIDE DEF acc
<1> QED BY <1>1, <1>2, <1>4, <1>5

LEMMA TakeLevel ==
    ASSUME TypeOK, NEW n \in Nat, n <= Refilled, RefillAndTake(n), now' = now
    PROVE  Level' = Level - n
<1>1. availableTokens' = Level - n /\ lastRefillTime' = now /\ Level \in 0 .. Capacity /\ Capacity \in Nat
  BY LevelType DEF RefillAndTake
<1>2. Rate * (now' - lastRefillTime') = 0
  BY <1>1, BucketAssumption DEF TypeOK
<1>3. n <= Level
  BY LevelType
<1>4. Level' = IF Capacity <= availableTokens' + 0 THEN Capacity ELSE availableTokens' + 0
  BY <1>2 DEF Level, Capacity
<1>5. availableTokens' \in Nat /\ availableTokens' = Level - n
  BY <1>1, <1>3
<1> QED BY <1>1, <1>3, <1>4, <1>5

\* What a goroutine has taken stays taken.
LEMMA LateStays ==
    ASSUME IndInv, [Next]_vars, NoLateCharge'
    PROVE  NoLateCharge
<1> SUFFICES ASSUME NEW d \in Calls, sleeper[d] # "none" PROVE charged[d] = 0
  BY DEF NoLateCharge
<1> USE DEF IndInv
<1>0. /\ charged \in [Calls -> Nat] /\ sleeper \in [Calls -> {"none", "sleeping", "notifying", "gone"}]
      /\ pc[d] \notin {"idle", "reserve"}
  BY DEF TypeOK, Lifecycle, CallInv
<1>1. SUFFICES \/ sleeper'[d] # "none" /\ charged'[d] = charged[d]
               \/ sleeper[d] = "sleeping"
  BY DEF NoLateCharge, Lifecycle, CallInv
<1>2. ASSUME NEW c \in Calls, Entry(c) PROVE sleeper'[d] # "none" /\ charged'[d] = charged[d]
  <2>1. c # d
    BY <1>0, <1>2 DEF Entry, AllowN, WaitN, ReserveN
  <2>2. PICK n \in Costs : AllowN(c, n) \/ WaitN(c, n) \/ ReserveN(c, n)
    BY <1>2 DEF Entry
  <2>3. charged'[d] = charged[d]
    BY <1>0, <2>1, <2>2 DEF AllowN, WaitN, ReserveN, RejectCost, Grant, TooFew, ReserveNow, ReserveLater,
                            Charge, accountVars
  <2>4. sleeper'[d] = sleeper[d]
    BY <1>0, <2>1, <2>2 DEF AllowN, WaitN, ReserveN, ReserveNow, ReserveLater, reservationVars
  <2> QED BY <2>3, <2>4
<1>3. ASSUME NEW c \in Calls, OnReservation(c)
      PROVE  \/ sleeper'[d] # "none" /\ charged'[d] = charged[d]
             \/ sleeper[d] = "sleeping"
  <2>1. CASE Fire(c)
    BY <1>0, <2>1 DEF Fire, Charge, accountVars
  <2>2. CASE Notify(c)
    BY <1>0, <2>2 DEF Notify, accountVars
  <2>3. CASE WaitCheck(c) \/ WaitLookup(c) \/ WaitCancelled(c) \/ WaitFulfilled(c) \/ CancelAt(c)
    BY <2>3 DEF WaitCheck, WaitLookup, WaitCancelled, WaitFulfilled, CancelAt, reservationVars, accountVars
  <2> QED BY <1>3, <2>1, <2>2, <2>3 DEF OnReservation
<1>4. CASE Tick \/ Observe \/ GetTokensAvailableN \/ UNCHANGED vars
  BY <1>4 DEF Tick, Observe, GetTokensAvailableN, vars, reservationVars, accountVars
<1> QED BY <1>2, <1>3, <1>4 DEF Next

\* The effect on Level and on what was spent of every step after which still no
\* goroutine has taken tokens.
PromptEffect ==
    \/ Tick /\ Level' = IF Capacity <= Level + Rate THEN Capacity ELSE Level + Rate
    \/ Observe /\ Level' = Level
    \/ /\ now' = now /\ UNCHANGED windowVars
       /\ \E n \in Nat :
            /\ n <= Level
            /\ Level' = Level - n
            /\ spent' = spent + n

\* A step that leaves the bucket and the account alone.
LEMMA IdleStep ==
    ASSUME IndInv, UNCHANGED <<now, bucketVars, spent, windowVars>>
    PROVE  PromptEffect
<1>1. Level \in Nat /\ spent \in Nat
  BY LevelType DEF IndInv, TypeOK
<1>2. Level' = Level - 0 /\ spent' = spent + 0 /\ 0 <= Level
  BY <1>1 DEF Level, bucketVars, Capacity
<1> QED BY <1>2 DEF PromptEffect

\* A refill, with or without a grant of n in the same critical section.
LEMMA TakeStep ==
    ASSUME IndInv, NEW n \in Nat, n <= Refilled, RefillAndTake(n), spent' = spent + n,
           UNCHANGED <<now, windowVars>>
    PROVE  PromptEffect
<1>1. Level' = Level - n /\ n <= Level
  BY TakeLevel, LevelType DEF IndInv
<1> QED BY <1>1 DEF PromptEffect

\* A refill that takes nothing.
LEMMA RefillStep ==
    ASSUME IndInv, RefillAndTake(0), UNCHANGED <<now, spent, windowVars>>
    PROVE  PromptEffect
<1>1. 0 <= Refilled /\ spent' = spent + 0
  BY RefilledBounds, CapacityType DEF IndInv, TypeOK
<1> QED BY <1>1, TakeStep

LEMMA PromptStep ==
    ASSUME IndInv, [Next]_vars, NoLateCharge'
    PROVE  PromptEffect
<1>1. CASE Tick
  BY <1>1, TickLevel DEF PromptEffect, IndInv
<1>2. CASE Observe
  BY <1>2 DEF PromptEffect, Observe, Level, bucketVars, Capacity
<1>3. CASE GetTokensAvailableN
  BY <1>3, RefillStep DEF GetTokensAvailableN, accountVars
<1>4. ASSUME NEW c \in Calls, Entry(c) PROVE PromptEffect
  <2>1. PICK n \in Costs : AllowN(c, n) \/ WaitN(c, n) \/ ReserveN(c, n)
    BY <1>4 DEF Entry
  <2>2. UNCHANGED <<now, windowVars>>
    BY <2>1 DEF AllowN, WaitN, ReserveN
  <2>3. \/ RejectCost(c, n)
        \/ Grant(c, n) \/ ReserveNow(c, n)
        \/ TooFew(n) \/ ReserveLater(c, n)
    BY <2>1 DEF AllowN, WaitN, ReserveN
  <2>4. CASE RejectCost(c, n)
    BY <2>2, <2>4, IdleStep DEF RejectCost, accountVars
  <2>5. CASE Grant(c, n) \/ ReserveNow(c, n)
    <3>1. /\ n > 0 /\ Refilled >= Price(n) /\ RefillAndTake(Price(n)) /\ spent' = spent + Price(n)
      BY <2>5 DEF Grant, ReserveNow, Charge
    <3>2. Price(n) \in Nat /\ Price(n) <= Refilled
      BY <3>1, PriceType, RefilledBounds, CapacityType, BucketAssumption DEF IndInv
    <3> QED BY <2>2, <3>1, <3>2, TakeStep
  <2>6. CASE TooFew(n) \/ ReserveLater(c, n)
    <3>1. RefillAndTake(0) /\ UNCHANGED accountVars
      BY <2>6 DEF TooFew, ReserveLater
    <3> QED BY <2>2, <3>1, RefillStep DEF accountVars
  <2> QED BY <2>3, <2>4, <2>5, <2>6
<1>5. ASSUME NEW c \in Calls, OnReservation(c) PROVE PromptEffect
  <2>1. CASE Fire(c)
    <3>1. tokens[c] > 0 /\ tokens[c] \in Int /\ charged[c] = 0 /\ charged \in [Calls -> Nat]
      BY <2>1 DEF IndInv, Lifecycle, CallInv, TypeOK, Fire
    <3>2. ~(Charge(c, tokens[c]) /\ sleeper' = [sleeper EXCEPT ![c] = "notifying"])
      <4> SUFFICES ASSUME Charge(c, tokens[c]), sleeper' = [sleeper EXCEPT ![c] = "notifying"]
                   PROVE  FALSE
        OBVIOUS
      <4>1. Price(tokens[c]) \in Int /\ Price(tokens[c]) > 0
        BY <3>1, PriceType
      <4>2. charged'[c] = Price(tokens[c])
        BY <3>1, <4>1 DEF Charge
      <4>3. sleeper'[c] # "none"
        BY DEF IndInv, TypeOK
      <4> QED BY <4>1, <4>2, <4>3 DEF NoLateCharge
    <3>3. UNCHANGED <<now, bucketVars, spent, windowVars>>
      BY <2>1, <3>2 DEF Fire, bucketVars, accountVars, windowVars
    <3> QED BY <3>3, IdleStep
  <2>2. CASE Notify(c)
    BY <2>2, IdleStep DEF Notify, accountVars
  <2>3. CASE WaitCheck(c) \/ WaitLookup(c) \/ WaitCancelled(c) \/ WaitFulfilled(c) \/ CancelAt(c)
    BY <2>3, IdleStep DEF WaitCheck, WaitLookup, WaitCancelled, WaitFulfilled, CancelAt, accountVars
  <2> QED BY <1>5, <2>1, <2>2, <2>3 DEF OnReservation
<1>6. CASE UNCHANGED vars
  BY <1>6, IdleStep DEF vars, accountVars
<1> QED BY <1>1, <1>2, <1>3, <1>4, <1>5, <1>6 DEF Next

\* What the window has left to grant: the level now is part of it.
WindowCredit == Level + (spent - winBase) <= Capacity + Rate * (now - winStart)

LEMMA WindowStep ==
    ASSUME IndInv, WindowCredit, [Next]_vars, NoLateCharge'
    PROVE  WindowCredit'
<1>0. /\ now \in Nat /\ winStart \in Nat /\ winStart <= now
      /\ spent \in Nat /\ winBase \in Nat
      /\ Level \in Nat /\ Level <= Capacity /\ Capacity \in Nat /\ Capacity' = Capacity
      /\ Rate \in Nat
  BY LevelType, BucketAssumption DEF IndInv, TypeOK, Capacity
<1> DEFINE gain == Rate * (now - winStart)
<1>1. gain \in Nat
  BY <1>0, RateTimes
<1>2. CASE Tick /\ Level' = IF Capacity <= Level + Rate THEN Capacity ELSE Level + Rate
  <2>1. Rate * (now' - winStart') = gain + Rate
    <3>1. now' - winStart' = (now - winStart) + 1 /\ now - winStart \in Nat
      BY <1>0, <1>2 DEF Tick, windowVars
    <3> QED BY <3>1, RateOne
  <2>2. Level' <= Level + Rate /\ Level' \in Nat
    BY <1>0, <1>2
  <2>3. spent' = spent /\ winBase' = winBase
    BY <1>2 DEF Tick, accountVars, windowVars
  <2>4. Level + (spent - winBase) <= Capacity + gain
    BY DEF WindowCredit
  <2>5. Level' + (spent' - winBase') <= Capacity + (gain + Rate)
    <3>1. ASSUME NEW l \in Nat, NEW m \in Nat, NEW s \in Int, NEW k \in Nat, NEW g \in Nat,
                 l + s <= k + g, m <= l + Rate
          PROVE  m + s <= k + (g + Rate)
      BY <1>0, <3>1
    <3>2. spent - winBase \in Int
      BY <1>0
    <3> HIDE DEF gain
    <3> QED BY <1>0, <1>1, <2>2, <2>3, <2>4, <3>1, <3>2
  <2> QED BY <1>0, <2>1, <2>5 DEF WindowCredit
<1>3. CASE Observe /\ Level' = Level
  <2>1. now' - winStart' = 0 /\ spent' - winBase' = 0
    BY <1>0, <1>3 DEF Observe, accountVars
  <2>2. Rate * (now' - winStart') = 0
    BY <2>1, BucketAssumption
  <2>3. Level' + 0 <= Capacity + 0
    BY <1>0, <1>3
  <2> QED BY <1>0, <2>1, <2>2, <2>3 DEF WindowCredit
<1>4. ASSUME now' = now, UNCHANGED windowVars,
             NEW n \in Nat, n <= Level, Level' = Level - n, spent' = spent + n
      PROVE  WindowCredit'
  <2>1. Level' + (spent' - winBase') = Level + (spent - winBase)
    BY <1>0, <1>4 DEF windowVars
  <2> QED BY <1>0, <1>4, <2>1 DEF WindowCredit, windowVars
<1> QED BY <1>2, <1>3, <1>4, PromptStep DEF PromptEffect

\* In every window of time the bucket grants at most one burst of BucketSize
\* plus the refill of the window, until a goroutine takes tokens from a bucket
\* that it has not refilled (line 190).
THEOREM WindowBounded == Spec => []WindowBound
<1> DEFINE Safe == NoLateCharge => WindowCredit
<1>1. Init => Safe
  <2> SUFFICES ASSUME Init PROVE WindowCredit
    OBVIOUS
  <2>1. Capacity \in Nat /\ Rate * (now - winStart) = 0 /\ Rate * (now - lastRefillTime) = 0
    BY CapacityType, BucketAssumption DEF Init
  <2> QED BY <2>1 DEF Init, WindowCredit, Level
<1>2. IndInv /\ Safe => WindowBound
  <2> SUFFICES ASSUME IndInv, WindowCredit PROVE spent - winBase <= Capacity + Rate * (now - winStart)
    BY DEF WindowBound
  <2>1. spent \in Nat /\ winBase \in Nat /\ Level \in Nat /\ Capacity \in Nat
    BY LevelType DEF IndInv, TypeOK
  <2>2. now \in Nat /\ winStart \in Nat /\ winStart <= now
    BY DEF IndInv, TypeOK
  <2>3. Rate * (now - winStart) \in Nat
    BY <2>2, RateTimes
  <2> QED BY <2>1, <2>3 DEF WindowCredit
<1>3. IndInv /\ Safe /\ [Next]_vars => Safe'
  BY LateStays, WindowStep
<1> HIDE DEF Safe
<1> QED BY <1>1, <1>2, <1>3, Inductive, PTL DEF Spec

\* The lazily refilled bucket implements the eager one, until a goroutine takes
\* tokens: a tick is a Refill, a grant is a Spend of what was granted, and
\* everything else is a stutter.
THEOREM Refinement == Spec => ImplementsRateLimit
<1> DEFINE Step == NoLateCharge' =>
                     /\ [RL!Next]_Level
                     /\ spent' # spent => RL!Spend(spent' - spent)
<1>1. Init => RL!Init
  <2> SUFFICES ASSUME Init PROVE Level = Capacity
    BY DEF RL!Init
  <2>1. Capacity \in Nat /\ Rate * (now - lastRefillTime) = 0
    BY CapacityType, BucketAssumption DEF Init
  <2> QED BY <2>1 DEF Init, Level
<1>2. ASSUME IndInv, [Next]_vars, NoLateCharge' PROVE [RL!Next]_Level
  <2>0. Level \in Nat /\ Level <= Capacity /\ Capacity \in Nat
    BY <1>2, LevelType DEF IndInv
  <2>1. CASE Tick /\ Level' = IF Capacity <= Level + Rate THEN Capacity ELSE Level + Rate
    BY <2>1 DEF RL!Next, RL!Refill, RL!Lesser
  <2>2. CASE Observe /\ Level' = Level
    BY <2>2
  <2>3. ASSUME NEW n \in Nat, n <= Level, Level' = Level - n
        PROVE  RL!Next \/ Level' = Level
    <3>1. CASE n = 0
      BY <2>0, <2>3, <3>1
    <3>2. CASE n # 0
      <4>1. n \in 1 .. Capacity
        BY <2>0, <2>3, <3>2
      <4>2. RL!Spend(n)
        BY <2>3 DEF RL!Spend
      <4> QED BY <4>1, <4>2 DEF RL!Next
    <3> QED BY <3>1, <3>2
  <2> QED BY <1>2, <2>1, <2>2, <2>3, PromptStep DEF PromptEffect
<1>3. ASSUME IndInv, [Next]_vars, NoLateCharge', spent' # spent PROVE RL!Spend(spent' - spent)
  <2>1. PICK n \in Nat : n <= Level /\ Level' = Level - n /\ spent' = spent + n
    BY <1>3, PromptStep DEF PromptEffect, Tick, Observe, accountVars
  <2>2. spent' - spent = n
    BY <1>3, <2>1 DEF IndInv, TypeOK
  <2> QED BY <2>1, <2>2 DEF RL!Spend
<1>4. IndInv /\ [Next]_vars => [Step]_vars
  BY <1>2, <1>3
<1> QED BY <1>1, <1>4, Inductive, PTL DEF Spec, ImplementsRateLimit
=============================================================================
