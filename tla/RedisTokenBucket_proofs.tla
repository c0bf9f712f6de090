----------------------- MODULE RedisTokenBucket_proofs -----------------------
(***************************************************************************)
(* Proofs about RedisTokenBucket, for every set of calls, every bucket,    *)
(* rate and cost, and every disagreement of the clocks.                    *)
(***************************************************************************)
EXTENDS RedisTokenBucket, TLAPS

-----------------------------------------------------------------------------
(* Arithmetic.  Products are kept behind names; these are the only facts   *)
(* about them that the proofs use.                                         *)

LEMMA PriceType ==
    ASSUME NEW n \in Int
    PROVE  /\ Price(n) \in Int
           /\ n >= 0 => Price(n) \in Nat
           /\ n > 0 => Price(n) > 0
BY RedisBucketAssumption DEF Price

LEMMA RateTimes ==
    ASSUME NEW a \in Int, NEW b \in Int
    PROVE  /\ Rate * a \in Int
           /\ Rate * b \in Int
           /\ Rate * (a - b) = Rate * a - Rate * b
           /\ Rate * (a + b) = Rate * a + Rate * b
           /\ a <= b => Rate * a <= Rate * b
<1>1. Rate \in Nat
  BY RedisBucketAssumption
<1>2. a <= b => Rate * a <= Rate * b
  <2>1. Rate * (b - a) = Rate * b - Rate * a
    BY <1>1
  <2>2. a <= b => b - a \in Nat
    OBVIOUS
  <2>3. a <= b => Rate * (b - a) \in Nat
    BY <1>1, <2>2
  <2> QED BY <1>1, <2>1, <2>3
<1> QED BY <1>1, <1>2

LEMMA RateOne ==
    ASSUME NEW a \in Int
    PROVE  Rate * (a + 1) = Rate * a + Rate
BY RedisBucketAssumption

LEMMA Constants ==
    /\ Capacity \in Nat
    /\ Rate \in Nat
    /\ Ahead \in Nat /\ Lag \in Nat
    /\ Rate * Ahead \in Nat /\ Rate * Lag \in Nat
    /\ Skew = Rate * Ahead + Rate * Lag
    /\ Skew \in Nat
    /\ Expiry \in Nat /\ Expiry > 0
    /\ Rate * Expiry \in Nat /\ Rate * Expiry >= Capacity + Skew
<1>1. Capacity \in Nat /\ Rate \in Nat /\ Ahead \in Nat /\ Lag \in Nat
  BY RedisBucketAssumption DEF Capacity
<1>2. Rate * Ahead \in Nat /\ Rate * Lag \in Nat
  BY <1>1
<1>3. Skew = Rate * Ahead + Rate * Lag
  BY <1>1, RateTimes DEF Skew
<1>4. Expiry \in Nat /\ Expiry > 0 /\ Rate * Expiry >= Capacity + Skew
  BY ExpiryAssumption
<1>5. Rate * Expiry \in Nat
  BY <1>1, <1>4
<1> QED BY <1>1, <1>2, <1>3, <1>4, <1>5

LEMMA WaitTimeType ==
    ASSUME NEW x \in Int, x < 0
    PROVE  -(x \div Rate) \in Nat
BY RedisBucketAssumption

\* What one more lost reply adds to the amount a call may have paid in vain.
LEMMA DueStep ==
    ASSUME NEW p \in Int, NEW k \in Nat
    PROVE  /\ p * k \in Int
           /\ p * (k + 1) = p * k + p
           /\ p * 0 = 0
OBVIOUS

\* A script in numbers.  w is what the keys are worth at Redis's time, d how far
\* the caller's clock is ahead in tokens, a and l the most it can be ahead and
\* behind, r what the script finds, n what it takes, f the reference bucket.
LEMMA ScriptArithmetic ==
    ASSUME NEW C \in Nat, NEW a \in Nat, NEW l \in Nat,
           NEW w \in Int, NEW d \in Int, NEW f \in Int, NEW r \in Int, NEW n \in Nat,
           NEW live \in BOOLEAN,
           0 - l <= d, d <= a,
           live => w + a >= 0 /\ f <= w - l,
           f <= C - (a + l),
           r = IF live THEN (IF C <= w + d THEN C ELSE w + d) ELSE C,
           n = 0 \/ n <= r,
           NEW before \in Int, NEW after \in Int,
           before = IF live THEN (IF C + (a + l) <= w + a THEN C + (a + l) ELSE w + a)
                    ELSE C + (a + l),
           after = IF C + (a + l) <= ((r - n) - d) + a THEN C + (a + l) ELSE ((r - n) - d) + a
    PROVE  /\ r - n <= C
           /\ ((r - n) - d) + a >= 0
           /\ f - n <= ((r - n) - d) - l
           /\ 0 <= after
           /\ n <= before - after
           /\ \A p \in Int : r < p => f < p
<1>1. CASE live
  BY <1>1
<1>2. CASE ~live
  BY <1>2
<1> QED BY <1>1, <1>2

-----------------------------------------------------------------------------
(* The inductive invariant.                                                *)

\* When the keys were written last.
Last == expireAt - Expiry

\* What is known of the keys: who wrote them was not further off than the clocks
\* can be, at that time they were worth something to an instance as far ahead
\* as can be, and they are worth more than the reference bucket to one as far
\* behind as can be.
KeyInv ==
    /\ KeysLive =>
         /\ Last <= now
         /\ Last - Lag <= timestamp /\ timestamp <= Last + Ahead
         /\ bucket + Rate * ((Last + Ahead) - timestamp) >= 0
         /\ floor <= Worth - Rate * Lag
    /\ floor <= Capacity - Skew

\* A command that is sent again is not too old.
StampInv == \A c \in retrying : now - Lag <= stamp[c] /\ stamp[c] <= now + Ahead

Commands == {"allow", "waitAllow", "reserve", "waitReserve", "available"}
Holding == {"holding", "wait", "lookup", "select"}

\* What is known of a call from where its client and its goroutine are.
Control(c) ==
    /\ pc[c] \in Commands \cup {"idle"} =>
         sleeper[c] = "none" /\ ok[c] /\ c \notin waiters /\ c \notin closed
    /\ pc[c] = "idle" => charged[c] = 0 /\ lost[c] = 0
    /\ pc[c] \in Commands => tokens[c] >= 0
    /\ pc[c] \in Commands \ {"available"} => tokens[c] > 0
    /\ pc[c] \in Holding => tokens[c] > 0
    /\ sleeper[c] # "none" => tokens[c] > 0 /\ ret[c] \notin {"allowed", "denied", "invalid"}
    /\ pc[c] # "done" => ret[c] = "none"
    /\ sleeper[c] \in {"none", "sleeping"} => verdict[c] = "none"
    /\ c \in waiters => ok[c] /\ sleeper[c] # "none"
                        /\ (sleeper[c] \in {"sleeping", "notifying"} \/ verdict[c] = "failed")
    /\ c \in closed => c \notin waiters /\ ok[c] /\ sleeper[c] = "gone"
    /\ pc[c] = "select" => c \in waiters \/ c \in closed

\* What a call has paid.
Payment(c) ==
    /\ ret[c] # "invalid" => charged[c] <= Price(tokens[c]) * (lost[c] + 1)
    /\ pc[c] \in Commands \/ sleeper[c] = "sleeping" => charged[c] <= Price(tokens[c]) * lost[c]
    /\ ret[c] = "denied" => charged[c] <= Price(tokens[c]) * lost[c]
    /\ ret[c] = "allowed" => charged[c] >= Price(tokens[c])
    /\ ret[c] = "invalid" => charged[c] = 0

IndInv ==
    /\ TypeOK
    /\ KeyInv
    /\ StampInv
    /\ \A c \in Calls : Control(c)
    /\ \A c \in Calls : Payment(c)

LEMMA InitInd == Init => IndInv
<1> SUFFICES ASSUME Init PROVE IndInv
  OBVIOUS
<1>1. TypeOK
  BY Constants, RedisBucketAssumption DEF Init, TypeOK, PCs, Returns
<1>2. KeyInv /\ StampInv
  BY Constants DEF Init, KeyInv, KeysLive, StampInv
<1>3. ASSUME NEW c \in Calls PROVE Control(c)
  BY DEF Init, Control, Commands, Holding
<1>4. ASSUME NEW c \in Calls PROVE Payment(c)
  <2>1. Price(0) * 0 = 0 /\ Price(0) * (0 + 1) = 0
    BY RedisBucketAssumption DEF Price
  <2> QED BY <2>1 DEF Init, Payment, Commands, Holding
<1> QED BY <1>1, <1>2, <1>3, <1>4 DEF IndInv

-----------------------------------------------------------------------------
(* What a script does to the keys.                                         *)

LEMMA StampRange ==
    ASSUME IndInv, NEW c \in Calls, NEW t \in Stamps(c)
    PROVE  t \in Int /\ now - Lag <= t /\ t <= now + Ahead
<1>1. now \in Int /\ Lag \in Int /\ Ahead \in Int /\ stamp \in [Calls -> Int]
  BY Constants DEF IndInv, TypeOK
<1>2. CASE c \in retrying
  BY <1>1, <1>2 DEF IndInv, StampInv, Stamps
<1>3. CASE c \notin retrying
  BY <1>1, <1>3 DEF Stamps, Readings
<1> QED BY <1>2, <1>3

\* The keys are worth something to an instance as far ahead as can be.
LEMMA WorthBound ==
    ASSUME TypeOK, KeyInv, KeysLive
    PROVE  /\ Worth \in Int
           /\ Worth + Rate * Ahead >= Rate * (now - Last)
           /\ Rate * (now - Last) >= 0
           /\ bucket >= 0 - Skew
<1>1. /\ now \in Int /\ timestamp \in Int /\ bucket \in Int /\ Last \in Int
      /\ Ahead \in Int /\ Lag \in Int
      /\ Rate * Ahead \in Int /\ Rate * Lag \in Int
      /\ Last <= now /\ Last - Lag <= timestamp
  BY Constants DEF TypeOK, KeyInv, Last
<1>2. /\ Rate * (now - timestamp) = Rate * now - Rate * timestamp
      /\ Rate * (now - Last) = Rate * now - Rate * Last
      /\ Rate * ((Last + Ahead) - timestamp) = Rate * (Last + Ahead) - Rate * timestamp
      /\ Rate * (Last + Ahead) = Rate * Last + Rate * Ahead
      /\ Rate * now \in Int /\ Rate * timestamp \in Int /\ Rate * Last \in Int
      /\ Rate * Last <= Rate * now
      /\ Rate * (Last - Lag) = Rate * Last - Rate * Lag
      /\ Rate * (Last - Lag) <= Rate * timestamp
  <2>1. Last + Ahead \in Int /\ Last - Lag \in Int
    BY <1>1
  <2>2. Rate * Last <= Rate * now
    BY <1>1, RateTimes
  <2>3. Rate * (Last - Lag) <= Rate * timestamp
    BY <1>1, <2>1, RateTimes
  <2>4. Rate * (now - timestamp) = Rate * now - Rate * timestamp
    BY <1>1, RateTimes
  <2>5. Rate * (now - Last) = Rate * now - Rate * Last /\ Rate * now \in Int /\ Rate * Last \in Int
    BY <1>1, RateTimes
  <2>6. Rate * ((Last + Ahead) - timestamp) = Rate * (Last + Ahead) - Rate * timestamp /\ Rate * timestamp \in Int
    BY <1>1, <2>1, RateTimes
  <2>7. Rate * (Last + Ahead) = Rate * Last + Rate * Ahead
    BY <1>1, RateTimes
  <2>8. Rate * (Last - Lag) = Rate * Last - Rate * Lag
    BY <1>1, RateTimes
  <2> QED BY <2>2, <2>3, <2>4, <2>5, <2>6, <2>7, <2>8
<1>3. bucket + Rate * ((Last + Ahead) - timestamp) >= 0
  BY DEF KeyInv
<1>4. Worth = bucket + Rate * (now - timestamp)
  BY DEF Worth
<1>5. Skew = Rate * Ahead + Rate * Lag
  BY Constants
<1> DEFINE rn == Rate * now  rt == Rate * timestamp  rl == Rate * Last
           ra == Rate * Ahead  rg == Rate * Lag
<1>6. /\ rn \in Int /\ rt \in Int /\ rl \in Int /\ ra \in Int /\ rg \in Int
      /\ bucket + ((rl + ra) - rt) >= 0
      /\ Worth = bucket + (rn - rt)
      /\ rl <= rn /\ rl - rg <= rt
      /\ Skew = ra + rg
      /\ Rate * (now - Last) = rn - rl
  BY <1>1, <1>2, <1>3, <1>4, <1>5
<1> HIDE DEF rn, rt, rl, ra, rg
<1>7. /\ Worth \in Int /\ Worth + ra >= rn - rl /\ rn - rl >= 0 /\ bucket >= 0 - Skew
  BY <1>1, <1>6
<1> QED BY <1>6, <1>7 DEF ra

\* The effect of a script at time t for call c.
ScriptEffect(c, t) ==
    /\ bucket' \in Int /\ bucket' <= Capacity
    /\ timestamp' \in Int /\ expireAt' \in Nat /\ floor' \in Int
    /\ Refilled(t) \in Int
    /\ KeyInv'
    /\ Level' \in Nat /\ Level' <= Level
    /\ \/ /\ Enough(t, tokens[c])
          /\ charged' = [charged EXCEPT ![c] = @ + Price(tokens[c])]
          /\ Price(tokens[c]) <= Level - Level'
       \/ /\ ~Enough(t, tokens[c])
          /\ charged' = charged
          /\ floor < Price(tokens[c])

LEMMA LevelType ==
    ASSUME TypeOK, KeyInv
    PROVE  Level \in Nat /\ Level <= Capacity + Skew
<1>1. CASE KeysLive
  <2>1. Worth + Rate * Ahead \in Nat
    BY <1>1, WorthBound, Constants DEF KeyInv, TypeOK, Last
  <2> QED BY <1>1, <2>1, Constants DEF Level, Lesser
<1>2. CASE ~KeysLive
  BY <1>2, Constants DEF Level
<1> QED BY <1>1, <1>2

LEMMA KeysEffect ==
    ASSUME TypeOK, KeyInv, NEW t \in Int, now - Lag <= t, t <= now + Ahead,
           NEW n \in Nat, n = 0 \/ n <= Refilled(t),
           SetKeys(t, n), now' = now, floor' = floor - n
    PROVE  /\ bucket' \in Int /\ bucket' <= Capacity
           /\ timestamp' \in Int /\ expireAt' \in Nat /\ floor' \in Int
           /\ Refilled(t) \in Int
           /\ KeyInv'
           /\ Level' \in Nat /\ Level' <= Level /\ n <= Level - Level'
           /\ \A p \in Int : Refilled(t) < p => floor < p
<1> DEFINE w == Worth  d == Rate * (t - now)  a == Rate * Ahead  l == Rate * Lag
           r == Refilled(t)
<1>1. /\ now \in Int /\ timestamp \in Int /\ bucket \in Int /\ floor \in Int /\ expireAt \in Int
      /\ Ahead \in Int /\ Lag \in Int
      /\ a \in Nat /\ l \in Nat /\ Capacity \in Nat /\ Skew = a + l
  BY Constants DEF TypeOK
<1>2. d \in Int /\ 0 - l <= d /\ d <= a
  <2>1. t - now \in Int /\ 0 - Lag \in Int /\ 0 - Lag <= t - now /\ t - now <= Ahead
    BY <1>1
  <2>2. Rate * (0 - Lag) <= d /\ d <= a /\ d \in Int
    BY <1>1, <2>1, RateTimes
  <2>3. Rate * (0 - Lag) = Rate * 0 - Rate * Lag /\ Rate * 0 = 0
    BY <1>1, RateTimes, Constants
  <2> QED BY <1>1, <2>2, <2>3
<1>3. w \in Int /\ Rate * (t - timestamp) = d + Rate * (now - timestamp) /\ Rate * (now - t) = 0 - d
  <2>1. /\ Rate * (t - timestamp) = Rate * t - Rate * timestamp
        /\ Rate * (now - timestamp) = Rate * now - Rate * timestamp
        /\ Rate * (t - now) = Rate * t - Rate * now
        /\ Rate * (now - t) = Rate * now - Rate * t
        /\ Rate * t \in Int /\ Rate * now \in Int /\ Rate * timestamp \in Int
    BY <1>1, RateTimes
  <2> QED BY <1>1, <2>1 DEF Worth
<1>4. r = IF KeysLive THEN (IF Capacity <= w + d THEN Capacity ELSE w + d) ELSE Capacity
  <2>1. bucket + Rate * (t - timestamp) = w + d
    <3>1. Rate * (now - timestamp) \in Int
      BY <1>1, RateTimes
    <3> QED BY <1>1, <1>2, <1>3, <3>1 DEF Worth
  <2> QED BY <2>1 DEF Refilled, Lesser
<1>5. r \in Int
  BY <1>1, <1>2, <1>3, <1>4
<1>6. /\ KeysLive => w + a >= 0 /\ floor <= w - l
      /\ floor <= Capacity - (a + l)
  <2>1. KeysLive => w + a >= 0
    <3> SUFFICES ASSUME KeysLive PROVE w + a >= 0
      OBVIOUS
    <3>1. w + a >= Rate * (now - Last) /\ Rate * (now - Last) >= 0
      BY WorthBound
    <3>2. Rate * (now - Last) \in Int
      BY <1>1, Constants, RateTimes DEF Last
    <3> QED BY <1>1, <1>3, <3>1, <3>2
  <2> QED BY <1>1, <2>1 DEF KeyInv
<1>7. /\ bucket' = r - n /\ timestamp' = t /\ expireAt' = now + Expiry
      /\ Capacity' = Capacity /\ Skew' = Skew
  BY DEF SetKeys, Capacity, Skew
<1>8. KeysLive' /\ Last' = now /\ expireAt' \in Nat
  BY <1>7, Constants DEF KeysLive, Last, TypeOK
<1>9. Worth' = (r - n) - d
  <2>1. Worth' = (r - n) + Rate * (now - t)
    BY <1>7 DEF Worth
  <2> QED BY <1>2, <1>3, <1>5, <2>1
<1> DEFINE before == Level  after == Level'
<1>10. before = IF KeysLive THEN (IF Capacity + (a + l) <= w + a THEN Capacity + (a + l) ELSE w + a)
                ELSE Capacity + (a + l)
  BY <1>1 DEF Level, Lesser
<1>11. after = IF Capacity + (a + l) <= ((r - n) - d) + a THEN Capacity + (a + l) ELSE ((r - n) - d) + a
  BY <1>1, <1>7, <1>8, <1>9 DEF Level, Lesser
<1>12. before \in Int /\ after \in Int
  BY <1>1, <1>2, <1>3, <1>5, <1>10, <1>11
<1>13. KeysLive \in BOOLEAN
  BY DEF KeysLive
<1>14. n = 0 \/ n <= r
  OBVIOUS
<1> HIDE DEF w, d, a, l, r, before, after
<1>15. /\ r - n <= Capacity
       /\ ((r - n) - d) + a >= 0
       /\ floor - n <= ((r - n) - d) - l
       /\ 0 <= after
       /\ n <= before - after
       /\ \A p \in Int : r < p => floor < p
  BY <1>1, <1>2, <1>3, <1>4, <1>5, <1>6, <1>10, <1>11, <1>12, <1>13, <1>14, ScriptArithmetic
<1>16. KeyInv'
  <2>1. Rate * ((Last' + Ahead) - timestamp') = a - d
    <3>1. (Last' + Ahead) - timestamp' = Ahead - (t - now) /\ t - now \in Int
      BY <1>1, <1>7, <1>8
    <3> QED BY <1>1, <3>1, RateTimes DEF a, d
  <2>2. bucket' + Rate * ((Last' + Ahead) - timestamp') >= 0
    BY <1>1, <1>2, <1>5, <1>7, <1>15, <2>1
  <2>3. Worth' - Rate * Lag = ((r - n) - d) - l
    BY <1>9 DEF l
  <2>4. floor' <= Capacity - Skew
    BY <1>1, <1>6
  <2> QED BY <1>1, <1>7, <1>8, <1>15, <2>2, <2>3, <2>4 DEF KeyInv
<1>17. /\ bucket' \in Int /\ bucket' <= Capacity
       /\ timestamp' \in Int /\ expireAt' \in Nat /\ floor' \in Int
  BY <1>1, <1>5, <1>7, <1>8, <1>15
<1>18. after \in Nat /\ after <= before /\ n <= before - after
  BY <1>12, <1>15
<1>19. r \in Int /\ \A p \in Int : r < p => floor < p
  BY <1>5, <1>15
<1> QED BY <1>16, <1>17, <1>18, <1>19 DEF r, before, after

LEMMA ScriptLemma ==
    ASSUME IndInv, NEW c \in Calls, NEW t \in Stamps(c), tokens[c] >= 0,
           RunScript(c, t), now' = now
    PROVE  ScriptEffect(c, t)
<1>1. t \in Int /\ now - Lag <= t /\ t <= now + Ahead
  BY StampRange
<1>2. tokens[c] \in Int /\ Price(tokens[c]) \in Nat /\ floor \in Int
  BY PriceType DEF IndInv, TypeOK
<1>3. TypeOK /\ KeyInv
  BY DEF IndInv
<1>4. CASE Enough(t, tokens[c])
  <2>1. /\ SetKeys(t, Price(tokens[c]))
        /\ charged' = [charged EXCEPT ![c] = @ + Price(tokens[c])]
        /\ floor' = floor - Price(tokens[c])
    BY <1>4 DEF RunScript
  <2> DEFINE n == Price(tokens[c])
  <2>2. n \in Nat /\ n <= Refilled(t)
    <3>1. Refilled(t) \in Int
      <4>1. timestamp \in Int /\ t - timestamp \in Int /\ bucket \in Int
        BY <1>1, <1>3 DEF TypeOK
      <4>2. Rate * (t - timestamp) \in Int
        BY <4>1, RateTimes
      <4> QED BY <4>1, <4>2, Constants DEF Refilled, Lesser
    <3> QED BY <1>2, <1>4, <3>1 DEF Enough
  <2> HIDE DEF n
  <2>3. /\ bucket' \in Int /\ bucket' <= Capacity
        /\ timestamp' \in Int /\ expireAt' \in Nat /\ floor' \in Int
        /\ Refilled(t) \in Int
        /\ KeyInv'
        /\ Level' \in Nat /\ Level' <= Level /\ n <= Level - Level'
    <3>1. SetKeys(t, n) /\ floor' = floor - n
      BY <2>1 DEF n
    <3> QED BY <1>1, <1>3, <2>2, <3>1, KeysEffect
  <2> QED BY <1>4, <2>1, <2>3 DEF ScriptEffect, n
<1>5. CASE ~Enough(t, tokens[c])
  <2>1. SetKeys(t, 0) /\ charged' = charged /\ floor' = floor - 0
    BY <1>2, <1>5 DEF RunScript
  <2>2. /\ bucket' \in Int /\ bucket' <= Capacity
        /\ timestamp' \in Int /\ expireAt' \in Nat /\ floor' \in Int
        /\ Refilled(t) \in Int
        /\ KeyInv'
        /\ Level' \in Nat /\ Level' <= Level
        /\ \A p \in Int : Refilled(t) < p => floor < p
    BY <1>1, <1>3, <2>1, KeysEffect
  <2>20. /\ Refilled(t) \in Int
         /\ \A p \in Int : Refilled(t) < p => floor < p
    BY <2>2
  <2>3. floor < Price(tokens[c])
    <3>1. Refilled(t) < Price(tokens[c])
      BY <1>2, <1>5, <2>20 DEF Enough
    <3> QED BY <1>2, <2>20, <3>1
  <2> QED BY <1>5, <2>1, <2>2, <2>3 DEF ScriptEffect
<1> QED BY <1>4, <1>5

-----------------------------------------------------------------------------
(* The steps.                                                              *)

\* Steps that leave keys, clock and reference bucket alone.
LEMMA SameKeys ==
    ASSUME KeyInv, UNCHANGED <<now, keyVars, floor>>
    PROVE  KeyInv' /\ Level' = Level
BY DEF KeyInv, KeysLive, Last, Worth, Level, keyVars, Capacity, Skew

LEMMA TickInd ==
    ASSUME IndInv, Tick
    PROVE  /\ IndInv'
           /\ Level' = IF Capacity + Skew <= Level + Rate THEN Capacity + Skew ELSE Level + Rate
<1> USE DEF IndInv
<1>1. /\ now \in Nat /\ now' = now + 1
      /\ bucket \in Int /\ timestamp \in Int /\ expireAt \in Nat /\ floor \in Int
      /\ UNCHANGED <<bucket, timestamp, expireAt, waiters, closed, sleeper, verdict, timeToProcess, ok,
                     tokens, pc, ret, retrying, stamp, repeats, charged, lost>>
      /\ floor' = Lesser(Capacity - Skew, floor + Rate)
  BY DEF Tick, TypeOK, keyVars, reservationVars, clientVars, commandVars
<1>2. floor' \in Int /\ floor' <= Capacity - Skew /\ floor' <= floor + Rate
  BY <1>1, Constants DEF Lesser
<1>3. TypeOK'
  BY <1>1, <1>2 DEF TypeOK, Capacity
<1>4. StampInv'
  <2> SUFFICES ASSUME NEW c \in retrying PROVE (now + 1) - Lag <= stamp[c] /\ stamp[c] <= (now + 1) + Ahead
    BY <1>1 DEF StampInv
  <2>1. now < stamp[c] + Lag /\ stamp[c] <= now + Ahead
    BY DEF Tick, StampInv
  <2>2. stamp[c] \in Int
    BY DEF TypeOK
  <2> QED BY <1>1, <2>1, <2>2, Constants
<1>5. /\ \A c \in Calls : Control(c)'
      /\ \A c \in Calls : Payment(c)'
  BY <1>1 DEF Control, Payment, Price
<1>6. Worth \in Int /\ Worth' = Worth + Rate
  <2>1. Rate * (now' - timestamp') = Rate * (now - timestamp) + Rate
    <3>1. now' - timestamp' = (now - timestamp) + 1 /\ now - timestamp \in Int
      BY <1>1
    <3> QED BY <3>1, RateOne
  <2>2. Rate * (now - timestamp) \in Int
    BY <1>1, RateTimes
  <2> QED BY <1>1, <2>1, <2>2, Constants DEF Worth
<1>7. Last \in Int /\ Last' = Last /\ Capacity' = Capacity /\ Skew' = Skew
  BY <1>1, Constants DEF Last, Capacity, Skew
<1>8. KeysLive' => KeysLive
  BY <1>1 DEF KeysLive
<1>9. KeyInv'
  <2>1. KeysLive' => /\ Last' <= now'
                     /\ Last' - Lag <= timestamp' /\ timestamp' <= Last' + Ahead
                     /\ bucket' + Rate * ((Last' + Ahead) - timestamp') >= 0
    BY <1>1, <1>7, <1>8 DEF KeyInv
  <2>2. KeysLive' => floor' <= Worth' - Rate * Lag
    <3> SUFFICES ASSUME KeysLive' PROVE floor' <= Worth' - Rate * Lag
      OBVIOUS
    <3>1. floor <= Worth - Rate * Lag
      BY <1>8 DEF KeyInv
    <3>2. Rate * Lag \in Int /\ Rate \in Int
      BY Constants
    <3> DEFINE l == Rate * Lag
    <3> HIDE DEF l
    <3>3. floor' <= Worth' - l
      BY <1>1, <1>2, <1>6, <3>1, <3>2 DEF l
    <3> QED BY <3>3 DEF l
  <2> QED BY <1>2, <1>7, <2>1, <2>2 DEF KeyInv
<1> DEFINE burst == Capacity + Skew  top == Worth + Rate * Ahead
<1>10. burst \in Nat /\ top \in Int /\ Rate \in Nat
  BY <1>6, Constants
<1>11. Level = IF KeysLive THEN (IF burst <= top THEN burst ELSE top) ELSE burst
  BY DEF Level, Lesser
<1>12. Level' = IF KeysLive' THEN (IF burst <= top + Rate THEN burst ELSE top + Rate) ELSE burst
  <2>1. Worth' + Rate * Ahead = top + Rate
    BY <1>6, Constants
  <2> QED BY <1>7, <2>1 DEF Level, Lesser
<1>13. KeysLive /\ ~KeysLive' => burst <= top + Rate
  <2> SUFFICES ASSUME KeysLive, ~KeysLive' PROVE burst <= top + Rate
    OBVIOUS
  <2>1. now + 1 = Last + Expiry
    BY <1>1, Constants DEF KeysLive, Last
  <2>2. top >= Rate * (now - Last)
    BY WorthBound
  <2>3. Rate * (now - Last) + Rate = Rate * Expiry /\ Rate * (now - Last) \in Int
    <3>1. now - Last \in Int /\ (now - Last) + 1 = Expiry
      BY <1>1, <1>7, <2>1, Constants
    <3> QED BY <3>1, RateOne, RateTimes
  <2>4. burst <= Rate * Expiry
    BY <1>10, Constants
  <2> HIDE DEF burst, top
  <2> QED BY <1>10, <2>2, <2>3, <2>4, Constants
<1> HIDE DEF burst, top
<1>14. Level' = IF burst <= Level + Rate THEN burst ELSE Level + Rate
  <2>1. CASE KeysLive /\ KeysLive'
    BY <1>10, <1>11, <1>12, <2>1
  <2>2. CASE KeysLive /\ ~KeysLive'
    BY <1>10, <1>11, <1>12, <1>13, <2>2
  <2>3. CASE ~KeysLive
    BY <1>8, <1>10, <1>11, <1>12, <2>3
  <2> QED BY <2>1, <2>2, <2>3
<1> QED BY <1>3, <1>4, <1>5, <1>9, <1>14 DEF burst

\* AllowN, WaitN, ReserveN and GetTokensAvailableN up to their first command.
LEMMA EntryInd ==
    ASSUME IndInv, NEW c \in Calls, Entry(c)
    PROVE  IndInv' /\ Level' = Level /\ charged' = charged
<1> USE DEF IndInv
<1>0. PICK n \in Int, label \in Commands :
        /\ pc[c] = "idle"
        /\ tokens' = [tokens EXCEPT ![c] = n]
        /\ \/ n <= 0 /\ Return(c, "invalid")
           \/ n >= 0 /\ (label # "available" => n > 0) /\ Goto(c, label)
        /\ UNCHANGED <<now, keyVars, reservationVars, commandVars, historyVars>>
  <2>1. CASE GetTokensAvailableN(c)
    <3>1. 0 \in Int /\ 0 >= 0 /\ "available" \in Commands
      BY DEF Commands
    <3> QED BY <2>1, <3>1, Zenon DEF GetTokensAvailableN
  <2>2. ASSUME NEW n \in Costs, AllowN(c, n) \/ WaitN(c, n) \/ ReserveN(c, n)
        PROVE  \E label \in Commands :
                 /\ pc[c] = "idle"
                 /\ tokens' = [tokens EXCEPT ![c] = n]
                 /\ \/ n <= 0 /\ Return(c, "invalid")
                    \/ n >= 0 /\ (label # "available" => n > 0) /\ Goto(c, label)
                 /\ UNCHANGED <<now, keyVars, reservationVars, commandVars, historyVars>>
    <3>1. n \in Int
      BY RedisBucketAssumption
    <3>2. n > 0 => n >= 0
      BY <3>1
    <3>3. PICK label \in {"allow", "waitAllow", "reserve"} : Call(c, n, label)
      BY <2>2 DEF AllowN, WaitN, ReserveN
    <3> QED BY <3>2, <3>3 DEF Call, Commands
  <2> QED BY <2>1, <2>2, RedisBucketAssumption DEF Entry
<1>1. /\ UNCHANGED <<now, bucket, timestamp, expireAt, waiters, closed, sleeper, verdict, timeToProcess, ok,
                     retrying, stamp, repeats, charged, lost, floor>>
      /\ UNCHANGED <<now, keyVars, floor>>
  BY <1>0 DEF keyVars, reservationVars, commandVars, historyVars
<1>2. KeyInv' /\ Level' = Level
  BY <1>1, SameKeys
<1>3. TypeOK'
  BY <1>0, <1>1 DEF TypeOK, Return, Goto, Commands, PCs, Returns, Capacity
<1>4. StampInv'
  BY <1>1 DEF StampInv
<1>5. /\ charged[c] = 0 /\ lost[c] = 0 /\ tokens'[c] = n /\ pc[c] = "idle" /\ ret[c] = "none"
      /\ sleeper[c] = "none" /\ verdict[c] = "none" /\ ok[c] /\ c \notin waiters /\ c \notin closed
  BY <1>0 DEF Control, TypeOK
<1>6. ASSUME NEW e \in Calls PROVE Control(e)' /\ Payment(e)'
  <2>1. CASE e # c
    <3>1. tokens'[e] = tokens[e] /\ pc'[e] = pc[e] /\ ret'[e] = ret[e]
      BY <1>0, <2>1 DEF Return, Goto, TypeOK
    <3> QED BY <1>1, <3>1 DEF Control, Payment, Price
  <2>2. CASE e = c
    <3>1. CASE n <= 0 /\ Return(c, "invalid")
      <4>1. pc'[c] = "done" /\ ret'[c] = "invalid"
        BY <3>1 DEF Return, TypeOK
      <4> QED BY <1>1, <1>5, <2>2, <4>1 DEF Control, Payment, Commands, Holding
    <3>2. CASE n >= 0 /\ (label # "available" => n > 0) /\ Goto(c, label)
      <4>1. pc'[c] = label /\ ret'[c] = "none"
        BY <1>5, <3>2 DEF Goto, TypeOK
      <4>2. Control(c)'
        BY <1>1, <1>5, <3>2, <4>1 DEF Control, Commands, Holding
      <4>3. Price(tokens[c])' = Price(n) /\ Price(n) \in Nat
        BY <1>5, <3>2, PriceType DEF Price
      <4>4. Price(n) * 0 = 0 /\ Price(n) * (0 + 1) = Price(n)
        BY <4>3
      <4>5. 0 <= (Price(tokens[c]) * lost[c])' /\ 0 <= (Price(tokens[c]) * (lost[c] + 1))'
        BY <1>1, <1>5, <4>3, <4>4
      <4> QED BY <1>1, <1>5, <2>2, <4>1, <4>2, <4>5 DEF Payment, Commands, Holding
    <3> QED BY <1>0, <3>1, <3>2
  <2> QED BY <2>1, <2>2
<1> QED BY <1>1, <1>2, <1>3, <1>4, <1>6

\* A call whose command is in flight has a cost that is not negative, and has so
\* far paid for no more than its lost replies.
LEMMA InFlightFacts ==
    ASSUME IndInv, NEW c \in Calls, InFlight(c)
    PROVE  /\ tokens[c] \in Int /\ tokens[c] >= 0
           /\ Price(tokens[c]) \in Nat
           /\ charged[c] \in Nat /\ lost[c] \in Nat
           /\ charged[c] <= Price(tokens[c]) * lost[c]
           /\ ret[c] # "invalid"
           /\ pc[c] \in Commands \/ sleeper[c] = "sleeping"
<1> USE DEF IndInv
<1>1. pc[c] \in Commands \/ sleeper[c] = "sleeping"
  BY DEF InFlight, Waking, Commands
<1>2. tokens[c] \in Int /\ charged[c] \in Nat /\ lost[c] \in Nat
  BY DEF TypeOK
<1>3. tokens[c] >= 0 /\ ret[c] # "invalid"
  BY <1>1, <1>2 DEF Control, Commands
<1>4. charged[c] <= Price(tokens[c]) * lost[c]
  BY <1>1 DEF Payment
<1> QED BY <1>1, <1>2, <1>3, <1>4, PriceType

\* What a script that has run means for the payment of its call.
LEMMA ScriptPays ==
    ASSUME IndInv, NEW c \in Calls, InFlight(c), NEW t \in Stamps(c), RunScript(c, t), now' = now
    PROVE  /\ ScriptEffect(c, t)
           /\ charged' \in [Calls -> Nat]
           /\ \A e \in Calls \ {c} : charged'[e] = charged[e]
           /\ charged'[c] <= Price(tokens[c]) * (lost[c] + 1)
           /\ Enough(t, tokens[c]) => charged'[c] >= Price(tokens[c])
           /\ ~Enough(t, tokens[c]) => charged'[c] <= Price(tokens[c]) * lost[c]
<1>1. ScriptEffect(c, t)
  BY InFlightFacts, ScriptLemma
<1> DEFINE pay == Price(tokens[c])  due == Price(tokens[c]) * lost[c]
<1>2. pay \in Nat /\ charged[c] \in Nat /\ due \in Int /\ charged[c] <= due
  <2>1. Price(tokens[c]) \in Nat /\ lost[c] \in Nat
    BY InFlightFacts
  <2> QED BY <2>1, InFlightFacts, DueStep
<1>3. Price(tokens[c]) * (lost[c] + 1) = due + pay
  BY InFlightFacts, DueStep
<1>4. charged \in [Calls -> Nat]
  BY DEF IndInv, TypeOK
<1> HIDE DEF pay, due
<1>5. CASE Enough(t, tokens[c])
  <2>1. charged' = [charged EXCEPT ![c] = @ + pay]
    BY <1>1, <1>5 DEF ScriptEffect, pay
  <2>2. /\ charged' \in [Calls -> Nat]
        /\ \A e \in Calls \ {c} : charged'[e] = charged[e]
        /\ charged'[c] = charged[c] + pay
    BY <1>2, <1>4, <2>1
  <2>3. charged'[c] <= due + pay /\ charged'[c] >= pay
    BY <1>2, <2>2
  <2> QED BY <1>1, <1>3, <1>5, <2>2, <2>3 DEF pay
<1>6. CASE ~Enough(t, tokens[c])
  <2>1. charged' = charged
    BY <1>1, <1>6 DEF ScriptEffect
  <2>2. charged'[c] <= due + pay /\ charged'[c] <= due
    BY <1>2, <2>1
  <2> QED BY <1>1, <1>3, <1>4, <1>6, <2>1, <2>2 DEF due
<1> QED BY <1>5, <1>6

LEMMA SettleStamps ==
    ASSUME IndInv, NEW c \in Calls, Settle(c), now' = now
    PROVE  /\ StampInv'
           /\ retrying' \subseteq Calls /\ stamp' \in [Calls -> Int] /\ repeats' \in 0 .. MaxRepeats
BY DEF IndInv, TypeOK, StampInv, Settle

\* The script ran, the reply is lost, and the command will be sent again.
LEMMA RepeatInd ==
    ASSUME IndInv, NEW c \in Calls, Repeat(c)
    PROVE  /\ IndInv'
           /\ \E t \in Stamps(c) : ScriptEffect(c, t)
<1> USE DEF IndInv
<1>0. PICK t \in Stamps(c) : RunScript(c, t) /\ stamp' = [stamp EXCEPT ![c] = t]
  BY DEF Repeat
<1>1. /\ InFlight(c) /\ now' = now /\ repeats' = repeats + 1 /\ repeats < MaxRepeats
      /\ retrying' = retrying \cup {c}
      /\ lost' = [lost EXCEPT ![c] = @ + 1]
      /\ UNCHANGED <<waiters, closed, sleeper, verdict, timeToProcess, ok, tokens, pc, ret>>
  BY DEF Repeat, reservationVars, clientVars
<1>2. /\ ScriptEffect(c, t)
      /\ charged' \in [Calls -> Nat]
      /\ \A e \in Calls \ {c} : charged'[e] = charged[e]
      /\ charged'[c] <= Price(tokens[c]) * (lost[c] + 1)
      /\ Enough(t, tokens[c]) => charged'[c] >= Price(tokens[c])
  BY <1>0, <1>1, ScriptPays
<1>3. t \in Int /\ now - Lag <= t /\ t <= now + Ahead
  BY StampRange
<1>4. KeyInv'
  BY <1>2 DEF ScriptEffect
<1>5. TypeOK'
  <2>1. /\ bucket' \in Int /\ bucket' <= Capacity
        /\ timestamp' \in Int /\ expireAt' \in Nat /\ floor' \in Int
    BY <1>2 DEF ScriptEffect
  <2>2. repeats' \in 0 .. MaxRepeats
    BY <1>1, RedisBucketAssumption DEF TypeOK
  <2>3. charged' \in [Calls -> Nat] /\ lost' \in [Calls -> Nat] /\ stamp' \in [Calls -> Int]
    <3>1. stamp' \in [Calls -> Int]
      BY <1>0, <1>3 DEF TypeOK
    <3>2. lost' \in [Calls -> Nat]
      BY <1>1 DEF TypeOK
    <3> QED BY <1>2, <3>1, <3>2
  <2>4. retrying' \subseteq Calls /\ now' \in Nat
    BY <1>1 DEF TypeOK
  <2> QED BY <1>1, <2>1, <2>2, <2>3, <2>4 DEF TypeOK, Capacity
<1>6. StampInv'
  BY <1>0, <1>1, <1>3 DEF StampInv, TypeOK
<1>7. ASSUME NEW e \in Calls PROVE Control(e)' /\ Payment(e)'
  <2>1. CASE e # c
    <3>1. charged'[e] = charged[e] /\ lost'[e] = lost[e]
      BY <1>1, <1>2, <2>1 DEF TypeOK
    <3> QED BY <1>1, <3>1 DEF Control, Payment, Price
  <2>2. CASE e = c
    <3>1. pc[c] # "idle"
      <4>1. CASE pc[c] \in Commands
        BY <4>1 DEF Commands
      <4>2. CASE sleeper[c] = "sleeping"
        BY <4>2 DEF Control
      <4> QED BY <1>1, <4>1, <4>2, InFlightFacts
    <3>2. Control(c)'
      BY <1>1, <3>1 DEF Control
    <3>3. lost'[c] = lost[c] + 1 /\ lost[c] \in Nat
      BY <1>1 DEF TypeOK
    <3>4. charged[c] <= charged'[c]
      <4>1. charged[c] \in Nat /\ Price(tokens[c]) \in Nat /\ charged \in [Calls -> Nat]
        BY <1>1, InFlightFacts DEF TypeOK
      <4>2. charged' = charged \/ charged' = [charged EXCEPT ![c] = @ + Price(tokens[c])]
        BY <1>2 DEF ScriptEffect
      <4>3. charged'[c] = charged[c] \/ charged'[c] = charged[c] + Price(tokens[c])
        BY <4>1, <4>2
      <4> QED BY <4>1, <4>3
    <3>5. charged'[c] <= Price(tokens[c]) * lost'[c] /\ charged'[c] <= Price(tokens[c]) * (lost'[c] + 1)
      <4> DEFINE pay == Price(tokens[c])  due == Price(tokens[c]) * (lost[c] + 1)
      <4>1. lost[c] + 1 \in Nat /\ pay \in Nat
        BY <1>1, <3>3, InFlightFacts
      <4>2. due \in Int /\ Price(tokens[c]) * ((lost[c] + 1) + 1) = due + pay
        BY <4>1, DueStep
      <4>3. charged'[c] \in Nat /\ charged'[c] <= due
        BY <1>2
      <4> HIDE DEF pay, due
      <4>4. charged'[c] <= due + pay
        BY <4>1, <4>2, <4>3
      <4> QED BY <3>3, <4>2, <4>3, <4>4 DEF due
    <3>6. charged[c] \in Nat /\ charged'[c] \in Nat /\ Price(tokens[c]) \in Nat
      BY <1>1, <1>2, InFlightFacts
    <3>7. Price(tokens[c])' = Price(tokens[c])
      BY <1>1 DEF Price
    <3>8. \A x \in Nat : charged[c] >= x => charged'[c] >= x
      BY <3>4, <3>6
    <3>9. ret[c] \notin {"denied", "allowed", "invalid"}
      <4>1. CASE pc[c] \in Commands
        BY <4>1 DEF Control, Commands
      <4>2. CASE sleeper[c] = "sleeping"
        BY <4>2 DEF Control
      <4> QED BY <1>1, <4>1, <4>2, InFlightFacts
    <3>10. Payment(c)'
      BY <1>1, <3>5, <3>6, <3>7, <3>8, <3>9 DEF Payment
    <3> QED BY <2>2, <3>2, <3>10
  <2> QED BY <2>1, <2>2
<1> QED BY <1>2, <1>4, <1>5, <1>6, <1>7

\* The parts of TypeOK, and what a step for call c leaves alone.
KeyTypes ==
    /\ bucket \in Int /\ bucket <= Capacity
    /\ timestamp \in Int /\ expireAt \in Nat /\ floor \in Int

StampTypes == retrying \subseteq Calls /\ stamp \in [Calls -> Int] /\ repeats \in 0 .. MaxRepeats

CallTypes ==
    /\ waiters \subseteq Calls /\ closed \subseteq Calls
    /\ sleeper \in [Calls -> {"none", "sleeping", "notifying", "gone"}]
    /\ verdict \in [Calls -> {"none", "allowed", "denied", "failed"}]
    /\ timeToProcess \in [Calls -> Nat]
    /\ ok \in [Calls -> BOOLEAN]
    /\ pc \in [Calls -> PCs]
    /\ ret \in [Calls -> Returns]

Frame(c) ==
    \A e \in Calls \ {c} :
        /\ sleeper'[e] = sleeper[e] /\ verdict'[e] = verdict[e] /\ ok'[e] = ok[e]
        /\ pc'[e] = pc[e] /\ ret'[e] = ret[e]
        /\ e \in waiters' <=> e \in waiters
        /\ e \in closed' <=> e \in closed

Accounts(c) ==
    /\ charged' \in [Calls -> Nat] /\ lost' \in [Calls -> Nat]
    /\ \A e \in Calls \ {c} : charged'[e] = charged[e] /\ lost'[e] = lost[e]

LEMMA StepInd ==
    ASSUME IndInv, NEW c \in Calls, now' = now, tokens' = tokens,
           KeyTypes', KeyInv', StampTypes', StampInv', CallTypes', Frame(c), Accounts(c),
           Control(c)', Payment(c)'
    PROVE  IndInv'
<1> USE DEF IndInv
<1>1. TypeOK'
  BY DEF TypeOK, KeyTypes, StampTypes, CallTypes, Accounts
<1>2. ASSUME NEW e \in Calls PROVE Control(e)' /\ Payment(e)'
  <2>1. CASE e = c
    BY <2>1
  <2>2. CASE e # c
    <3>1. /\ sleeper'[e] = sleeper[e] /\ verdict'[e] = verdict[e] /\ ok'[e] = ok[e]
          /\ pc'[e] = pc[e] /\ ret'[e] = ret[e]
          /\ e \in waiters' <=> e \in waiters
          /\ e \in closed' <=> e \in closed
          /\ charged'[e] = charged[e] /\ lost'[e] = lost[e]
      BY <2>2 DEF Frame, Accounts
    <3> QED BY <3>1 DEF Control, Payment, Price
  <2> QED BY <2>1, <2>2
<1> QED BY <1>1, <1>2

\* What all replies have in common.
LEMMA ReplyFacts ==
    ASSUME IndInv, NEW c \in Calls, InFlight(c), NEW t \in Stamps(c), RunScript(c, t),
           now' = now, Settle(c), lost' = lost
    PROVE  /\ ScriptEffect(c, t)
           /\ KeyTypes' /\ KeyInv' /\ StampTypes' /\ StampInv' /\ Accounts(c)
           /\ charged'[c] <= Price(tokens[c]) * (lost[c] + 1)
           /\ Enough(t, tokens[c]) => charged'[c] >= Price(tokens[c])
           /\ ~Enough(t, tokens[c]) => charged'[c] <= Price(tokens[c]) * lost[c]
<1>1. /\ ScriptEffect(c, t)
      /\ charged' \in [Calls -> Nat]
      /\ \A e \in Calls \ {c} : charged'[e] = charged[e]
      /\ charged'[c] <= Price(tokens[c]) * (lost[c] + 1)
      /\ Enough(t, tokens[c]) => charged'[c] >= Price(tokens[c])
      /\ ~Enough(t, tokens[c]) => charged'[c] <= Price(tokens[c]) * lost[c]
  BY ScriptPays
<1>2. KeyTypes'
  <2>1. /\ bucket' \in Int /\ bucket' <= Capacity
        /\ timestamp' \in Int /\ expireAt' \in Nat /\ floor' \in Int
    BY <1>1 DEF ScriptEffect
  <2> QED BY <2>1 DEF KeyTypes, Capacity
<1>3. KeyInv'
  BY <1>1 DEF ScriptEffect
<1>4. StampTypes' /\ StampInv'
  BY SettleStamps DEF StampTypes
<1>5. Accounts(c)
  <2>1. lost' \in [Calls -> Nat]
    BY DEF IndInv, TypeOK
  <2> QED BY <1>1, <2>1 DEF Accounts
<1> QED BY <1>1, <1>2, <1>3, <1>4, <1>5

LEMMA AllowReplyInd ==
    ASSUME IndInv, NEW c \in Calls, AllowReply(c)
    PROVE  IndInv' /\ \E t \in Stamps(c) : ScriptEffect(c, t)
<1> USE DEF IndInv
<1>0. PICK t \in Stamps(c) :
        /\ RunScript(c, t)
        /\ \/ Enough(t, tokens[c]) /\ Return(c, "allowed")
           \/ ~Enough(t, tokens[c]) /\ pc[c] = "allow" /\ Return(c, "denied")
           \/ ~Enough(t, tokens[c]) /\ pc[c] = "waitAllow" /\ Goto(c, "waitReserve")
  BY DEF AllowReply
<1>1. /\ pc[c] \in {"allow", "waitAllow"} /\ InFlight(c) /\ Settle(c) /\ now' = now
      /\ UNCHANGED <<waiters, closed, sleeper, verdict, timeToProcess, ok, tokens, lost>>
  BY DEF AllowReply, InFlight, reservationVars
<1>2. /\ ScriptEffect(c, t)
      /\ KeyTypes' /\ KeyInv' /\ StampTypes' /\ StampInv' /\ Accounts(c)
      /\ charged'[c] <= Price(tokens[c]) * (lost[c] + 1)
      /\ Enough(t, tokens[c]) => charged'[c] >= Price(tokens[c])
      /\ ~Enough(t, tokens[c]) => charged'[c] <= Price(tokens[c]) * lost[c]
  BY <1>0, <1>1, ReplyFacts
<1>3. CallTypes' /\ Frame(c)
  BY <1>0, <1>1 DEF TypeOK, CallTypes, Frame, Return, Goto, PCs, Returns
<1>4. /\ \/ Enough(t, tokens[c]) /\ pc'[c] = "done" /\ ret'[c] = "allowed"
         \/ ~Enough(t, tokens[c]) /\ pc'[c] = "done" /\ ret'[c] = "denied"
         \/ ~Enough(t, tokens[c]) /\ pc'[c] = "waitReserve" /\ ret'[c] = "none"
      /\ sleeper[c] = "none" /\ verdict[c] = "none" /\ tokens[c] > 0
      /\ c \notin waiters /\ c \notin closed /\ ok[c]
  BY <1>0, <1>1 DEF TypeOK, Return, Goto, Control, Commands
<1>5. Control(c)'
  BY <1>1, <1>4 DEF Control, Commands, Holding
<1>6. Payment(c)'
  <2>1. Price(tokens[c])' = Price(tokens[c])
    BY <1>1 DEF Price
  <2>2. charged'[c] \in Nat
    BY <1>2 DEF Accounts
  <2> QED BY <1>1, <1>2, <1>4, <2>1, <2>2 DEF Payment, Commands, Holding
<1>7. IndInv'
  BY <1>1, <1>2, <1>3, <1>5, <1>6, StepInd
<1> QED BY <1>2, <1>7

LEMMA AvailableReplyInd ==
    ASSUME IndInv, NEW c \in Calls, AvailableReply(c)
    PROVE  IndInv' /\ \E t \in Stamps(c) : ScriptEffect(c, t)
<1> USE DEF IndInv
<1>0. PICK t \in Stamps(c) : RunScript(c, t)
  BY DEF AvailableReply
<1>1. /\ pc[c] = "available" /\ InFlight(c) /\ Settle(c) /\ now' = now /\ Return(c, "available")
      /\ UNCHANGED <<waiters, closed, sleeper, verdict, timeToProcess, ok, tokens, lost>>
  BY DEF AvailableReply, InFlight, reservationVars
<1>2. /\ ScriptEffect(c, t)
      /\ KeyTypes' /\ KeyInv' /\ StampTypes' /\ StampInv' /\ Accounts(c)
      /\ charged'[c] <= Price(tokens[c]) * (lost[c] + 1)
  BY <1>0, <1>1, ReplyFacts
<1>3. CallTypes' /\ Frame(c)
  BY <1>1 DEF TypeOK, CallTypes, Frame, Return, PCs, Returns
<1>4. /\ pc'[c] = "done" /\ ret'[c] = "available"
      /\ sleeper[c] = "none" /\ verdict[c] = "none"
      /\ c \notin waiters /\ c \notin closed /\ ok[c]
  BY <1>1 DEF TypeOK, Return, Control, Commands
<1>5. Control(c)'
  BY <1>1, <1>4 DEF Control, Commands, Holding
<1>6. Payment(c)'
  <2>1. Price(tokens[c])' = Price(tokens[c])
    BY <1>1 DEF Price
  <2> QED BY <1>1, <1>2, <1>4, <2>1 DEF Payment, Commands, Holding
<1>7. IndInv'
  BY <1>1, <1>2, <1>3, <1>5, <1>6, StepInd
<1> QED BY <1>2, <1>7

LEMMA ReserveReplyInd ==
    ASSUME IndInv, NEW c \in Calls, ReserveReply(c)
    PROVE  IndInv' /\ \E t \in Stamps(c) : ScriptEffect(c, t)
<1> USE DEF IndInv
<1>0. PICK t \in Stamps(c) :
        /\ RunScript(c, t)
        /\ \/ /\ Enough(t, tokens[c])
              /\ timeToProcess' = [timeToProcess EXCEPT ![c] = now]
              /\ UNCHANGED <<waiters, sleeper>>
           \/ /\ ~Enough(t, tokens[c])
              /\ timeToProcess' = [timeToProcess EXCEPT ![c] = now + WaitTime(t, tokens[c])]
              /\ waiters' = waiters \cup {c}
              /\ sleeper' = [sleeper EXCEPT ![c] = "sleeping"]
  BY DEF ReserveReply
<1>1. /\ pc[c] \in {"reserve", "waitReserve"} /\ InFlight(c) /\ Settle(c) /\ now' = now
      /\ Goto(c, IF pc[c] = "waitReserve" THEN "wait" ELSE "holding")
      /\ UNCHANGED <<closed, verdict, ok, tokens, lost>>
  BY DEF ReserveReply, InFlight
<1>2. /\ ScriptEffect(c, t)
      /\ KeyTypes' /\ KeyInv' /\ StampTypes' /\ StampInv' /\ Accounts(c)
      /\ charged'[c] <= Price(tokens[c]) * (lost[c] + 1)
      /\ Enough(t, tokens[c]) => charged'[c] >= Price(tokens[c])
      /\ ~Enough(t, tokens[c]) => charged'[c] <= Price(tokens[c]) * lost[c]
  BY <1>0, <1>1, ReplyFacts
<1>3. timeToProcess' \in [Calls -> Nat]
  <2>1. now \in Nat /\ timeToProcess \in [Calls -> Nat]
    BY DEF TypeOK
  <2>2. ~Enough(t, tokens[c]) => now + WaitTime(t, tokens[c]) \in Nat
    <3> SUFFICES ASSUME ~Enough(t, tokens[c]) PROVE now + WaitTime(t, tokens[c]) \in Nat
      OBVIOUS
    <3>1. Refilled(t) \in Int
      BY <1>2 DEF ScriptEffect
    <3>2. Price(tokens[c]) \in Int
      BY <1>1, InFlightFacts
    <3>3. Refilled(t) - Price(tokens[c]) \in Int /\ Refilled(t) - Price(tokens[c]) < 0
      BY <3>1, <3>2 DEF Enough
    <3>4. WaitTime(t, tokens[c]) \in Nat
      BY <3>3, WaitTimeType DEF WaitTime
    <3> QED BY <2>1, <3>4
  <2>3. CASE Enough(t, tokens[c])
    BY <1>0, <2>1, <2>3
  <2>4. CASE ~Enough(t, tokens[c])
    BY <1>0, <2>1, <2>2, <2>4
  <2> QED BY <2>3, <2>4
<1>4. CallTypes' /\ Frame(c)
  BY <1>0, <1>1, <1>3 DEF TypeOK, CallTypes, Frame, Goto, PCs
<1>5. /\ pc'[c] \in {"wait", "holding"} /\ ret'[c] = "none" /\ tokens[c] > 0
      /\ verdict[c] = "none" /\ c \notin closed /\ ok[c]
      /\ \/ Enough(t, tokens[c]) /\ sleeper'[c] = "none" /\ c \notin waiters'
         \/ ~Enough(t, tokens[c]) /\ sleeper'[c] = "sleeping" /\ c \in waiters'
  BY <1>0, <1>1 DEF TypeOK, Goto, Control, Commands
<1>6. Control(c)'
  BY <1>1, <1>5 DEF Control, Commands, Holding
<1>7. Payment(c)'
  <2>1. Price(tokens[c])' = Price(tokens[c])
    BY <1>1 DEF Price
  <2> QED BY <1>1, <1>2, <1>5, <2>1 DEF Payment, Commands, Holding
<1>8. IndInv'
  BY <1>1, <1>2, <1>4, <1>6, <1>7, StepInd
<1> QED BY <1>2, <1>8

LEMMA WakerReplyInd ==
    ASSUME IndInv, NEW c \in Calls, WakerReply(c)
    PROVE  IndInv' /\ \E t \in Stamps(c) : ScriptEffect(c, t)
<1> USE DEF IndInv
<1>0. PICK t \in Stamps(c) :
        /\ RunScript(c, t)
        /\ verdict' = [verdict EXCEPT ![c] = IF Enough(t, tokens[c]) THEN "allowed" ELSE "denied"]
  BY DEF WakerReply
<1>1. /\ sleeper[c] = "sleeping" /\ InFlight(c) /\ Settle(c) /\ now' = now
      /\ sleeper' = [sleeper EXCEPT ![c] = "notifying"]
      /\ UNCHANGED <<waiters, closed, timeToProcess, ok, tokens, pc, ret, lost>>
  BY DEF WakerReply, Waking, InFlight, clientVars
<1>2. /\ ScriptEffect(c, t)
      /\ KeyTypes' /\ KeyInv' /\ StampTypes' /\ StampInv' /\ Accounts(c)
      /\ charged'[c] <= Price(tokens[c]) * (lost[c] + 1)
      /\ Enough(t, tokens[c]) => charged'[c] >= Price(tokens[c])
  BY <1>0, <1>1, ReplyFacts
<1>3. CallTypes' /\ Frame(c)
  BY <1>0, <1>1 DEF TypeOK, CallTypes, Frame
<1>4. /\ sleeper'[c] = "notifying" /\ pc[c] \notin Commands \cup {"idle"} /\ tokens[c] > 0
      /\ ret[c] \notin {"allowed", "denied", "invalid"}
      /\ verdict'[c] \in {"allowed", "denied"} /\ (verdict'[c] = "allowed" => Enough(t, tokens[c]))
      /\ c \notin closed
  BY <1>0, <1>1 DEF TypeOK, Control
<1>5. Control(c)'
  BY <1>1, <1>4 DEF Control
<1>6. Payment(c)'
  <2>1. Price(tokens[c])' = Price(tokens[c])
    BY <1>1 DEF Price
  <2> QED BY <1>1, <1>2, <1>4, <2>1 DEF Payment
<1>7. IndInv'
  BY <1>1, <1>2, <1>3, <1>5, <1>6, StepInd
<1> QED BY <1>2, <1>7

\* An error: the script has not run, or its reply is lost.
LEMMA GiveUpInd ==
    ASSUME IndInv, NEW c \in Calls, GiveUp(c)
    PROVE  /\ IndInv'
           /\ \/ Level' = Level /\ charged' = charged
              \/ \E t \in Stamps(c) : ScriptEffect(c, t)
<1> USE DEF IndInv
<1>1. /\ InFlight(c) /\ Settle(c) /\ now' = now
      /\ UNCHANGED <<waiters, closed, timeToProcess, ok, tokens>>
      /\ IF Waking(c)
         THEN /\ sleeper' = [sleeper EXCEPT ![c] = "gone"]
              /\ verdict' = [verdict EXCEPT ![c] = "failed"]
              /\ UNCHANGED <<pc, ret>>
         ELSE Return(c, "unavailable") /\ UNCHANGED <<sleeper, verdict>>
  BY DEF GiveUp
<1>2. CallTypes' /\ Frame(c)
  BY <1>1 DEF TypeOK, CallTypes, Frame, Return, PCs, Returns
<1>3. StampTypes' /\ StampInv'
  BY <1>1, SettleStamps DEF StampTypes
<1>4. \/ /\ Waking(c) /\ sleeper[c] = "sleeping" /\ sleeper'[c] = "gone" /\ verdict'[c] = "failed"
         /\ pc'[c] = pc[c] /\ ret'[c] = ret[c] /\ pc[c] \notin Commands \cup {"idle"}
         /\ ret[c] \notin {"allowed", "denied", "invalid"} /\ tokens[c] > 0 /\ c \notin closed
      \/ /\ ~Waking(c) /\ pc[c] \in Commands /\ pc'[c] = "done" /\ ret'[c] = "unavailable"
         /\ sleeper'[c] = "none" /\ verdict'[c] = "none" /\ c \notin waiters /\ c \notin closed
  <2>1. CASE Waking(c)
    <3>1. sleeper[c] = "sleeping" /\ sleeper'[c] = "gone" /\ verdict'[c] = "failed" /\ pc' = pc /\ ret' = ret
      BY <1>1, <2>1 DEF Waking, TypeOK
    <3> QED BY <2>1, <3>1 DEF Control
  <2>2. CASE ~Waking(c)
    <3>1. pc[c] \in Commands /\ Return(c, "unavailable") /\ sleeper' = sleeper /\ verdict' = verdict
      BY <1>1, <2>2 DEF InFlight, Commands
    <3> QED BY <2>2, <3>1 DEF Control, Return, TypeOK
  <2> QED BY <2>1, <2>2
<1>5. Control(c)'
  <2>1. lost'[c] = lost'[c] /\ UNCHANGED <<waiters, closed, ok, tokens>>
    BY <1>1
  <2> QED BY <1>4, <2>1 DEF Control, Commands, Holding
<1>6. Price(tokens[c])' = Price(tokens[c])
  BY <1>1 DEF Price
<1>7. CASE UNCHANGED <<keyVars, historyVars>>
  <2>1. UNCHANGED <<now, keyVars, floor>> /\ charged' = charged /\ lost' = lost
        /\ bucket' = bucket /\ timestamp' = timestamp /\ expireAt' = expireAt
    BY <1>1, <1>7 DEF historyVars, keyVars
  <2>2. KeyInv' /\ Level' = Level
    BY <2>1, SameKeys
  <2>3. KeyTypes' /\ Accounts(c)
    BY <2>1 DEF TypeOK, KeyTypes, Accounts, Capacity
  <2>4. Payment(c)'
    <3>1. ret[c] # "invalid"
      BY <1>4 DEF Control, Commands
    <3>2. charged'[c] <= Price(tokens[c]) * (lost'[c] + 1)
      BY <2>1, <3>1 DEF Payment
    <3>3. CASE Waking(c)
      <4>1. /\ ret'[c] \notin {"allowed", "denied", "invalid"} /\ pc'[c] \notin Commands \cup {"idle"}
            /\ sleeper'[c] = "gone" /\ verdict'[c] = "failed"
        BY <1>4, <3>3
      <4> QED BY <1>6, <3>2, <4>1 DEF Payment, Commands
    <3>4. CASE ~Waking(c)
      <4>1. pc'[c] = "done" /\ ret'[c] = "unavailable" /\ verdict'[c] = "none" /\ sleeper'[c] = "none"
        BY <1>4, <3>4
      <4> QED BY <1>6, <3>2, <4>1 DEF Payment, Commands, Holding
    <3> QED BY <3>3, <3>4
  <2>5. IndInv'
    BY <1>1, <1>2, <1>3, <1>5, <2>2, <2>3, <2>4, StepInd
  <2> QED BY <2>1, <2>2, <2>5
<1>8. ASSUME NEW t \in Stamps(c), RunScript(c, t), lost' = [lost EXCEPT ![c] = @ + 1]
      PROVE  IndInv' /\ ScriptEffect(c, t)
  <2>1. /\ ScriptEffect(c, t)
        /\ charged' \in [Calls -> Nat]
        /\ \A e \in Calls \ {c} : charged'[e] = charged[e]
        /\ charged'[c] <= Price(tokens[c]) * (lost[c] + 1)
    BY <1>1, <1>8, ScriptPays
  <2>2. KeyTypes'
    <3>1. /\ bucket' \in Int /\ bucket' <= Capacity
          /\ timestamp' \in Int /\ expireAt' \in Nat /\ floor' \in Int
      BY <2>1 DEF ScriptEffect
    <3> QED BY <3>1 DEF KeyTypes, Capacity
  <2>3. KeyInv'
    BY <2>1 DEF ScriptEffect
  <2>4. lost \in [Calls -> Nat] /\ lost' \in [Calls -> Nat] /\ lost'[c] = lost[c] + 1
    BY <1>8 DEF TypeOK
  <2>5. Accounts(c)
    BY <1>8, <2>1, <2>4 DEF Accounts
  <2>6. charged'[c] <= Price(tokens[c]) * (lost'[c] + 1)
    <3> DEFINE pay == Price(tokens[c])  due == Price(tokens[c]) * (lost[c] + 1)
    <3>1. lost[c] + 1 \in Nat /\ pay \in Nat
      BY <1>1, <2>4, InFlightFacts
    <3>2. due \in Int /\ Price(tokens[c]) * ((lost[c] + 1) + 1) = due + pay
      BY <3>1, DueStep
    <3>3. charged'[c] \in Nat /\ charged'[c] <= due
      BY <2>1
    <3> HIDE DEF pay, due
    <3>4. charged'[c] <= due + pay
      BY <3>1, <3>2, <3>3
    <3> QED BY <2>4, <3>2, <3>4
  <2>7. charged'[c] >= Price(tokens[c]) \/ charged'[c] = charged[c]
    <3>1. charged[c] \in Nat /\ Price(tokens[c]) \in Nat /\ charged \in [Calls -> Nat]
      BY <1>1, InFlightFacts DEF TypeOK
    <3>2. charged' = charged \/ charged' = [charged EXCEPT ![c] = @ + Price(tokens[c])]
      BY <2>1 DEF ScriptEffect
    <3>3. charged'[c] = charged[c] \/ charged'[c] = charged[c] + Price(tokens[c])
      BY <3>1, <3>2
    <3> QED BY <3>1, <3>3
  <2>8. Payment(c)'
    <3>1. CASE Waking(c)
      <4>1. /\ ret'[c] \notin {"allowed", "denied", "invalid"} /\ pc'[c] \notin Commands \cup {"idle"}
            /\ sleeper'[c] = "gone" /\ verdict'[c] = "failed"
        BY <1>4, <3>1
      <4> QED BY <1>6, <2>6, <4>1 DEF Payment, Commands
    <3>2. CASE ~Waking(c)
      <4>1. pc'[c] = "done" /\ ret'[c] = "unavailable" /\ verdict'[c] = "none" /\ sleeper'[c] = "none"
        BY <1>4, <3>2
      <4> QED BY <1>6, <2>6, <4>1 DEF Payment, Commands, Holding
    <3> QED BY <3>1, <3>2
  <2>9. IndInv'
    BY <1>1, <1>2, <1>3, <1>5, <2>2, <2>3, <2>5, <2>8, StepInd
  <2> QED BY <2>1, <2>9
<1> QED BY <1>7, <1>8 DEF GiveUp

\* The steps on a reservation do not touch the keys.
LEMMA ReservationInd ==
    ASSUME IndInv, NEW c \in Calls, OnReservation(c)
    PROVE  IndInv' /\ Level' = Level /\ charged' = charged
<1> USE DEF IndInv
<1>1. /\ UNCHANGED <<now, keyVars, floor>>
      /\ UNCHANGED <<bucket, timestamp, expireAt, timeToProcess, tokens, verdict,
                     retrying, stamp, repeats, charged, lost, floor>>
  BY DEF OnReservation, WaitCheck, WaitLookup, WaitSelect, CancelAt, Notify, keyVars,
         reservationVars, clientVars, commandVars, historyVars
<1>2. KeyInv' /\ Level' = Level
  BY <1>1, SameKeys
<1>3. KeyTypes' /\ StampTypes' /\ StampInv' /\ Accounts(c)
  BY <1>1 DEF TypeOK, KeyTypes, StampTypes, StampInv, Accounts, Capacity
<1>4. Price(tokens[c])' = Price(tokens[c])
  BY <1>1 DEF Price
<1>5. CASE Notify(c)
  <2>1. /\ sleeper[c] = "notifying" /\ sleeper' = [sleeper EXCEPT ![c] = "gone"]
        /\ closed' = IF c \in waiters THEN closed \cup {c} ELSE closed
        /\ waiters' = waiters \ {c}
        /\ UNCHANGED <<ok, pc, ret>>
    BY <1>5 DEF Notify, clientVars
  <2>2. CallTypes' /\ Frame(c)
    BY <1>1, <2>1 DEF TypeOK, CallTypes, Frame
  <2>3. Control(c)' /\ Payment(c)'
    <3>1. sleeper'[c] = "gone"
      BY <2>1 DEF TypeOK
    <3> QED BY <1>1, <1>4, <2>1, <3>1 DEF Control, Payment, Commands, Holding
  <2> QED BY <1>1, <1>2, <1>3, <2>2, <2>3, StepInd
<1>6. CASE CancelAt(c)
  <2>1. /\ pc[c] = "holding" /\ CancelEffect(c)
        /\ UNCHANGED <<closed, sleeper, pc, ret>>
    BY <1>6 DEF CancelAt, clientVars
  <2>2. CallTypes' /\ Frame(c)
    BY <1>1, <2>1 DEF TypeOK, CallTypes, Frame, CancelEffect
  <2>3. Control(c)' /\ Payment(c)'
    BY <1>1, <1>4, <2>1 DEF Control, Payment, CancelEffect, TypeOK, Commands, Holding
  <2> QED BY <1>1, <1>2, <1>3, <2>2, <2>3, StepInd
<1>7. CASE WaitCheck(c) \/ WaitLookup(c)
  <2>1. /\ pc[c] \in {"holding", "wait", "lookup"}
        /\ \/ Return(c, "ratelimited") \/ Return(c, "elapsed") \/ Goto(c, "lookup")
           \/ c \in waiters /\ Goto(c, "select")
        /\ UNCHANGED <<waiters, closed, sleeper, ok>>
    BY <1>7 DEF WaitCheck, WaitLookup, reservationVars
  <2>2. CallTypes' /\ Frame(c)
    BY <1>1, <2>1 DEF TypeOK, CallTypes, Frame, Return, Goto, PCs, Returns
  <2>3. /\ ret[c] = "none" /\ tokens[c] > 0
        /\ \/ pc'[c] = "done" /\ ret'[c] \in {"ratelimited", "elapsed"}
           \/ pc'[c] = "lookup" /\ ret'[c] = "none"
           \/ pc'[c] = "select" /\ ret'[c] = "none" /\ c \in waiters
    BY <2>1 DEF Control, Holding, Return, Goto, TypeOK
  <2>4. Control(c)' /\ Payment(c)'
    BY <1>1, <1>4, <2>1, <2>3 DEF Control, Payment, Commands, Holding
  <2> QED BY <1>1, <1>2, <1>3, <2>2, <2>4, StepInd
<1>8. CASE WaitSelect(c)
  <2>1. /\ pc[c] = "select"
        /\ CancelEffect(c) \/ UNCHANGED <<waiters, ok>>
        /\ \E r \in {"cancelled", "assumed", "timedout", "fulfilled"} : Return(c, r)
        /\ UNCHANGED <<closed, sleeper>>
    BY <1>8 DEF WaitSelect
  <2>2. CallTypes' /\ Frame(c)
    <3>1. /\ waiters' \subseteq Calls /\ ok' \in [Calls -> BOOLEAN]
          /\ \A e \in Calls \ {c} : ok'[e] = ok[e] /\ (e \in waiters' <=> e \in waiters)
      BY <2>1 DEF TypeOK, CancelEffect
    <3>2. /\ pc' \in [Calls -> PCs] /\ ret' \in [Calls -> Returns]
          /\ \A e \in Calls \ {c} : pc'[e] = pc[e] /\ ret'[e] = ret[e]
      BY <2>1 DEF TypeOK, Return, PCs, Returns
    <3>3. CallTypes'
      BY <1>1, <2>1, <3>1, <3>2 DEF TypeOK, CallTypes
    <3> QED BY <1>1, <2>1, <3>1, <3>2, <3>3 DEF Frame
  <2>3. /\ ret[c] = "none" /\ tokens[c] > 0
        /\ pc'[c] = "done" /\ ret'[c] \in {"cancelled", "assumed", "timedout", "fulfilled"}
    BY <2>1 DEF Control, Holding, Return, TypeOK
  <2>4. Control(c)'
    <3>1. /\ waiters' \subseteq waiters
          /\ c \in waiters' \cup closed => ok'[c] = ok[c]
      BY <2>1 DEF CancelEffect, Control, TypeOK
    <3> QED BY <1>1, <2>1, <2>3, <3>1 DEF Control, Commands, Holding
  <2>5. Payment(c)'
    BY <1>1, <1>4, <2>1, <2>3 DEF Payment, Control, Commands, Holding
  <2> QED BY <1>1, <1>2, <1>3, <2>2, <2>4, <2>5, StepInd
<1> QED BY <1>5, <1>6, <1>7, <1>8 DEF OnReservation

LEMMA StutterInd ==
    ASSUME IndInv, UNCHANGED vars
    PROVE  IndInv' /\ Level' = Level /\ charged' = charged
<1>1. /\ UNCHANGED <<now, keyVars, floor>>
      /\ UNCHANGED <<now, bucket, timestamp, expireAt, waiters, closed, sleeper, verdict, tokens,
                     timeToProcess, ok, pc, ret, retrying, stamp, repeats, charged, lost, floor>>
  BY DEF vars, keyVars, reservationVars, clientVars, commandVars, historyVars
<1>2. KeyInv' /\ Level' = Level
  BY <1>1, SameKeys DEF IndInv
<1> QED BY <1>1, <1>2 DEF IndInv, TypeOK, StampInv, Control, Payment, Price, Capacity

LEMMA CommandInd ==
    ASSUME IndInv, NEW c \in Calls, Command(c)
    PROVE  /\ IndInv'
           /\ \/ Level' = Level /\ charged' = charged
              \/ \E t \in Stamps(c) : ScriptEffect(c, t)
BY RepeatInd, GiveUpInd, AllowReplyInd, ReserveReplyInd, AvailableReplyInd, WakerReplyInd DEF Command

LEMMA NextInd == IndInv /\ [Next]_vars => IndInv'
BY TickInd, EntryInd, CommandInd, ReservationInd, StutterInd DEF Next

LEMMA Inductive == Spec => []IndInv
BY InitInd, NextInd, PTL DEF Spec

-----------------------------------------------------------------------------
(* The theorems.                                                           *)

\* Every variable keeps its type, for every set of calls and every disagreement
\* of the clocks: in particular no script of AllowN, ReserveN or
\* GetTokensAvailableN ever stores more than a full bucket.
THEOREM TypeCorrect == Spec => []TypeOK
BY Inductive, PTL DEF IndInv

\* A script whose clock is behind the last one takes tokens away (line 133), but
\* the stored value never falls further below zero than two readings of the
\* time can disagree.
THEOREM DebtCorrect == Spec => []DebtBounded
<1>1. IndInv => DebtBounded
  <2> SUFFICES ASSUME IndInv, KeysLive PROVE bucket >= -Skew
    BY DEF DebtBounded
  <2>1. bucket >= 0 - Skew
    BY WorthBound DEF IndInv
  <2> QED BY <2>1, Constants DEF IndInv, TypeOK
<1> QED BY <1>1, Inductive, PTL

\* What the answers of AllowN and ReserveN say about the tokens that were taken,
\* with every number of lost replies.
THEOREM AnswersCorrect == Spec => []AnswersPaid
<1>1. IndInv => AnswersPaid
  BY DEF IndInv, Payment, AnswersPaid
<1> QED BY <1>1, Inductive, PTL

\* The two close(ch) of the goroutine (lines 399 and 407) never close a channel
\* twice, and CancelAt leaves nothing for them to close.
THEOREM ClosedCorrect == Spec => []ClosedOnce
<1>1. IndInv => ClosedOnce
  BY DEF IndInv, TypeOK, Control, ClosedOnce
<1> QED BY <1>1, Inductive, PTL

\* A caller in the select of Wait has a goroutine that will see to it, or had one
\* whose AllowN failed (line 393).
THEOREM StrandedCorrect == Spec => []StrandedOnlyByError
<1>1. IndInv => StrandedOnlyByError
  BY DEF IndInv, Control, StrandedOnlyByError
<1> QED BY <1>1, Inductive, PTL

\* What a step does to the level of the abstract bucket.
LEMMA LevelStep ==
    ASSUME IndInv, [Next]_vars
    PROVE  \/ now' # now /\ RL!Refill
           \/ Level' = Level /\ charged' = charged
           \/ \E c \in Calls : \E t \in Stamps(c) : ScriptEffect(c, t)
<1>1. CASE Tick
  <2>1. Level' = IF Capacity + Skew <= Level + Rate THEN Capacity + Skew ELSE Level + Rate
    BY <1>1, TickInd
  <2>2. now' # now
    BY <1>1 DEF Tick, IndInv, TypeOK
  <2> QED BY <2>1, <2>2 DEF RL!Refill, RL!Lesser
<1>2. ASSUME NEW c \in Calls, Entry(c) \/ OnReservation(c)
      PROVE  Level' = Level /\ charged' = charged
  BY <1>2, EntryInd, ReservationInd
<1>3. ASSUME NEW c \in Calls, Command(c)
      PROVE  \/ Level' = Level /\ charged' = charged
             \/ \E t \in Stamps(c) : ScriptEffect(c, t)
  BY <1>3, CommandInd
<1>4. CASE UNCHANGED vars
  BY <1>4, StutterInd
<1> QED BY <1>1, <1>2, <1>3, <1>4 DEF Next

\* The scripts of all instances together implement one token bucket, larger by
\* the disagreement of the clocks, and take from it whatever they charge.
THEOREM Refinement == Spec => ImplementsRateLimit
<1>1. Init => RL!Init
  BY DEF Init, RL!Init, Level, KeysLive
<1>2. IndInv /\ [Next]_vars => [RL!Next]_Level
  <2> SUFFICES ASSUME IndInv, [Next]_vars PROVE RL!Next \/ Level' = Level
    OBVIOUS
  <2>0. Level \in Nat /\ Level <= Capacity + Skew
    BY LevelType DEF IndInv
  <2>1. CASE RL!Refill
    BY <2>1 DEF RL!Next
  <2>2. ASSUME NEW c \in Calls, NEW t \in Stamps(c), ScriptEffect(c, t)
        PROVE  RL!Next \/ Level' = Level
    <3> DEFINE before == Level  after == Level'  burst == Capacity + Skew
    <3>1. before \in Nat /\ before <= burst /\ after \in Nat /\ after <= before /\ burst \in Nat
      BY <2>0, <2>2, Constants DEF ScriptEffect
    <3> HIDE DEF before, after, burst
    <3>2. /\ before - after <= before /\ after = before - (before - after)
          /\ before # after => before - after \in 1 .. burst
      BY <3>1
    <3>3. /\ Level - Level' <= Level /\ Level' = Level - (Level - Level')
          /\ Level # Level' => Level - Level' \in 1 .. (Capacity + Skew)
      BY <3>2 DEF before, after, burst
    <3>4. RL!Spend(Level - Level')
      BY <3>3 DEF RL!Spend
    <3> QED BY <3>3, <3>4 DEF RL!Next
  <2> QED BY <2>1, <2>2, LevelStep
<1>3. IndInv /\ [Next]_vars
        => [now' = now => \A c \in Calls : charged'[c] - charged[c] <= Level - Level']_vars
  <2> SUFFICES ASSUME IndInv, [Next]_vars, now' = now, NEW e \in Calls
               PROVE  charged'[e] - charged[e] <= Level - Level'
    OBVIOUS
  <2>0. Level \in Nat /\ charged \in [Calls -> Nat]
    BY LevelType DEF IndInv, TypeOK
  <2> DEFINE before == Level  after == Level'
  <2>1. CASE Level' = Level /\ charged' = charged
    <3>1. before \in Nat /\ after = before /\ charged[e] \in Nat /\ charged'[e] = charged[e]
      BY <2>0, <2>1
    <3> HIDE DEF before, after
    <3>2. charged'[e] - charged[e] <= before - after
      BY <3>1
    <3> QED BY <3>2 DEF before, after
  <2>2. ASSUME NEW c \in Calls, NEW t \in Stamps(c), ScriptEffect(c, t)
        PROVE  charged'[e] - charged[e] <= Level - Level'
    <3> DEFINE pay == Price(tokens[c])
    <3>1. /\ before \in Nat /\ after \in Nat /\ after <= before
          /\ \/ charged'[e] = charged[e]
             \/ charged'[e] = charged[e] + pay /\ pay <= before - after
      BY <2>0, <2>2 DEF ScriptEffect
    <3>2. charged[e] \in Nat /\ pay \in Int
      BY <2>0, PriceType DEF IndInv, TypeOK
    <3> HIDE DEF before, after, pay
    <3>3. charged'[e] - charged[e] <= before - after
      BY <3>1, <3>2
    <3> QED BY <3>3 DEF before, after
  <2> QED BY <2>1, <2>2, LevelStep
<1> QED BY <1>1, <1>2, <1>3, Inductive, PTL DEF Spec, ImplementsRateLimit, RL!Spec

\* A refusal is the answer of a script that has run for that very call.
LEMMA RefusedByScript ==
    ASSUME IndInv, [Next]_vars, NEW e \in Calls, Refused(e)
    PROVE  tokens[e] > 0 /\ \E t \in Stamps(e) : ScriptEffect(e, t)
<1> DEFINE Calm == /\ ret'[e] = "denied" => ret[e] = "denied"
                   /\ pc[e] = "waitAllow" => pc'[e] # "waitReserve"
                   /\ sleeper'[e] = "sleeping" => sleeper[e] = "sleeping"
                   /\ verdict'[e] = "denied" => verdict[e] = "denied"
<1>1. ~Calm
  BY DEF Refused
<1>2. TypeOK
  BY DEF IndInv
<1>3. CASE Tick \/ UNCHANGED vars
  BY <1>1, <1>3 DEF Tick, vars, reservationVars, clientVars
<1>4. ASSUME NEW c \in Calls, Entry(c) PROVE FALSE
  <2>1. CASE GetTokensAvailableN(c)
    BY <1>1, <1>2, <2>1 DEF GetTokensAvailableN, Goto, reservationVars, TypeOK
  <2>2. ASSUME NEW n \in Costs, AllowN(c, n) \/ WaitN(c, n) \/ ReserveN(c, n) PROVE FALSE
    BY <1>1, <1>2, <2>2 DEF AllowN, WaitN, ReserveN, Call, Return, Goto, reservationVars, TypeOK
  <2> QED BY <1>4, <2>1, <2>2 DEF Entry
<1>5. ASSUME NEW c \in Calls, OnReservation(c) PROVE FALSE
  <2>1. CASE WaitCheck(c) \/ WaitLookup(c)
    BY <1>1, <1>2, <2>1 DEF WaitCheck, WaitLookup, Return, Goto, reservationVars, TypeOK
  <2>2. CASE WaitSelect(c)
    BY <1>1, <1>2, <2>2 DEF WaitSelect, Return, TypeOK
  <2>3. CASE CancelAt(c) \/ Notify(c)
    BY <1>1, <1>2, <2>3 DEF CancelAt, Notify, clientVars, TypeOK
  <2> QED BY <1>5, <2>1, <2>2, <2>3 DEF OnReservation
<1>6. ASSUME NEW c \in Calls, Command(c) PROVE tokens[e] > 0 /\ \E t \in Stamps(e) : ScriptEffect(e, t)
  <2>1. CASE Repeat(c)
    BY <1>1, <2>1 DEF Repeat, reservationVars, clientVars
  <2>2. CASE GiveUp(c)
    BY <1>1, <1>2, <2>2 DEF GiveUp, Return, TypeOK
  <2>3. CASE AvailableReply(c)
    BY <1>1, <1>2, <2>3 DEF AvailableReply, Return, reservationVars, TypeOK
  <2>4. CASE AllowReply(c)
    <3>1. c = e
      BY <1>1, <1>2, <2>4 DEF AllowReply, Return, Goto, reservationVars, TypeOK
    <3>2. tokens[c] > 0
      BY <2>4 DEF AllowReply, IndInv, Control, Commands
    <3> QED BY <2>4, <3>1, <3>2, AllowReplyInd
  <2>5. CASE ReserveReply(c)
    <3>1. c = e
      BY <1>1, <1>2, <2>5 DEF ReserveReply, Goto, TypeOK
    <3>2. tokens[c] > 0
      BY <2>5 DEF ReserveReply, IndInv, Control, Commands
    <3> QED BY <2>5, <3>1, <3>2, ReserveReplyInd
  <2>6. CASE WakerReply(c)
    <3>1. c = e
      BY <1>1, <1>2, <2>6 DEF WakerReply, clientVars, TypeOK
    <3>2. tokens[c] > 0
      BY <2>6 DEF WakerReply, Waking, IndInv, Control
    <3> QED BY <2>6, <3>1, <3>2, WakerReplyInd
  <2> QED BY <1>6, <2>1, <2>2, <2>3, <2>4, <2>5, <2>6 DEF Command
<1> QED BY <1>3, <1>4, <1>5, <1>6 DEF Next

\* A refusal by AllowN, by ReserveN or of the goroutine of a reservation means
\* that a bucket smaller by the disagreement of the clocks would have been
\* short of the tokens too: clocks that go back delay a grant, and no more.
THEOREM RefusalCorrect == Spec => RefusalJustified
<1>1. IndInv /\ [Next]_vars => [\A c \in Calls : Refused(c) => floor < Price(tokens[c])]_vars
  <2> SUFFICES ASSUME IndInv, [Next]_vars, NEW c \in Calls, Refused(c)
               PROVE  floor < Price(tokens[c])
    OBVIOUS
  <2>1. PICK t \in Stamps(c) : ScriptEffect(c, t)
    BY RefusedByScript
  <2>2. tokens[c] \in Int /\ tokens[c] > 0 /\ charged \in [Calls -> Nat]
    BY RefusedByScript DEF IndInv, TypeOK
  <2>3. Price(tokens[c]) \in Int /\ Price(tokens[c]) > 0
    BY <2>2, PriceType
  <2>4. charged'[c] = charged[c]
    BY DEF Refused
  <2>5. charged' # [charged EXCEPT ![c] = @ + Price(tokens[c])]
    BY <2>2, <2>3, <2>4
  <2> QED BY <2>1, <2>5 DEF ScriptEffect
<1> QED BY <1>1, Inductive, PTL DEF Spec, RefusalJustified
=============================================================================
