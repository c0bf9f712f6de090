----------------------------- MODULE TokenBucket -----------------------------
(***************************************************************************)
(* The in-memory rate limiter (internal/limiter/token_bucket.go): a lazily *)
(* refilled bucket, and reservations whose tokens a sleeping goroutine     *)
(* takes later on the caller's behalf.                                     *)
(*                                                                         *)
(* Each member of Calls is one use of the limiter by one client: a call of *)
(* AllowN, of WaitN, or of ReserveN followed by calls on the reservation.  *)
(* Its name is also the reservationID, so waiters and waitersByID, which   *)
(* always change together under waitersMu, are one set here.  A step is a  *)
(* critical section of mu or of waitersMu, with the reads of the clock     *)
(* made next to it; between two steps of a call every other goroutine may  *)
(* run and time may pass.                                                  *)
(*                                                                         *)
(* availableTokens is a float64: tokens are counted in sub-units, Unit to  *)
(* the token, and a tick of the clock is worth Rate sub-units, so that a   *)
(* bucket can hold a part of a token and a wait can end between two ticks. *)
(***************************************************************************)
EXTENDS Integers

CONSTANTS
    Calls,        \* uses of the limiter, each by one client
    Costs,        \* token costs the clients ask for
    BucketSize,   \* in tokens
    Unit,         \* sub-units in a token
    Rate,         \* tokensPerSecond, as sub-units per tick
    MaxTime       \* bound on the clock

ASSUME BucketAssumption ==
    /\ BucketSize \in Nat
    /\ Unit \in Nat \ {0}
    /\ Rate \in Nat \ {0}
    /\ MaxTime \in Nat
    /\ Costs \subseteq Int

VARIABLES
    now,               \* the clock
    availableTokens,   \* in sub-units
    lastRefillTime,
    waiters,           \* reservations with a registered channel
    closed,            \* reservations whose channel has been closed
    sleeper,           \* the goroutine ReserveN starts for a reservation
    tokens,            \* the cost each call asked for
    timeToProcess,     \* field of the reservation
    ok,                \* field of the reservation
    pc,                \* where each client is
    ret                \* the return statement each finished call left by

\* History: what was charged, in all and to each call, and the window that
\* WindowBound measures.
VARIABLES spent, charged, winStart, winBase

bucketVars == <<availableTokens, lastRefillTime>>
reservationVars == <<waiters, closed, sleeper, timeToProcess, ok>>
clientVars == <<tokens, pc, ret>>
accountVars == <<spent, charged>>
windowVars == <<winStart, winBase>>
vars == <<now, bucketVars, reservationVars, clientVars, accountVars, windowVars>>

Capacity == BucketSize * Unit

\* A token cost, in sub-units.
Price(n) == n * Unit

PCs == {"idle", "reserve", "holding", "wait", "lookup", "select", "done"}

\* "allowed", "elapsed" and "fulfilled" are the three ways to report success:
\* AllowN's true, and the two return nil of Wait (lines 252 and 278).
Returns == {"none", "invalid", "allowed", "denied", "elapsed", "fulfilled",
            "ratelimited", "cancelled"}

Init ==
    /\ now = 0
    /\ availableTokens = Capacity
    /\ lastRefillTime = 0
    /\ waiters = {}
    /\ closed = {}
    /\ sleeper = [c \in Calls |-> "none"]
    /\ tokens = [c \in Calls |-> 0]
    /\ timeToProcess = [c \in Calls |-> 0]
    /\ ok = [c \in Calls |-> TRUE]
    /\ pc = [c \in Calls |-> "idle"]
    /\ ret = [c \in Calls |-> "none"]
    /\ spent = 0
    /\ charged = [c \in Calls |-> 0]
    /\ winStart = 0
    /\ winBase = 0

-----------------------------------------------------------------------------
\* Mutant of Refilled: the bucket is not capped.
RefilledUncapped == availableTokens + Rate * (now - lastRefillTime)

\* What the bucket holds once refill has run.
Refilled ==
    LET sum == availableTokens + Rate * (now - lastRefillTime)
    IN  IF Capacity <= sum THEN Capacity ELSE sum

\* Mutant of RefillAndTake: lastRefillTime is not advanced.
RefillAndTakeStale(n) ==
    /\ availableTokens' = Refilled - n
    /\ lastRefillTime' = lastRefillTime

\* refill, and in the same critical section n sub-units are taken.
RefillAndTake(n) ==
    /\ availableTokens' = Refilled - n
    /\ lastRefillTime' = now

\* History of a charge of n tokens to call c.
Charge(c, n) ==
    /\ spent' = spent + Price(n)
    /\ charged' = [charged EXCEPT ![c] = @ + Price(n)]

Return(c, r) ==
    /\ pc' = [pc EXCEPT ![c] = "done"]
    /\ ret' = [ret EXCEPT ![c] = r]

Goto(c, label) ==
    /\ pc' = [pc EXCEPT ![c] = label]
    /\ UNCHANGED ret

\* The entry point's check of tokenCost, before any lock.
RejectCost(c, n) ==
    /\ n <= 0
    /\ Return(c, "invalid")
    /\ UNCHANGED <<bucketVars, accountVars>>

\* AllowN finds enough tokens.
Grant(c, n) ==
    /\ n > 0
    /\ Refilled >= Price(n)
    /\ RefillAndTake(Price(n))
    /\ Charge(c, n)
    /\ Return(c, "allowed")

\* AllowN finds too few; the bucket has been refilled all the same.
TooFew(n) ==
    /\ n > 0
    /\ Refilled < Price(n)
    /\ RefillAndTake(0)
    /\ UNCHANGED accountVars

-----------------------------------------------------------------------------
AllowN(c, n) ==
    /\ pc[c] = "idle"
    /\ tokens' = [tokens EXCEPT ![c] = n]
    /\ \/ RejectCost(c, n)
       \/ Grant(c, n)
       \/ TooFew(n) /\ Return(c, "denied")
    /\ UNCHANGED <<now, reservationVars, windowVars>>

\* WaitN up to its call of ReserveN, which is a critical section of its own.
WaitN(c, n) ==
    /\ pc[c] = "idle"
    /\ tokens' = [tokens EXCEPT ![c] = n]
    /\ \/ RejectCost(c, n)
       \/ Grant(c, n)
       \/ TooFew(n) /\ Goto(c, "reserve")
    /\ UNCHANGED <<now, reservationVars, windowVars>>

\* WaitN goes on to wait; any other client keeps the reservation.
Reserved(c) == Goto(c, IF pc[c] = "reserve" THEN "wait" ELSE "holding")

\* There are enough tokens now: no waiter is registered.
ReserveNow(c, n) ==
    /\ n > 0
    /\ Refilled >= Price(n)
    /\ RefillAndTake(Price(n))
    /\ Charge(c, n)
    /\ Reserved(c)
    /\ timeToProcess' = [timeToProcess EXCEPT ![c] = now]
    /\ UNCHANGED <<waiters, closed, sleeper, ok>>

\* There are not: register a channel and start a goroutine that sleeps for
\* waitTime, which the conversion to a Duration rounds down.
ReserveLater(c, n) ==
    /\ n > 0
    /\ Refilled < Price(n)
    /\ RefillAndTake(0)
    /\ Reserved(c)
    /\ timeToProcess' = [timeToProcess EXCEPT ![c] = now + (Price(n) - Refilled) \div Rate]
    /\ waiters' = waiters \cup {c}
    /\ sleeper' = [sleeper EXCEPT ![c] = "sleeping"]
    /\ UNCHANGED <<closed, ok, accountVars>>

ReserveN(c, n) ==
    /\ \/ pc[c] = "idle"
       \/ pc[c] = "reserve" /\ n = tokens[c]
    /\ tokens' = [tokens EXCEPT ![c] = n]
    /\ \/ RejectCost(c, n) /\ UNCHANGED reservationVars
       \/ ReserveNow(c, n)
       \/ ReserveLater(c, n)
    /\ UNCHANGED <<now, windowVars>>

GetTokensAvailableN ==
    /\ RefillAndTake(0)
    /\ UNCHANGED <<now, reservationVars, clientVars, accountVars, windowVars>>

-----------------------------------------------------------------------------
\* Mutant of Fire: the waiter is notified whether or not tokens were taken.
FireAlwaysNotifies(c) ==
    /\ sleeper[c] = "sleeping"
    /\ now >= timeToProcess[c]
    /\ sleeper' = [sleeper EXCEPT ![c] = "notifying"]
    /\ \/ /\ availableTokens >= Price(tokens[c])
          /\ availableTokens' = availableTokens - Price(tokens[c])
          /\ Charge(c, tokens[c])
       \/ /\ availableTokens < Price(tokens[c])
          /\ UNCHANGED <<availableTokens, accountVars>>
    /\ UNCHANGED <<now, lastRefillTime, waiters, closed, timeToProcess, ok, clientVars, windowVars>>

\* Mutant of Fire: the goroutine ends once it has charged.
FireForgets(c) ==
    /\ sleeper[c] = "sleeping"
    /\ now >= timeToProcess[c]
    /\ sleeper' = [sleeper EXCEPT ![c] = "gone"]
    /\ \/ /\ availableTokens >= Price(tokens[c])
          /\ availableTokens' = availableTokens - Price(tokens[c])
          /\ Charge(c, tokens[c])
       \/ /\ availableTokens < Price(tokens[c])
          /\ UNCHANGED <<availableTokens, accountVars>>
    /\ UNCHANGED <<now, lastRefillTime, waiters, closed, timeToProcess, ok, clientVars, windowVars>>

\* The goroutine wakes and takes mu.  It does not refill the bucket, and it
\* ends, its waiter still registered, when the tokens are not there.
Fire(c) ==
    /\ sleeper[c] = "sleeping"
    /\ now >= timeToProcess[c]
    /\ \/ /\ availableTokens >= Price(tokens[c])
          /\ availableTokens' = availableTokens - Price(tokens[c])
          /\ Charge(c, tokens[c])
          /\ sleeper' = [sleeper EXCEPT ![c] = "notifying"]
       \/ /\ availableTokens < Price(tokens[c])
          /\ sleeper' = [sleeper EXCEPT ![c] = "gone"]
          /\ UNCHANGED <<availableTokens, accountVars>>
    /\ UNCHANGED <<now, lastRefillTime, waiters, closed, timeToProcess, ok, clientVars, windowVars>>

\* Mutant of Notify: the channel is closed but stays registered.
NotifyKeepsEntry(c) ==
    /\ sleeper[c] = "notifying"
    /\ sleeper' = [sleeper EXCEPT ![c] = "gone"]
    /\ closed' = IF c \in waiters THEN closed \cup {c} ELSE closed
    /\ UNCHANGED <<now, bucketVars, waiters, timeToProcess, ok, clientVars, accountVars, windowVars>>

\* Having charged, it takes waitersMu and closes the channel if it is there.
Notify(c) ==
    /\ sleeper[c] = "notifying"
    /\ sleeper' = [sleeper EXCEPT ![c] = "gone"]
    /\ closed' = IF c \in waiters THEN closed \cup {c} ELSE closed
    /\ waiters' = waiters \ {c}
    /\ UNCHANGED <<now, bucketVars, timeToProcess, ok, clientVars, accountVars, windowVars>>

-----------------------------------------------------------------------------
\* Wait, first part: the reservation's flag and the clock.
WaitCheck(c) ==
    /\ pc[c] \in {"holding", "wait"}
    /\ \/ ~ok[c] /\ Return(c, "ratelimited")
       \/ ok[c] /\ now > timeToProcess[c] /\ Return(c, "elapsed")
       \/ ok[c] /\ now <= timeToProcess[c] /\ Goto(c, "lookup")
    /\ UNCHANGED <<now, bucketVars, reservationVars, tokens, accountVars, windowVars>>

\* Wait, second part: the channel is looked up under waitersMu.
WaitLookup(c) ==
    /\ pc[c] = "lookup"
    /\ \/ c \in waiters /\ Goto(c, "select")
       \/ c \notin waiters /\ Return(c, "ratelimited")
    /\ UNCHANGED <<now, bucketVars, reservationVars, tokens, accountVars, windowVars>>

\* CancelAt(time.Now()): nothing once timeToProcess is reached, and nothing
\* for a reservation with no waiter.
CancelEffect(c) ==
    IF ok[c] /\ now < timeToProcess[c] /\ c \in waiters
    THEN /\ waiters' = waiters \ {c}
         /\ ok' = [ok EXCEPT ![c] = FALSE]
    ELSE UNCHANGED <<waiters, ok>>

\* Wait, select on ctx.Done: the context may be cancelled at any time.
WaitCancelled(c) ==
    /\ pc[c] = "select"
    /\ CancelEffect(c)
    /\ Return(c, "cancelled")
    /\ UNCHANGED <<now, bucketVars, closed, sleeper, timeToProcess, tokens, accountVars, windowVars>>

\* Wait, select on the channel.
WaitFulfilled(c) ==
    /\ pc[c] = "select"
    /\ c \in closed
    /\ Return(c, "fulfilled")
    /\ UNCHANGED <<now, bucketVars, reservationVars, tokens, accountVars, windowVars>>

\* The client cancels a reservation it holds; it may still call Wait on it.
CancelAt(c) ==
    /\ pc[c] = "holding"
    /\ CancelEffect(c)
    /\ UNCHANGED <<now, bucketVars, closed, sleeper, timeToProcess, clientVars, accountVars, windowVars>>

-----------------------------------------------------------------------------
Tick ==
    /\ now < MaxTime
    /\ now' = now + 1
    /\ UNCHANGED <<bucketVars, reservationVars, clientVars, accountVars, windowVars>>

\* History: a window of time starts now.
Observe ==
    /\ winStart' = now
    /\ winBase' = spent
    /\ UNCHANGED <<now, bucketVars, reservationVars, clientVars, accountVars>>

Entry(c) == \E n \in Costs : AllowN(c, n) \/ WaitN(c, n) \/ ReserveN(c, n)

OnReservation(c) ==
    \/ WaitCheck(c) \/ WaitLookup(c) \/ WaitCancelled(c) \/ WaitFulfilled(c)
    \/ CancelAt(c)
    \/ Fire(c) \/ Notify(c)

Next ==
    \/ Tick
    \/ Observe
    \/ GetTokensAvailableN
    \/ \E c \in Calls : Entry(c) \/ OnReservation(c)

Spec == Init /\ [][Next]_vars

-----------------------------------------------------------------------------
TypeOK ==
    /\ now \in Nat
    /\ availableTokens \in 0 .. Capacity
    /\ lastRefillTime \in 0 .. now
    /\ waiters \subseteq Calls
    /\ closed \subseteq Calls
    /\ sleeper \in [Calls -> {"none", "sleeping", "notifying", "gone"}]
    /\ tokens \in [Calls -> Int]
    /\ timeToProcess \in [Calls -> Nat]
    /\ ok \in [Calls -> BOOLEAN]
    /\ pc \in [Calls -> PCs]
    /\ ret \in [Calls -> Returns]
    /\ spent \in Nat
    /\ charged \in [Calls -> Nat]
    /\ winStart \in 0 .. now
    /\ winBase \in 0 .. spent

\* From the start of the program, what has been granted never exceeds a full
\* bucket plus what the elapsed time has added, whichever of AllowN, WaitN and
\* reservations was used and in whatever order their goroutines ran: the lazy
\* refill (lines 70-78) never credits the same time twice.
TotalBound == spent <= Capacity + Rate * now

\* No goroutine has taken tokens for a reservation (line 191).  It does so from a
\* bucket it has not refilled, and the bounds below only hold until then.  The
\* worker calls nothing but Allow, so in the program they always hold.
NoLateCharge == \A c \in Calls : sleeper[c] # "none" => charged[c] = 0

\* The same in every window of time, not only the first: over any interval the
\* bucket grants at most one burst of BucketSize plus the interval's refill, to
\* AllowN, WaitN and immediate reservations, while others sleep or give up.
WindowBound == NoLateCharge => spent - winBase <= Capacity + Rate * (now - winStart)

\* A call is charged its whole cost or nothing, and never twice: the goroutine of
\* a reservation and the client's own calls do not charge for the same tokens.
\* AllowN's true (line 100) and a closed channel (line 276) are only seen after
\* the charge, false and ErrInvalidTokenCost only without one.  The other answers
\* of Wait do not tell: NilMeansConsumed is about its nil, and an error, from a
\* context that ends or a channel that is gone, does not stop the goroutine.
AnswersMatchCharges ==
    \A c \in Calls :
        /\ charged[c] \in {0, Price(tokens[c])}
        /\ ret[c] \in {"allowed", "fulfilled"} => charged[c] = Price(tokens[c])
        /\ ret[c] \in {"denied", "invalid"} => charged[c] = 0
        /\ c \in closed => charged[c] = Price(tokens[c])

\* What limiter.go:78-80 says of Wait: nil if the tokens were consumed, an error
\* otherwise.  The nil that line 251 returns by the clock is even given the time
\* until the goroutine of the reservation has run, which may be late.
NilMeansConsumed ==
    \A c \in Calls :
        ret[c] \in {"allowed", "elapsed", "fulfilled"} /\ sleeper[c] # "sleeping"
          => charged[c] = Price(tokens[c])

\* A channel is closed at most once, and only while it is registered: a closed
\* channel has left the maps (line 198), its goroutine is over, and it was not
\* cancelled (line 312), so close(ch) at line 197 cannot panic and a cancelled
\* reservation is never reported as fulfilled.
ClosedOnce ==
    /\ closed \cap waiters = {}
    /\ \A c \in closed : sleeper[c] = "gone" /\ ok[c]

\* The goroutine of a reservation tries once (line 203), and a caller in the
\* select of Wait may be left with nobody to wake it but its context; the entry
\* in the maps is then left behind for ever when the context ends after
\* timeToProcess (line 302).  Both only happen to a reservation that was not
\* charged: no tokens are taken for a caller that is then forgotten.
StrandedUncharged ==
    \A c \in Calls :
        /\ pc[c] = "select" => c \in waiters \cup closed
        /\ c \in waiters /\ sleeper[c] \notin {"sleeping", "notifying"} => charged[c] = 0

\* What the bucket would hold if it were refilled now, written apart from
\* Refilled so that a change of the code's refill does not change it.
Level ==
    IF Capacity <= availableTokens + Rate * (now - lastRefillTime)
    THEN Capacity
    ELSE availableTokens + Rate * (now - lastRefillTime)

RL == INSTANCE RateLimit WITH level <- Level

\* The lazily refilled bucket implements the eager one, and every grant is a Spend
\* of what was granted: none hides in a stutter, whoever refills the bucket first
\* (line 70).
ImplementsRateLimit ==
    /\ RL!Init
    /\ [][NoLateCharge' =>
            /\ [RL!Next]_Level
            /\ spent' # spent => RL!Spend(spent' - spent)]_vars
=============================================================================
