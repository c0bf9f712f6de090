-------------------------- MODULE RedisTokenBucket --------------------------
(***************************************************************************)
(* The Redis rate limiter (internal/limiter/redis_limiter.go): one bucket, *)
(* kept in two Redis keys, that every instance refills and charges with a  *)
(* Lua script, at the time its own clock reads.                            *)
(*                                                                         *)
(* A script is one step.  The keys are shared; the waiters belong to the   *)
(* instances, and each member of Calls is one use of the limiter by one    *)
(* client of one of them, whose name is also the reservationID.  Redis may *)
(* fail to run a script, or run it and lose the reply; go-redis then sends *)
(* the same command again, or gives up with an error.                      *)
(*                                                                         *)
(* now is the time of the Redis server, in ticks.  The time a script is    *)
(* given is read in whole seconds from a clock that may be ahead or        *)
(* behind, before a delay of the network and of the repetitions: what is   *)
(* known of it is that it is at most Ahead later and Lag earlier than the  *)
(* moment the script runs.  Tokens are counted in sub-units.               *)
(***************************************************************************)
EXTENDS Integers

CONSTANTS
    Calls,        \* uses of the limiter, each by one client
    Costs,        \* token costs the clients ask for
    BucketSize,   \* in tokens
    Unit,         \* sub-units in a token
    Rate,         \* tokensPerSecond, as sub-units per tick
    Second,       \* ticks in a second, the unit of time.Now().Unix()
    Ahead,        \* the most a script's time is ahead of Redis's
    Lag,          \* the most it is behind
    Expiry,       \* keyExpiry
    MaxRepeats,   \* bound on the commands sent again
    MaxTime       \* bound on the clock

Capacity == BucketSize * Unit

\* How far two readings of the time can disagree, in sub-units.
Skew == Rate * (Ahead + Lag)

ASSUME RedisBucketAssumption ==
    /\ BucketSize \in Nat
    /\ Unit \in Nat \ {0}
    /\ Rate \in Nat \ {0}
    /\ Second \in Nat \ {0}
    /\ Ahead \in Nat
    /\ Lag \in Nat /\ Lag >= Second - 1
    /\ MaxRepeats \in Nat
    /\ MaxTime \in Nat
    /\ Costs \subseteq Int

\* A bucket is full again before its keys can expire.
ASSUME ExpiryAssumption ==
    Expiry \in Nat \ {0} /\ Rate * Expiry >= Capacity + Skew

VARIABLES
    now,             \* the time of the Redis server
    bucket,          \* value of the bucket key, in sub-units
    timestamp,       \* value of the timestamp key
    expireAt,        \* when both keys, always set together, expire
    waiters,         \* reservations with a registered channel
    closed,          \* reservations whose channel has been closed
    sleeper,         \* the goroutine ReserveN starts for a reservation
    verdict,         \* what the AllowN of that goroutine returned
    tokens,          \* the cost each call asked for
    timeToProcess,   \* field of the reservation
    ok,              \* field of the reservation
    pc,              \* where each client is
    ret,             \* the return statement each finished call left by
    retrying,        \* calls whose command in flight is to be sent again
    stamp,           \* the time that command carries
    repeats          \* commands sent again so far

\* History: what each call was charged, how many replies it lost, and the
\* reference bucket of RefusalJustified.
VARIABLES charged, lost, floor

keyVars == <<bucket, timestamp, expireAt>>
reservationVars == <<waiters, closed, sleeper, verdict, timeToProcess, ok>>
clientVars == <<tokens, pc, ret>>
commandVars == <<retrying, stamp, repeats>>
historyVars == <<charged, lost, floor>>
vars == <<now, keyVars, reservationVars, clientVars, commandVars, historyVars>>

Price(n) == n * Unit

Lesser(a, b) == IF a <= b THEN a ELSE b

PCs == {"idle", "allow", "waitAllow", "reserve", "waitReserve",
        "available", "holding", "wait", "lookup", "select", "done"}

\* "elapsed" and "assumed" are the returns of nil by the clock, at lines 489
\* and 520, "fulfilled" the one by the channel, at line 525.
Returns == {"none", "invalid", "unavailable", "allowed", "denied", "available",
            "elapsed", "assumed", "fulfilled", "ratelimited", "timedout", "cancelled"}

Init ==
    /\ now = 0
    /\ bucket = Capacity
    /\ timestamp = 0
    /\ expireAt = 0
    /\ waiters = {}
    /\ closed = {}
    /\ sleeper = [c \in Calls |-> "none"]
    /\ verdict = [c \in Calls |-> "none"]
    /\ tokens = [c \in Calls |-> 0]
    /\ timeToProcess = [c \in Calls |-> 0]
    /\ ok = [c \in Calls |-> TRUE]
    /\ pc = [c \in Calls |-> "idle"]
    /\ ret = [c \in Calls |-> "none"]
    /\ retrying = {}
    /\ stamp = [c \in Calls |-> 0]
    /\ repeats = 0
    /\ charged = [c \in Calls |-> 0]
    /\ lost = [c \in Calls |-> 0]
    /\ floor = Capacity - Skew

-----------------------------------------------------------------------------
(* The scripts.                                                            *)

\* The times an instance may put in a command that reaches Redis now.
Readings == {t \in (now - Lag) .. (now + Ahead) : t % Second = 0}

\* A repeated command carries the time of the first.
Stamps(c) == IF c \in retrying THEN {stamp[c]} ELSE Readings

KeysLive == now < expireAt

\* Mutant of Refilled: the bucket is not capped.
RefilledUncapped(t) ==
    IF KeysLive THEN bucket + Rate * (t - timestamp) ELSE Capacity

\* Mutant of Refilled: time that seems to go backwards adds nothing.
RefilledForwardOnly(t) ==
    IF KeysLive
    THEN Lesser(Capacity, bucket + (IF t > timestamp THEN Rate * (t - timestamp) ELSE 0))
    ELSE Capacity

\* What the bucket holds once a script has refilled it.  A time before the
\* timestamp takes tokens away, below zero if need be; missing keys read as a
\* full bucket refilled just now.
Refilled(t) ==
    IF KeysLive THEN Lesser(Capacity, bucket + Rate * (t - timestamp)) ELSE Capacity

Enough(t, n) == Refilled(t) >= Price(n)

\* Mutant of SetKeys: the timestamp is only written when tokens are taken.
SetKeysStale(t, n) ==
    /\ bucket' = Refilled(t) - n
    /\ timestamp' = IF KeysLive /\ n = 0 THEN timestamp ELSE t
    /\ expireAt' = now + Expiry

\* The keys after a script at time t that takes n sub-units.
SetKeys(t, n) ==
    /\ bucket' = Refilled(t) - n
    /\ timestamp' = t
    /\ expireAt' = now + Expiry

\* Mutant of RunScript: a refusal writes the timestamp but not the bucket.
RunScriptForgets(c, t) ==
    \/ /\ Enough(t, tokens[c])
       /\ SetKeys(t, Price(tokens[c]))
       /\ charged' = [charged EXCEPT ![c] = @ + Price(tokens[c])]
       /\ floor' = floor - Price(tokens[c])
    \/ /\ ~Enough(t, tokens[c])
       /\ timestamp' = t
       /\ expireAt' = now + Expiry
       /\ UNCHANGED <<bucket, charged, floor>>

\* The script of AllowN, and that of ReserveN: they treat the keys alike.
RunScript(c, t) ==
    \/ /\ Enough(t, tokens[c])
       /\ SetKeys(t, Price(tokens[c]))
       /\ charged' = [charged EXCEPT ![c] = @ + Price(tokens[c])]
       /\ floor' = floor - Price(tokens[c])
    \/ /\ ~Enough(t, tokens[c])
       /\ SetKeys(t, 0)
       /\ UNCHANGED <<charged, floor>>

\* A goroutine's AllowN starts when it has slept.
Waking(c) == sleeper[c] = "sleeping" /\ now >= timeToProcess[c]

InFlight(c) ==
    \/ pc[c] \in {"allow", "waitAllow", "reserve", "waitReserve", "available"}
    \/ Waking(c)

\* The script runs, its reply is lost, and the command will be sent again.
Repeat(c) ==
    /\ InFlight(c)
    /\ repeats < MaxRepeats
    /\ \E t \in Stamps(c) : RunScript(c, t) /\ stamp' = [stamp EXCEPT ![c] = t]
    /\ retrying' = retrying \cup {c}
    /\ repeats' = repeats + 1
    /\ lost' = [lost EXCEPT ![c] = @ + 1]
    /\ UNCHANGED <<now, reservationVars, clientVars>>

\* The command is over, with a reply or an error.
Settle(c) ==
    /\ retrying' = retrying \ {c}
    /\ stamp' = [stamp EXCEPT ![c] = 0]
    /\ UNCHANGED repeats

Return(c, r) ==
    /\ pc' = [pc EXCEPT ![c] = "done"]
    /\ ret' = [ret EXCEPT ![c] = r]

Goto(c, label) ==
    /\ pc' = [pc EXCEPT ![c] = label]
    /\ UNCHANGED ret

\* An error is returned, be it that the script has not run or that the last
\* reply is lost: ErrBackendUnavailable to a client; a goroutine just ends.
GiveUp(c) ==
    /\ InFlight(c)
    /\ \/ UNCHANGED <<keyVars, historyVars>>
       \/ /\ \E t \in Stamps(c) : RunScript(c, t)
          /\ lost' = [lost EXCEPT ![c] = @ + 1]
    /\ Settle(c)
    /\ IF Waking(c)
       THEN /\ sleeper' = [sleeper EXCEPT ![c] = "gone"]
            /\ verdict' = [verdict EXCEPT ![c] = "failed"]
            /\ UNCHANGED <<pc, ret>>
       ELSE Return(c, "unavailable") /\ UNCHANGED <<sleeper, verdict>>
    /\ UNCHANGED <<now, waiters, closed, timeToProcess, ok, tokens>>

-----------------------------------------------------------------------------
(* The operations.                                                         *)

\* AllowN, WaitN and ReserveN up to their first command.
Call(c, n, label) ==
    /\ pc[c] = "idle"
    /\ tokens' = [tokens EXCEPT ![c] = n]
    /\ \/ n <= 0 /\ Return(c, "invalid")
       \/ n > 0 /\ Goto(c, label)
    /\ UNCHANGED <<now, keyVars, reservationVars, commandVars, historyVars>>

\* The third script refills the bucket and asks for nothing.
GetTokensAvailableN(c) ==
    /\ pc[c] = "idle"
    /\ tokens' = [tokens EXCEPT ![c] = 0]
    /\ Goto(c, "available")
    /\ UNCHANGED <<now, keyVars, reservationVars, commandVars, historyVars>>

AllowN(c, n) == Call(c, n, "allow")

WaitN(c, n) == Call(c, n, "waitAllow")

ReserveN(c, n) == Call(c, n, "reserve")

\* Mutant of AllowReply: WaitN reserves although its tokens have been granted.
AllowReplyFallsThrough(c) ==
    /\ pc[c] \in {"allow", "waitAllow"}
    /\ \E t \in Stamps(c) :
        /\ RunScript(c, t)
        /\ \/ Enough(t, tokens[c]) /\ pc[c] = "allow" /\ Return(c, "allowed")
           \/ ~Enough(t, tokens[c]) /\ pc[c] = "allow" /\ Return(c, "denied")
           \/ pc[c] = "waitAllow" /\ Goto(c, "waitReserve")
    /\ Settle(c)
    /\ UNCHANGED <<now, reservationVars, tokens, lost>>

\* The reply to a client's AllowN; WaitN goes on to ReserveN when refused.
AllowReply(c) ==
    /\ pc[c] \in {"allow", "waitAllow"}
    /\ \E t \in Stamps(c) :
        /\ RunScript(c, t)
        /\ \/ Enough(t, tokens[c]) /\ Return(c, "allowed")
           \/ ~Enough(t, tokens[c]) /\ pc[c] = "allow" /\ Return(c, "denied")
           \/ ~Enough(t, tokens[c]) /\ pc[c] = "waitAllow" /\ Goto(c, "waitReserve")
    /\ Settle(c)
    /\ UNCHANGED <<now, reservationVars, tokens, lost>>

AvailableReply(c) ==
    /\ pc[c] = "available"
    /\ \E t \in Stamps(c) : RunScript(c, t)
    /\ Return(c, "available")
    /\ Settle(c)
    /\ UNCHANGED <<now, reservationVars, tokens, lost>>

\* wait_ms: what is missing over the rate, rounded up.
WaitTime(t, n) == -((Refilled(t) - Price(n)) \div Rate)

\* The reply to ReserveN: the tokens have been taken, or a channel is registered
\* and a goroutine started that will ask for them when they should be there.
ReserveReply(c) ==
    /\ pc[c] \in {"reserve", "waitReserve"}
    /\ \E t \in Stamps(c) :
        /\ RunScript(c, t)
        /\ \/ /\ Enough(t, tokens[c])
              /\ timeToProcess' = [timeToProcess EXCEPT ![c] = now]
              /\ UNCHANGED <<waiters, sleeper>>
           \/ /\ ~Enough(t, tokens[c])
              /\ timeToProcess' = [timeToProcess EXCEPT ![c] = now + WaitTime(t, tokens[c])]
              /\ waiters' = waiters \cup {c}
              /\ sleeper' = [sleeper EXCEPT ![c] = "sleeping"]
    /\ Goto(c, IF pc[c] = "waitReserve" THEN "wait" ELSE "holding")
    /\ Settle(c)
    /\ UNCHANGED <<now, closed, verdict, ok, tokens, lost>>

\* The reply to the goroutine's AllowN.
WakerReply(c) ==
    /\ Waking(c)
    /\ \E t \in Stamps(c) :
        /\ RunScript(c, t)
        /\ verdict' = [verdict EXCEPT ![c] = IF Enough(t, tokens[c]) THEN "allowed" ELSE "denied"]
    /\ sleeper' = [sleeper EXCEPT ![c] = "notifying"]
    /\ Settle(c)
    /\ UNCHANGED <<now, waiters, closed, timeToProcess, ok, clientVars, lost>>

\* Mutant of Notify: the channel is closed but stays registered.
NotifyKeepsEntry(c) ==
    /\ sleeper[c] = "notifying"
    /\ sleeper' = [sleeper EXCEPT ![c] = "gone"]
    /\ closed' = IF c \in waiters THEN closed \cup {c} ELSE closed
    /\ UNCHANGED <<now, keyVars, waiters, verdict, timeToProcess, ok, clientVars,
                   commandVars, historyVars>>

\* Mutant of Notify: a goroutine that was refused tells nobody.
NotifyIfAllowed(c) ==
    /\ sleeper[c] = "notifying"
    /\ sleeper' = [sleeper EXCEPT ![c] = "gone"]
    /\ \/ /\ verdict[c] = "allowed"
          /\ closed' = IF c \in waiters THEN closed \cup {c} ELSE closed
          /\ waiters' = waiters \ {c}
       \/ verdict[c] # "allowed" /\ UNCHANGED <<waiters, closed>>
    /\ UNCHANGED <<now, keyVars, verdict, timeToProcess, ok, clientVars, commandVars, historyVars>>

\* Allowed or not, it closes the channel if it is still registered.
Notify(c) ==
    /\ sleeper[c] = "notifying"
    /\ sleeper' = [sleeper EXCEPT ![c] = "gone"]
    /\ closed' = IF c \in waiters THEN closed \cup {c} ELSE closed
    /\ waiters' = waiters \ {c}
    /\ UNCHANGED <<now, keyVars, verdict, timeToProcess, ok, clientVars, commandVars, historyVars>>

-----------------------------------------------------------------------------
(* The reservation.                                                        *)

\* Wait, first part: the reservation's flag and the clock.
WaitCheck(c) ==
    /\ pc[c] \in {"holding", "wait"}
    /\ \/ ~ok[c] /\ Return(c, "ratelimited")
       \/ ok[c] /\ now > timeToProcess[c] /\ Return(c, "elapsed")
       \/ ok[c] /\ now <= timeToProcess[c] /\ Goto(c, "lookup")
    /\ UNCHANGED <<now, keyVars, reservationVars, tokens, commandVars, historyVars>>

\* Wait, second part: the channel is looked up under waitersMu.
WaitLookup(c) ==
    /\ pc[c] = "lookup"
    /\ \/ c \in waiters /\ Goto(c, "select")
       \/ c \notin waiters /\ Return(c, "ratelimited")
    /\ UNCHANGED <<now, keyVars, reservationVars, tokens, commandVars, historyVars>>

\* CancelAt(time.Now()): the waiter is removed, the goroutine sleeps on.
CancelEffect(c) ==
    IF ok[c] /\ now < timeToProcess[c] /\ c \in waiters
    THEN /\ waiters' = waiters \ {c}
         /\ ok' = [ok EXCEPT ![c] = FALSE]
    ELSE UNCHANGED <<waiters, ok>>

\* Wait, the select.  The context may end at any time, and timeoutCtx ends with
\* it or with the grace period, so that its case can be taken at any time too.
WaitSelect(c) ==
    /\ pc[c] = "select"
    /\ \/ CancelEffect(c) /\ Return(c, "cancelled")
       \/ now > timeToProcess[c] /\ Return(c, "assumed") /\ UNCHANGED <<waiters, ok>>
       \/ now <= timeToProcess[c] /\ CancelEffect(c) /\ Return(c, "timedout")
       \/ c \in closed /\ Return(c, "fulfilled") /\ UNCHANGED <<waiters, ok>>
    /\ UNCHANGED <<now, keyVars, closed, sleeper, verdict, timeToProcess, tokens,
                   commandVars, historyVars>>

\* The client cancels a reservation it holds; it may still call Wait on it.
CancelAt(c) ==
    /\ pc[c] = "holding"
    /\ CancelEffect(c)
    /\ UNCHANGED <<now, keyVars, closed, sleeper, verdict, timeToProcess, clientVars,
                   commandVars, historyVars>>

-----------------------------------------------------------------------------
\* A command is not repeated for longer than Lag allows.
Tick ==
    /\ now < MaxTime
    /\ \A c \in retrying : now < stamp[c] + Lag
    /\ now' = now + 1
    /\ floor' = Lesser(Capacity - Skew, floor + Rate)
    /\ UNCHANGED <<keyVars, reservationVars, clientVars, commandVars, charged, lost>>

Entry(c) ==
    \/ GetTokensAvailableN(c)
    \/ \E n \in Costs : AllowN(c, n) \/ WaitN(c, n) \/ ReserveN(c, n)

Command(c) ==
    Repeat(c) \/ GiveUp(c) \/ AllowReply(c) \/ ReserveReply(c) \/ AvailableReply(c) \/ WakerReply(c)

OnReservation(c) ==
    WaitCheck(c) \/ WaitLookup(c) \/ WaitSelect(c) \/ CancelAt(c) \/ Notify(c)

Next ==
    \/ Tick
    \/ \E c \in Calls : Entry(c) \/ Command(c) \/ OnReservation(c)

Spec == Init /\ [][Next]_vars

-----------------------------------------------------------------------------
TypeOK ==
    /\ now \in Nat
    /\ bucket \in Int /\ bucket <= Capacity
    /\ timestamp \in Int
    /\ expireAt \in Nat
    /\ waiters \subseteq Calls
    /\ closed \subseteq Calls
    /\ sleeper \in [Calls -> {"none", "sleeping", "notifying", "gone"}]
    /\ verdict \in [Calls -> {"none", "allowed", "denied", "failed"}]
    /\ tokens \in [Calls -> Int]
    /\ timeToProcess \in [Calls -> Nat]
    /\ ok \in [Calls -> BOOLEAN]
    /\ pc \in [Calls -> PCs]
    /\ ret \in [Calls -> Returns]
    /\ retrying \subseteq Calls
    /\ stamp \in [Calls -> Int]
    /\ repeats \in 0 .. MaxRepeats
    /\ charged \in [Calls -> Nat]
    /\ lost \in [Calls -> Nat]
    /\ floor \in Int

\* What the keys are worth at Redis's own time, whoever wrote them last.
Worth == bucket + Rate * (now - timestamp)

\* Clocks that disagree can drive the stored value below zero (line 133), but no
\* further than the time by which two readings can disagree, however often
\* slow and fast instances take turns.
DebtBounded == KeysLive => bucket >= -Skew

\* The level of the abstract bucket: what the keys are worth to an instance as
\* far ahead as can be, and full when the keys are gone.
Level ==
    IF KeysLive
    THEN Lesser(Capacity + Skew, Worth + Rate * Ahead)
    ELSE Capacity + Skew

RL == INSTANCE RateLimit WITH Capacity <- Capacity + Skew, level <- Level

\* With clocks that disagree, replies that are lost and keys that expire, the
\* shared bucket still implements the abstract one, with a burst larger by the
\* disagreement of the clocks only; nothing but time raises its level, and what a
\* script charges to a call is covered by what the abstract bucket loses.
ImplementsRateLimit ==
    /\ RL!Spec
    /\ [][now' = now => \A c \in Calls : charged'[c] - charged[c] <= Level - Level']_vars

\* A step in which call c, or the goroutine of its reservation, is refused.
Refused(c) ==
    /\ charged'[c] = charged[c]
    /\ \/ ret[c] # "denied" /\ ret'[c] = "denied"
       \/ pc[c] = "waitAllow" /\ pc'[c] = "waitReserve"
       \/ sleeper[c] # "sleeping" /\ sleeper'[c] = "sleeping"
       \/ verdict[c] # "denied" /\ verdict'[c] = "denied"

\* The limiter is not too strict either: a refusal means that even a bucket
\* smaller by the disagreement of the clocks, refilled by Redis's time and
\* charged with the same grants, would not have had the tokens.  Tokens that a
\* slow clock takes away come back.
RefusalJustified ==
    [][\A c \in Calls : Refused(c) => floor < Price(tokens[c])]_vars

\* An answer of AllowN or ReserveN and what was charged for it.  A grant has been
\* paid for, and by more than its price only when replies were lost: each
\* repetition may pay again, and a refusal or an error may have cost tokens in
\* that way (line 325, and the default retries of the client).
AnswersPaid ==
    \A c \in Calls :
        /\ ret[c] = "invalid" => charged[c] = 0
        /\ ret[c] # "invalid" => charged[c] <= Price(tokens[c]) * (lost[c] + 1)
        /\ ret[c] = "allowed" => charged[c] >= Price(tokens[c])
        /\ ret[c] = "denied" => charged[c] <= Price(tokens[c]) * lost[c]

\* What limiter.go:78-80 says of Wait: nil if the tokens were consumed, an error
\* otherwise.  Wait returns nil by the clock (lines 488 and 518-520), even given
\* the time until the goroutine has asked for the tokens, and by the channel,
\* which is closed when the tokens were refused too (lines 404-411).
NilMeansConsumed ==
    \A c \in Calls :
        ret[c] \in {"allowed", "elapsed", "assumed", "fulfilled"} /\ sleeper[c] # "sleeping"
          => charged[c] >= Price(tokens[c])

\* A channel is closed at most once and only while registered, so that the two
\* close(ch) at lines 399 and 407 cannot panic; a reservation that CancelAt has
\* cancelled is never reported as fulfilled by its channel.
ClosedOnce ==
    /\ closed \cap waiters = {}
    /\ \A c \in closed : sleeper[c] = "gone" /\ ok[c]

\* A caller in the select of Wait, and an entry in the maps, have a goroutine
\* that will see to them; only an error of its AllowN (line 393) leaves them
\* behind, the caller until the grace period ends, the entry for ever.
StrandedOnlyByError ==
    \A c \in Calls :
        /\ pc[c] = "select" => c \in waiters \cup closed
        /\ c \in waiters => sleeper[c] \in {"sleeping", "notifying"} \/ verdict[c] = "failed"
=============================================================================
