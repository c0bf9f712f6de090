------------------------- MODULE ProviderCall_proofs -------------------------
(***************************************************************************)
(* Proofs about ProviderCall.  The properties speak of what was logged; to *)
(* be inductive they need to know how the log, the loop counter, the clock *)
(* and the place in the code go together, which is the invariant Loop.     *)
(***************************************************************************)
EXTENDS ProviderCall, TLAPS

Entries == [code : Statuses \cup {0}, from : Nat, to : Nat]

\* The loop of doRequest: each attempt before the current one is logged, failed
\* in a way that is retried, and was followed by a pause.
Loop ==
    /\ pc \in {"validate", "respond"} => caller = "direct"
    /\ pc \in {"validate", "process", "provider"} => log = <<>> /\ now = 0 /\ attempt = 0
    /\ pc \in {"validate", "process", "provider", "attempt", "sleep", "parse"} => ret = "none"
    /\ log # <<>> => req.provider \in Providers
    /\ pc = "attempt" =>
         /\ Len(log) = attempt
         /\ attempt <= MaxRetries[req.provider]
         /\ \A i \in DOMAIN log : Retryable(log[i].code)
         /\ attempt > 0 => Paced(attempt, now)
    /\ pc = "sleep" =>
         /\ Len(log) = attempt + 1
         /\ attempt < MaxRetries[req.provider]
         /\ \A i \in DOMAIN log : Retryable(log[i].code)
         /\ now = log[Len(log)].to
    /\ pc = "parse" => log # <<>> /\ Success(log[Len(log)].code)

IndInv == TypeOK /\ Loop /\ ReturnsInTime /\ AttemptsJustified /\ PacedUntilOverflow

-----------------------------------------------------------------------------
(* Numbers.                                                                *)

\* Arithmetic that wraps stays within the integers.
LEMMA BackoffRange ==
    ASSUME NEW p \in Providers, NEW k \in Nat
    PROVE  /\ Backoff(p, k) \in Int
           /\ Backoff(p, k) <= MaxBackoff[p]
  <1> DEFINE n == MinBackoff[p] * 2^k
             b == Wrap(n)
  <1>1. n \in Int /\ MaxBackoff[p] \in Nat
    BY ProviderCallAssumption
  <1>2. b \in Int
    <2>1. n + Modulus \div 2 \in Int
      BY <1>1, ProviderCallAssumption
    <2>2. (n + Modulus \div 2) % Modulus \in Int
      BY <2>1, ProviderCallAssumption
    <2> QED
      BY <2>2, ProviderCallAssumption DEF Wrap
  <1>3. Backoff(p, k) = IF b > MaxBackoff[p] THEN MaxBackoff[p] ELSE b
    BY DEF Backoff
  <1> HIDE DEF b, n
  <1> QED
    BY <1>1, <1>2, <1>3

\* What does not overflow is not changed by wrapping.
LEMMA WrapSmall ==
    ASSUME NEW n \in 0 .. Modulus \div 2 - 1
    PROVE  Wrap(n) = n
  <1>1. n + Modulus \div 2 \in 0 .. Modulus - 1
    BY ProviderCallAssumption
  <1>2. (n + Modulus \div 2) % Modulus = n + Modulus \div 2
    BY <1>1, ProviderCallAssumption
  <1> QED
    BY <1>2, ProviderCallAssumption DEF Wrap

\* A pause is shorter than 1.2 times maxBackoff, and longer than 0.8 times the
\* backoff, to the tick.
LEMMA PauseRange ==
    ASSUME NEW p \in Providers, NEW k \in Nat, NEW pause \in Pauses(p, k)
    PROVE  /\ pause \in Nat
           /\ pause > 0 => pause < (6 * MaxBackoff[p] + 4) \div 5
           /\ 5 * pause >= 4 * Backoff(p, k) - 4
  <1> DEFINE b == Backoff(p, k)
  <1>1. b \in Int /\ b <= MaxBackoff[p] /\ MaxBackoff[p] \in Nat
    BY BackoffRange, ProviderCallAssumption
  <1>2. pause \in IF b <= 0 THEN {0} ELSE (4 * b) \div 5 .. (6 * b + 4) \div 5 - 1
    BY DEF Pauses
  <1> HIDE DEF b
  <1>3. CASE b <= 0
    BY <1>1, <1>2, <1>3 DEF b
  <1>4. CASE b > 0
    <2>1. pause \in (4 * b) \div 5 .. (6 * b + 4) \div 5 - 1
      BY <1>1, <1>2, <1>4
    <2>2. (4 * b) \div 5 \in Nat /\ 5 * ((4 * b) \div 5) >= 4 * b - 4
      BY <1>1, <1>4
    <2>3. (6 * b + 4) \div 5 <= (6 * MaxBackoff[p] + 4) \div 5
      BY <1>1, <1>4
    <2>4. (6 * b + 4) \div 5 \in Int /\ (6 * MaxBackoff[p] + 4) \div 5 \in Int
      BY <1>1
    <2> QED
      BY <2>1, <2>2, <2>3, <2>4, <1>1 DEF b
  <1> QED
    BY <1>1, <1>3, <1>4 DEF b

\* What Append does to the log.
LEMMA AppendFacts ==
    ASSUME NEW S, NEW s \in Seq(S), NEW e \in S
    PROVE  /\ Append(s, e) \in Seq(S)
           /\ Len(s) \in Nat
           /\ Len(Append(s, e)) = Len(s) + 1
           /\ Append(s, e) # <<>>
           /\ \A i \in 1 .. Len(s) : Append(s, e)[i] = s[i]
           /\ Append(s, e)[Len(s) + 1] = e
           /\ DOMAIN s = 1 .. Len(s)
           /\ DOMAIN Append(s, e) = 1 .. Len(s) + 1
  OBVIOUS

-----------------------------------------------------------------------------
LEMMA Start == Init => IndInv
  <1> SUFFICES ASSUME Init PROVE IndInv
    OBVIOUS
  <1> USE ProviderCallAssumption DEF Init
  <1>1. TypeOK
    BY DEF TypeOK, Returns
  <1>2. Loop
    BY DEF Loop
  <1>3. ReturnsInTime /\ AttemptsJustified /\ PacedUntilOverflow
    BY DEF ReturnsInTime, AttemptsJustified, PacedUntilOverflow
  <1> QED
    BY <1>1, <1>2, <1>3 DEF IndInv

\* The steps that neither log an attempt nor let time pass.
LEMMA QuietSteps ==
    ASSUME IndInv,
           \/ DirectReject \/ DirectValidate
           \/ Process \/ ProcessRequest \/ GiveUp \/ Parse \/ DirectRespond
    PROVE  IndInv'
  <1> USE ProviderCallAssumption
  <1>1. CASE DirectReject
    BY <1>1 DEF DirectReject, IndInv, TypeOK, Loop, ReturnsInTime, AttemptsJustified,
                PacedUntilOverflow, Paced
  <1>2. CASE DirectValidate
    BY <1>2 DEF DirectValidate, IndInv, TypeOK, Loop, ReturnsInTime, AttemptsJustified,
                PacedUntilOverflow, Paced
  <1>3. CASE Process
    BY <1>3 DEF Process, Return, Returns, IndInv, TypeOK, Loop, ReturnsInTime, AttemptsJustified,
                PacedUntilOverflow, Paced
  <1>4. CASE GiveUp
    BY <1>4 DEF GiveUp, Return, Returns, IndInv, TypeOK, Loop, ReturnsInTime, AttemptsJustified,
                PacedUntilOverflow, Paced
  <1>5. CASE Parse
    BY <1>5 DEF Parse, Return, Returns, IndInv, TypeOK, Loop, ReturnsInTime, AttemptsJustified,
                PacedUntilOverflow, Paced
  <1>6. CASE DirectRespond
    BY <1>6 DEF DirectRespond, IndInv, TypeOK, Loop, ReturnsInTime, AttemptsJustified,
                PacedUntilOverflow, Paced
  <1>7. CASE ProcessRequest
    BY <1>7 DEF ProcessRequest, Return, Returns, IndInv, TypeOK, Loop, ReturnsInTime,
                AttemptsJustified, PacedUntilOverflow, Paced
  <1> QED
    BY <1>1, <1>2, <1>3, <1>4, <1>5, <1>6, <1>7

\* An attempt: what it logs is within the context, and what came before it was
\* retried with reason.
LEMMA AttemptStep ==
    ASSUME IndInv, Attempt
    PROVE  IndInv'
  <1> USE ProviderCallAssumption
  <1> DEFINE p == req.provider
  <1>1. PICK code \in Statuses \cup {0}, d \in 0 .. AttemptLimit :
          /\ now' = now + d
          /\ log' = Append(log, [code |-> code, from |-> now, to |-> now + d])
          /\ \/ Success(code) /\ pc' = "parse" /\ UNCHANGED ret
             \/ /\ Retryable(code) /\ attempt < MaxRetries[p]
                /\ pc' = "sleep"
                /\ UNCHANGED ret
             \/ ~Success(code) /\ Return("error")
    BY DEF Attempt
  <1>2. /\ pc = "attempt" /\ now < contextEnds
        /\ UNCHANGED <<caller, req, contextEnds, attempt, answer>>
    BY DEF Attempt
  <1>3. /\ p \in Providers /\ now \in Nat /\ contextEnds \in Nat /\ attempt \in Nat
        /\ log \in Seq(Entries)
        /\ MaxRetries[p] \in Nat
    BY <1>2 DEF IndInv, TypeOK, Entries
  <1>4. d \in Nat /\ now' \in Nat /\ now' <= contextEnds
    BY <1>1, <1>2, <1>3 DEF AttemptLimit
  <1> DEFINE e == [code |-> code, from |-> now, to |-> now + d]
  <1>5. e \in Entries /\ e.code = code /\ e.from = now /\ e.to = now'
    BY <1>1, <1>3, <1>4 DEF Entries
  <1>6. log' = Append(log, e)
    BY <1>1
  <1> HIDE DEF e
  <1>7. /\ log' \in Seq(Entries)
        /\ Len(log') = Len(log) + 1
        /\ log' # <<>>
        /\ \A i \in 1 .. Len(log) : log'[i] = log[i]
        /\ log'[Len(log) + 1] = e
        /\ DOMAIN log = 1 .. Len(log) /\ DOMAIN log' = 1 .. Len(log) + 1
        /\ Len(log) \in Nat
    BY <1>3, <1>5, <1>6, AppendFacts
  <1>len. Len(log) \in Nat
    BY <1>7
  <1>old. \A i \in 1 .. Len(log) : log'[i] = log[i] /\ i \in DOMAIN log
    BY <1>7
  <1>dom. \A i \in DOMAIN log' : i \in 1 .. Len(log) \/ i = Len(log) + 1
    BY <1>7, <1>len
  <1>8. /\ Len(log) = attempt /\ attempt <= MaxRetries[p]
        /\ \A i \in DOMAIN log : Retryable(log[i].code)
        /\ attempt > 0 => Paced(attempt, now)
        /\ ret = "none" /\ answer = 0
    BY <1>2 DEF IndInv, Loop, TypeOK
  <1>9. TypeOK'
    BY <1>1, <1>2, <1>3, <1>4, <1>7, <1>8 DEF IndInv, TypeOK, Return, Returns, Entries
  <1>10. Loop'
    <2>1. (pc = "sleep")' => \A i \in DOMAIN log' : Retryable(log'[i].code)
      BY <1>1, <1>5, <1>7, <1>8 DEF Return
    <2>2. (pc = "sleep")' => Len(log') = attempt' + 1 /\ attempt' < MaxRetries[req'.provider]
                              /\ now' = log'[Len(log')].to
      BY <1>1, <1>2, <1>3, <1>5, <1>7, <1>8 DEF Return
    <2>3. (pc = "parse")' => log' # <<>> /\ Success(log'[Len(log')].code)
      BY <1>1, <1>5, <1>7 DEF Return
    <2>4. pc' \in {"parse", "sleep", "respond", "returned"}
          /\ (pc' = "respond" => caller' = "direct")
          /\ (pc' \in {"parse", "sleep"} => ret' = "none")
      BY <1>1, <1>2, <1>8 DEF Return
    <2> QED
      BY <2>1, <2>2, <2>3, <2>4, <1>2, <1>3 DEF Loop
  <1>11. ReturnsInTime'
    <2>1. \A i \in DOMAIN log : log[i].from < contextEnds /\ log[i].to <= contextEnds
      BY DEF IndInv, ReturnsInTime
    <2>2. \A i \in DOMAIN log' : log'[i].from < contextEnds /\ log'[i].to <= contextEnds
      BY <2>1, <1>2, <1>4, <1>5, <1>7, <1>old, <1>dom
    <2> QED
      BY <2>2, <1>2, <1>3, <1>4 DEF ReturnsInTime
  <1>12. AttemptsJustified'
    <2>1. ret' # "response"
      BY <1>1, <1>8 DEF Return
    <2>2. \A i \in 1 .. Len(log') - 1 : Retryable(log'[i].code)
      <3>1. Len(log') - 1 = Len(log)
        BY <1>7, <1>len
      <3> QED
        BY <3>1, <1>old, <1>8
    <2> QED
      BY <2>1, <2>2, <1>2, <1>3, <1>7, <1>8 DEF AttemptsJustified
  <1>13. PacedUntilOverflow'
    <2> SUFFICES ASSUME NEW i \in 1 .. Len(log)
                 PROVE  Paced(i, log[i + 1].from)'
      BY <1>7 DEF PacedUntilOverflow
    <2>1. log'[i] = log[i]
      BY <1>7
    <2>2. CASE i = Len(log)
      <3>1. Paced(i, now) /\ log'[i + 1].from = now
        BY <2>2, <1>5, <1>7, <1>8
      <3> QED
        BY <3>1, <2>1, <1>2 DEF Paced
    <2>3. CASE i # Len(log)
      <3>1. i \in 1 .. Len(log) - 1 /\ i + 1 \in 1 .. Len(log)
        BY <2>3, <1>len
      <3>2. Paced(i, log[i + 1].from) /\ log'[i + 1] = log[i + 1]
        BY <3>1, <1>7 DEF IndInv, PacedUntilOverflow
      <3> QED
        BY <3>2, <2>1, <1>2 DEF Paced
    <2> QED
      BY <2>2, <2>3
  <1> QED
    BY <1>9, <1>10, <1>11, <1>12, <1>13 DEF IndInv

\* A pause: it may run past the context, but not by more than its own length.
LEMMA SleepStep ==
    ASSUME IndInv, Sleep
    PROVE  IndInv'
  <1> USE ProviderCallAssumption
  <1> DEFINE p == req.provider
  <1>1. PICK pause \in Pauses(p, attempt) : now' = now + pause
    BY DEF Sleep
  <1>2. /\ pc = "sleep" /\ pc' = "attempt" /\ attempt' = attempt + 1
        /\ UNCHANGED <<caller, req, contextEnds, ret, answer, log>>
    BY DEF Sleep
  <1>3. /\ p \in Providers /\ now \in Nat /\ contextEnds \in Nat /\ attempt \in Nat
        /\ log \in Seq(Entries)
        /\ MaxRetries[p] \in Nat /\ MaxBackoff[p] \in Nat
    BY <1>2 DEF IndInv, TypeOK, Entries
  <1>4. /\ Len(log) = attempt + 1 /\ attempt < MaxRetries[p]
        /\ \A i \in DOMAIN log : Retryable(log[i].code)
        /\ now = log[Len(log)].to
        /\ ret = "none"
    BY <1>2 DEF IndInv, Loop
  <1>5. now <= contextEnds
    <2>1. Len(log) \in DOMAIN log
      BY <1>3, <1>4
    <2> QED
      BY <2>1, <1>4 DEF IndInv, ReturnsInTime
  <1>6. /\ pause \in Nat
        /\ pause > 0 => pause < (6 * MaxBackoff[p] + 4) \div 5
        /\ 5 * pause >= 4 * Backoff(p, attempt) - 4
    BY <1>1, <1>3, PauseRange
  <1>7. TypeOK'
    BY <1>1, <1>2, <1>3, <1>6 DEF IndInv, TypeOK
  <1>8. Paced(attempt + 1, now')
    <2> DEFINE full == MinBackoff[p] * 2^((attempt + 1) - 1)
    <2>1. (attempt + 1) - 1 = attempt
      BY <1>3
    <2>2. ASSUME full \in 0 .. Modulus \div 2 - 1
          PROVE  Backoff(p, attempt) = IF full > MaxBackoff[p] THEN MaxBackoff[p] ELSE full
      BY <2>1, <2>2, WrapSmall DEF Backoff
    <2>3. now' - log[attempt + 1].to = pause
      BY <1>1, <1>3, <1>4, <1>6
    <2> QED
      BY <2>2, <2>3, <1>6 DEF Paced
  <1>9. Loop'
    <2>1. Paced(attempt, now)'
      BY <1>8, <1>2 DEF Paced
    <2> QED
      BY <2>1, <1>2, <1>3, <1>4 DEF Loop
  <1>10. ReturnsInTime'
    <2>1. (6 * MaxBackoff[p] + 4) \div 5 \in Int
      BY <1>3
    <2>2. now' > contextEnds => now' - contextEnds < (6 * MaxBackoff[p] + 4) \div 5
      BY <2>1, <1>1, <1>3, <1>5, <1>6
    <2> QED
      BY <2>2, <1>2, <1>3 DEF IndInv, ReturnsInTime
  <1>11. AttemptsJustified'
    BY <1>2 DEF IndInv, AttemptsJustified
  <1>12. PacedUntilOverflow'
    BY <1>2 DEF IndInv, PacedUntilOverflow, Paced
  <1> QED
    BY <1>7, <1>9, <1>10, <1>11, <1>12 DEF IndInv

LEMMA Step == IndInv /\ [Next]_vars => IndInv'
  <1> SUFFICES ASSUME IndInv, [Next]_vars PROVE IndInv'
    OBVIOUS
  <1>1. CASE Next
    BY <1>1, QuietSteps, AttemptStep, SleepStep DEF Next
  <1>2. CASE UNCHANGED vars
    BY <1>2 DEF vars, IndInv, TypeOK, Loop, ReturnsInTime, AttemptsJustified,
                PacedUntilOverflow, Paced
  <1> QED
    BY <1>1, <1>2

LEMMA Invariance == Spec => []IndInv
  BY Start, Step, PTL DEF Spec

-----------------------------------------------------------------------------
\* Every variable keeps its type, and the direct handler answers on every path
\* (direct_handler.go, lines 30-155).
THEOREM TypeCorrect == Spec => []TypeOK
  <1>1. IndInv => TypeOK
    BY DEF IndInv
  <1> QED
    BY <1>1, Invariance, PTL

\* A call of Process outlives its context by less than one longest pause, for
\* every configuration and every behaviour of the provider (doRequest).
THEOREM InTime == Spec => []ReturnsInTime
  <1>1. IndInv => ReturnsInTime
    BY DEF IndInv
  <1> QED
    BY <1>1, Invariance, PTL

\* One charge pays for at most maxRetries + 1 calls of the provider, each but the
\* last one failed in a way that doRequest retries.
THEOREM AttemptsCorrect == Spec => []AttemptsJustified
  <1>1. IndInv => AttemptsJustified
    BY DEF IndInv
  <1> QED
    BY <1>1, Invariance, PTL

\* calculateBackoff paces the attempts until its product overflows.
THEOREM PacingCorrect == Spec => []PacedUntilOverflow
  <1>1. IndInv => PacedUntilOverflow
    BY DEF IndInv
  <1> QED
    BY <1>1, Invariance, PTL
=============================================================================
