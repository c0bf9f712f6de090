---------------------------- MODULE ProviderCall ----------------------------
(***************************************************************************)
(* One call of Service.Process (internal/llm/provider.go), as the direct   *)
(* handler (internal/handler/direct_handler.go) and a worker's processItem *)
(* make it: the choice of the provider, and doRequest, which sends the     *)
(* request again, after a pause, when an attempt fails.                    *)
(*                                                                         *)
(* Time is in ticks of time.Duration.  The call may use the context until  *)
(* contextEnds: its timeout, or the moment when the client goes away or    *)
(* the service is shut down.  The provider is external: an attempt takes   *)
(* any time its limits allow and ends in any status, or in none.           *)
(***************************************************************************)
EXTENDS Integers, Sequences

CONSTANTS
    Providers,        \* configured providers
    DefaultProvider,  \* cfg.DefaultProvider
    DefaultModel,     \* cfg.DefaultModel
    Models,           \* the models of each provider
    RequestTimeout,   \* per provider; 0 is no limit, as in http.Client
    MaxRetries,       \* per provider
    MinBackoff,       \* per provider
    MaxBackoff,       \* per provider
    ValidURL,         \* providers whose BaseURL http.NewRequest accepts
    Timeout,          \* the context's timeout for each caller
    Requests,         \* requests made, of [provider, model]
    Empty,            \* the name that is not given
    Statuses,         \* HTTP statuses of the provider
    Modulus           \* number of values of a Duration: 2^64

ASSUME ProviderCallAssumption ==
    /\ DefaultProvider # Empty /\ DefaultModel # Empty
    /\ Empty \notin Providers
    /\ RequestTimeout \in [Providers -> Nat]
    /\ MaxRetries \in [Providers -> Nat]
    /\ MinBackoff \in [Providers -> Nat]
    /\ MaxBackoff \in [Providers -> Nat]
    /\ ValidURL \subseteq Providers
    /\ Timeout \in [{"direct", "worker"} -> Nat]
    /\ DefaultProvider \in Providers
    /\ Statuses \subseteq Nat \ {0}
    /\ Modulus \in Nat \ {0}

VARIABLES
    caller,        \* who makes the call
    req,           \* the request; Process fills in what is missing
    contextEnds,   \* when the context is done
    now,           \* the clock, from the start of the call
    pc,            \* where the call is
    attempt,       \* the loop counter of doRequest
    ret,           \* what Process returns
    answer         \* the HTTP status the direct handler writes, or 0

\* History: the attempts made, of [code, from, to].
VARIABLE log

vars == <<caller, req, contextEnds, now, pc, attempt, ret, answer, log>>

\* The queueing handler has validated what a worker passes on.
Init ==
    /\ caller \in {"direct", "worker"}
    /\ req \in Requests
    /\ caller = "worker" => req.provider # Empty /\ req.model # Empty
    /\ contextEnds \in 0 .. Timeout[caller]
    /\ now = 0
    /\ pc = IF caller = "direct" THEN "validate" ELSE "process"
    /\ attempt = 0
    /\ ret = "none"
    /\ answer = 0
    /\ log = <<>>

Return(r) ==
    /\ ret' = r
    /\ pc' = IF caller = "direct" THEN "respond" ELSE "returned"

-----------------------------------------------------------------------------
(* Numbers.                                                                *)

\* Arithmetic of a signed integer.
Wrap(n) == ((n + Modulus \div 2) % Modulus) - Modulus \div 2

\* Mutant of Backoff: it does not grow.
BackoffConstant(p, k) ==
    IF MinBackoff[p] > MaxBackoff[p] THEN MaxBackoff[p] ELSE MinBackoff[p]

\* calculateBackoff before the jitter.
Backoff(p, k) ==
    LET b == Wrap(MinBackoff[p] * 2^k)
    IN  IF b > MaxBackoff[p] THEN MaxBackoff[p] ELSE b

\* The jitter multiplies by a number of [0.8, 1.2) and truncates.  Sleep returns
\* at once if the result is not positive.
Pauses(p, k) ==
    LET b == Backoff(p, k)
    IN  IF b <= 0 THEN {0} ELSE (4 * b) \div 5 .. (6 * b + 4) \div 5 - 1

\* Code 0 is an attempt without an answer: Do or ReadAll failed.
Retryable(code) == code \in {0, 429, 500, 502, 503, 504}

Success(code) == code \in 200 .. 299

\* Mutant of AttemptLimit: the request is made without the context.
AttemptLimitNoContext ==
    IF RequestTimeout[DefaultProvider] = 0 THEN contextEnds - now
    ELSE RequestTimeout[DefaultProvider]

\* How long an attempt can take: until the context is done, or the timeout of
\* the one http.Client, which NewService takes from the default provider.
AttemptLimit ==
    LET t == RequestTimeout[DefaultProvider]
        rest == contextEnds - now
    IN  IF t = 0 \/ rest < t THEN rest ELSE t

-----------------------------------------------------------------------------
(* The direct handler up to the call.                                      *)

\* A wrong method, an unreadable body or a malformed one.
DirectReject ==
    /\ pc = "validate"
    /\ answer' \in {400, 405}
    /\ pc' = "returned"
    /\ UNCHANGED <<caller, req, contextEnds, now, attempt, ret, log>>

\* The provider and the model are required here.
DirectValidate ==
    /\ pc = "validate"
    /\ \/ /\ req.provider = Empty \/ req.model = Empty
          /\ answer' = 400
          /\ pc' = "returned"
       \/ /\ req.provider # Empty /\ req.model # Empty
          /\ pc' = "process"
          /\ UNCHANGED answer
    /\ UNCHANGED <<caller, req, contextEnds, now, attempt, ret, log>>

-----------------------------------------------------------------------------
(* Process and doRequest.                                                  *)

\* The defaults, which both callers make superfluous.
Named(r) ==
    [provider |-> IF r.provider = Empty THEN DefaultProvider ELSE r.provider,
     model |-> IF r.model = Empty THEN DefaultModel ELSE r.model]

Process ==
    /\ pc = "process"
    /\ req' = Named(req)
    /\ \/ /\ req'.provider \notin Providers
          /\ Return("ErrProviderNotFound")
       \/ /\ req'.provider \in Providers
          /\ pc' = "provider"
          /\ UNCHANGED ret
    /\ UNCHANGED <<caller, contextEnds, now, attempt, answer, log>>

\* ProcessRequest up to its call of doRequest, alike in the three providers.
ProcessRequest ==
    /\ pc = "provider"
    /\ \/ /\ req.model \notin Models[req.provider]
          /\ Return("ErrModelNotFound")
       \/ /\ req.model \in Models[req.provider]
          /\ pc' = "attempt"
          /\ UNCHANGED ret
    /\ UNCHANGED <<caller, req, contextEnds, now, attempt, answer, log>>

\* The tests at the top of an attempt.
GiveUp ==
    /\ pc = "attempt"
    /\ \/ /\ now >= contextEnds
          /\ Return("ErrContextCanceled")
       \/ /\ now < contextEnds
          /\ req.provider \notin ValidURL
          /\ Return("error")
    /\ UNCHANGED <<caller, req, contextEnds, now, attempt, answer, log>>

\* Mutant of Attempt: a retryable failure is retried without counting.
AttemptOneMore ==
    /\ pc = "attempt"
    /\ now < contextEnds
    /\ req.provider \in ValidURL
    /\ \E code \in Statuses \cup {0}, d \in 0 .. AttemptLimit :
         /\ now' = now + d
         /\ log' = Append(log, [code |-> code, from |-> now, to |-> now + d])
         /\ \/ /\ Success(code)
               /\ pc' = "parse"
               /\ UNCHANGED ret
            \/ /\ Retryable(code) /\ attempt <= MaxRetries[req.provider]
               /\ pc' = "sleep"
               /\ UNCHANGED ret
            \/ /\ ~Success(code)
               /\ ~(Retryable(code) /\ attempt <= MaxRetries[req.provider])
               /\ Return("error")
    /\ UNCHANGED <<caller, req, contextEnds, attempt, answer>>

\* One attempt: Do and ReadAll, and what the code does with the outcome.
Attempt ==
    /\ pc = "attempt"
    /\ now < contextEnds
    /\ req.provider \in ValidURL
    /\ \E code \in Statuses \cup {0}, d \in 0 .. AttemptLimit :
         /\ now' = now + d
         /\ log' = Append(log, [code |-> code, from |-> now, to |-> now + d])
         /\ \/ /\ Success(code)
               /\ pc' = "parse"
               /\ UNCHANGED ret
            \/ /\ Retryable(code) /\ attempt < MaxRetries[req.provider]
               /\ pc' = "sleep"
               /\ UNCHANGED ret
            \/ /\ ~Success(code)
               /\ ~(Retryable(code) /\ attempt < MaxRetries[req.provider])
               /\ Return("error")
    /\ UNCHANGED <<caller, req, contextEnds, attempt, answer>>

\* time.Sleep, which the context does not interrupt.
Sleep ==
    /\ pc = "sleep"
    /\ \E pause \in Pauses(req.provider, attempt) : now' = now + pause
    /\ attempt' = attempt + 1
    /\ pc' = "attempt"
    /\ UNCHANGED <<caller, req, contextEnds, ret, answer, log>>

\* The body of a 2xx answer is JSON, or not.
Parse ==
    /\ pc = "parse"
    /\ Return("response") \/ Return("error")
    /\ UNCHANGED <<caller, req, contextEnds, now, attempt, answer, log>>

\* Mutant of DirectRespond: an error is logged and not answered.
DirectRespondSilent ==
    /\ pc = "respond"
    /\ answer' = IF ret = "response" THEN 200 ELSE answer
    /\ pc' = "returned"
    /\ UNCHANGED <<caller, req, contextEnds, now, attempt, ret, log>>

\* The direct handler answers.
DirectRespond ==
    /\ pc = "respond"
    /\ answer' = IF ret = "response" THEN 200 ELSE 500
    /\ pc' = "returned"
    /\ UNCHANGED <<caller, req, contextEnds, now, attempt, ret, log>>

-----------------------------------------------------------------------------
Next ==
    \/ DirectReject \/ DirectValidate
    \/ Process \/ ProcessRequest
    \/ GiveUp \/ Attempt \/ Sleep
    \/ Parse
    \/ DirectRespond

Spec == Init /\ [][Next]_vars

-----------------------------------------------------------------------------
Returns == {"none", "ErrProviderNotFound", "ErrModelNotFound", "ErrContextCanceled",
            "error", "response"}

\* The last conjunct: the direct handler writes a status on every path on which
\* it returns, and only then.
TypeOK ==
    /\ caller \in {"direct", "worker"}
    /\ contextEnds \in 0 .. Timeout[caller]
    /\ now \in Nat
    /\ pc \in {"validate", "process", "provider", "attempt", "sleep", "parse", "respond",
              "returned"}
    /\ pc \in {"provider", "attempt", "sleep", "parse"} => req.provider \in Providers
    /\ attempt \in Nat
    /\ ret \in Returns
    /\ answer \in {0, 200, 400, 405, 500}
    /\ log \in Seq([code : Statuses \cup {0}, from : Nat, to : Nat])
    /\ answer # 0 <=> caller = "direct" /\ pc = "returned"

\* No attempt starts once the context is done (line 311) or outlives it, and the
\* call, which holds a slot of the worker, returns at most one longest pause
\* after it: the pause of line 338, 356 or 375, which nothing interrupts.
ReturnsInTime ==
    /\ \A i \in DOMAIN log : log[i].from < contextEnds /\ log[i].to <= contextEnds
    /\ now > contextEnds =>
         /\ req.provider \in Providers
         /\ now - contextEnds < (6 * MaxBackoff[req.provider] + 4) \div 5

\* The provider is called at most maxRetries + 1 times for the one charge made
\* to the limiter, again only after no answer or a transient status, never after
\* an answer that was accepted; and a response comes from an accepted answer.
AttemptsJustified ==
    /\ log # <<>> => Len(log) <= MaxRetries[req.provider] + 1
    /\ \A i \in 1 .. Len(log) - 1 : Retryable(log[i].code)
    /\ ret = "response" => log # <<>> /\ Success(log[Len(log)].code)

\* The attempt after the i-th starts at least 80% of the capped exponential
\* pause later, to the tick, if minBackoff * 2^(i - 1) does not overflow.
Paced(i, start) ==
    LET p == req.provider
        full == MinBackoff[p] * 2^(i - 1)
        pause == IF full > MaxBackoff[p] THEN MaxBackoff[p] ELSE full
    IN  full \in 0 .. Modulus \div 2 - 1 => 5 * (start - log[i].to) >= 4 * pause - 4

\* Attempts are paced as long as the product of line 388 does not overflow;
\* after that it is negative or zero, and attempts follow each other at once.
PacedUntilOverflow == \A i \in 1 .. Len(log) - 1 : Paced(i, log[i + 1].from)
=============================================================================
