----------------------------- MODULE Governance ------------------------------
(***************************************************************************)
(* Calls of a value-rpc client through the interceptors that               *)
(* vrpc/resilience.go installs.  Servion decides which interceptors there  *)
(* are and in which order; what each of them does (value-rpc/resilience)   *)
(* is external and reduced to what its order in the chain can change.      *)
(* Goroutines of the application call concurrently.                        *)
(***************************************************************************)
EXTENDS Integers, Sequences, FiniteSets

CONSTANTS
    Callers,    \* goroutines that use the client
    MaxOps      \* bound on the calls of each

VARIABLES
    chain,      \* the interceptors, outermost first: [kind, n]
    calls,      \* the call of each goroutine, a record (see NewCall)
    tokens,     \* what is left of the rate limit
    breaker     \* the circuit breaker: [state, fails]

governance == <<chain, calls, tokens, breaker>>

(* at: the interceptor whose turn it is, Len(chain) + 1 for the client     *)
(* itself; way: "idle", "down", "wire", "up"; tries: what Retry counts;    *)
(* timer: the attempt Timeout was armed for; sent and counted are history: *)
(* the attempts made, and how often the breaker took note of the call.     *)
NewCall(ops) == [at |-> 0, way |-> "idle", result |-> "none", ops |-> ops,
                 tries |-> 0, timer |-> 0, sent |-> 0, counted |-> 0]

-----------------------------------------------------------------------------
(* ResiliencePolicyFactory.Object over the properties that are present, a  *)
(* function from keys to numbers.                                          *)

GetInt(props, key, default) == IF key \in DOMAIN props THEN props[key] ELSE default

When(enabled, kind, n) == IF enabled THEN <<[kind |-> kind, n |-> n]>> ELSE <<>>

RateLimit(props) ==
    When(GetInt(props, "rate-limit.per-second", 0) > 0, "rateLimit",
         GetInt(props, "rate-limit.burst", 1))

Bulkhead(props) ==
    LET n == GetInt(props, "bulkhead.max-concurrent", 0) IN When(n > 0, "bulkhead", n)

CircuitBreaker(props) ==
    LET n == GetInt(props, "circuit-breaker.threshold", 0) IN When(n > 0, "breaker", n)

Retry(props) ==
    LET n == GetInt(props, "retry.max-attempts", 0) IN When(n > 1, "retry", n)

(* Mutation: the property is read in seconds.                              *)
TimeoutInSeconds(props) ==
    LET n == GetInt(props, "timeout-ms", 0) \div 1000 IN When(n > 0, "timeout", n)

Timeout(props) ==
    LET n == GetInt(props, "timeout-ms", 0) IN When(n > 0, "timeout", n)

(* Mutations: the chain is put together in another order.                  *)
RetryOutermost(props) ==
    Retry(props) \o RateLimit(props) \o Bulkhead(props) \o CircuitBreaker(props) \o Timeout(props)
BreakerInside(props) ==
    RateLimit(props) \o Bulkhead(props) \o Retry(props) \o CircuitBreaker(props) \o Timeout(props)
TimeoutOutside(props) ==
    RateLimit(props) \o Bulkhead(props) \o CircuitBreaker(props) \o Timeout(props) \o Retry(props)

Interceptors(props) ==
    RateLimit(props) \o Bulkhead(props) \o CircuitBreaker(props) \o Retry(props) \o Timeout(props)

(* A rate limiter starts with a full burst.                                *)
Burst(interceptors) ==
    LET limits == {i \in DOMAIN interceptors : interceptors[i].kind = "rateLimit"}
    IN  IF limits = {} THEN 0 ELSE interceptors[CHOOSE i \in limits : TRUE].n

-----------------------------------------------------------------------------
Moved(c, r) == calls' = [calls EXCEPT ![c] = r]

Kind(c) == IF calls[c].at \in DOMAIN chain THEN chain[calls[c].at].kind ELSE "none"

Limit(c) == chain[calls[c].at].n

Has(kind) == \E i \in DOMAIN chain : chain[i].kind = kind

(* The calls that hold a slot of the bulkhead: they are inside it.         *)
Inside(kind) ==
    {c \in Callers : \E i \in DOMAIN chain : chain[i].kind = kind /\ calls[c].at > i}

Down(c) == [calls[c] EXCEPT !.at = @ + 1]
Up(c) == [calls[c] EXCEPT !.way = "up", !.at = @ - 1]
Refused(c) == [Up(c) EXCEPT !.result = "refused"]

(* A goroutine calls CallFunction.                                         *)
Invoke(c) ==
    /\ calls[c].way = "idle"
    /\ calls[c].ops < MaxOps
    /\ Moved(c, [NewCall(calls[c].ops + 1) EXCEPT !.at = 1, !.way = "down"])
    /\ UNCHANGED <<chain, tokens, breaker>>

Descending(c, kind) == calls[c].way = "down" /\ Kind(c) = kind

RateLimitDown(c) ==
    /\ Descending(c, "rateLimit")
    /\ IF tokens > 0 THEN Moved(c, Down(c)) /\ tokens' = tokens - 1
                     ELSE Moved(c, Refused(c)) /\ UNCHANGED tokens
    /\ UNCHANGED <<chain, breaker>>

BulkheadDown(c) ==
    /\ Descending(c, "bulkhead")
    /\ Moved(c, IF Cardinality(Inside("bulkhead")) < Limit(c) THEN Down(c) ELSE Refused(c))
    /\ UNCHANGED <<chain, tokens, breaker>>

BreakerDown(c) ==
    /\ Descending(c, "breaker")
    /\ Moved(c, IF breaker.state = "open" THEN Refused(c) ELSE Down(c))
    /\ UNCHANGED <<chain, tokens, breaker>>

RetryDown(c) ==
    /\ Descending(c, "retry")
    /\ Moved(c, [Down(c) EXCEPT !.tries = 1])
    /\ UNCHANGED <<chain, tokens, breaker>>

(* The deadline is set for the attempt that follows.                       *)
TimeoutDown(c) ==
    /\ Descending(c, "timeout")
    /\ Moved(c, [Down(c) EXCEPT !.timer = calls[c].sent + 1])
    /\ UNCHANGED <<chain, tokens, breaker>>

(* Below the last interceptor the client sends the request.                *)
Send(c) ==
    /\ calls[c].way = "down"
    /\ calls[c].at = Len(chain) + 1
    /\ Moved(c, [calls[c] EXCEPT !.way = "wire", !.sent = @ + 1])
    /\ UNCHANGED <<chain, tokens, breaker>>

Returns(c, result) ==
    /\ calls[c].way = "wire"
    /\ Moved(c, [Up(c) EXCEPT !.result = result])
    /\ UNCHANGED <<chain, tokens, breaker>>

(* The context of Timeout expires while the attempt is under way.          *)
Expire(c) == calls[c].timer # 0 /\ Returns(c, "deadline")

Ascending(c, kind) == calls[c].way = "up" /\ Kind(c) = kind

PassUp(c) ==
    /\ \E kind \in {"rateLimit", "bulkhead"} : Ascending(c, kind)
    /\ Moved(c, Up(c))
    /\ UNCHANGED <<chain, tokens, breaker>>

TimeoutUp(c) ==
    /\ Ascending(c, "timeout")
    /\ Moved(c, [Up(c) EXCEPT !.timer = 0])
    /\ UNCHANGED <<chain, tokens, breaker>>

(* The default predicate retries exactly CodeUnavailable (see              *)
(* vrpc/examples/resilience/main.go); the backoff is the delay of the step.*)
RetryUp(c) ==
    /\ Ascending(c, "retry")
    /\ Moved(c, IF calls[c].result = "unavailable" /\ calls[c].tries < Limit(c)
                THEN [calls[c] EXCEPT !.way = "down", !.at = @ + 1, !.tries = @ + 1,
                                      !.result = "none"]
                ELSE Up(c))
    /\ UNCHANGED <<chain, tokens, breaker>>

(* Failures in a row open the breaker; the first one after the cooldown    *)
(* opens it again.                                                         *)
BreakerUp(c) ==
    /\ Ascending(c, "breaker")
    /\ Moved(c, [Up(c) EXCEPT !.counted = @ + 1])
    /\ breaker' =
         IF calls[c].result = "ok" THEN [state |-> "closed", fails |-> 0]
         ELSE IF breaker.state = "halfOpen" \/ breaker.fails + 1 >= Limit(c)
              THEN [state |-> "open", fails |-> 0]
              ELSE [breaker EXCEPT !.fails = @ + 1]
    /\ UNCHANGED <<chain, tokens>>

(* The call returns to the application.                                    *)
Finish(c) ==
    /\ calls[c].way = "up"
    /\ calls[c].at = 0
    /\ Moved(c, [calls[c] EXCEPT !.way = "idle"])
    /\ UNCHANGED <<chain, tokens, breaker>>

(* Time passes: the limiter gets a token back, the cooldown is over.       *)
Refill ==
    /\ tokens < Burst(chain)
    /\ tokens' = tokens + 1
    /\ UNCHANGED <<chain, calls, breaker>>

Cooldown ==
    /\ breaker.state = "open"
    /\ breaker' = [breaker EXCEPT !.state = "halfOpen"]
    /\ UNCHANGED <<chain, calls, tokens>>

(* What the goroutine of a call does by itself.                            *)
Proceed(c) ==
    \/ RateLimitDown(c) \/ BulkheadDown(c) \/ BreakerDown(c) \/ RetryDown(c) \/ TimeoutDown(c)
    \/ Send(c) \/ Expire(c)
    \/ PassUp(c) \/ TimeoutUp(c) \/ RetryUp(c) \/ BreakerUp(c) \/ Finish(c)

-----------------------------------------------------------------------------
(* A call that limiter, bulkhead or breaker turn away has not reached the  *)
(* server: they stand outside Retry, so that an attempt once made is       *)
(* followed up and no answer is thrown away for lack of a token or slot.   *)
RefusedUntouched ==
    \A c \in Callers : calls[c].result = "refused" => calls[c].sent = 0

(* "the breaker observes whole post-retry operations" (resilience.go): it  *)
(* takes note of a call once, however many attempts it took.               *)
BreakerCountsOperations ==
    \A c \in Callers : calls[c].counted <= 1

(* "the timeout bounds each attempt": an attempt on the wire runs against  *)
(* a deadline that was set for it, not against what the earlier ones left. *)
AttemptsHaveOwnTimeout ==
    Has("timeout") =>
        \A c \in Callers : calls[c].way = "wire" => calls[c].timer = calls[c].sent
=============================================================================
