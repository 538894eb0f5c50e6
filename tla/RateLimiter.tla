----------------------------- MODULE RateLimiter -----------------------------
(***************************************************************************)
(* ratelimit_middleware.go: a counter per client that is reset lazily, by  *)
(* the first request that finds it older than Interval, and a cleaner      *)
(* goroutine that removes the counters of clients that went away.  Time    *)
(* is discrete; what the code computes from time.Now() is the age          *)
(* now.Sub(lastReset), which is what the model keeps (up to MaxAge, above  *)
(* which the code cannot tell ages apart), so that runs need no time       *)
(* bound.  The mutex makes each critical section one step.                 *)
(***************************************************************************)
EXTENDS Naturals

CONSTANTS
    Clients,    \* values of the client id header
    Limit,      \* ratelimit.limit
    Interval    \* ratelimit.interval, in ticks

ASSUME LimitAssumption == Limit \in Nat
ASSUME IntervalAssumption == Interval \in Nat \ {0}

CleanAge == 5 * Interval        \* doCleanExpired removes older buckets
CleanPeriod == 10 * Interval    \* period of the ticker
MaxAge == CleanAge + 1

VARIABLES
    known,      \* clients that have a bucket
    count,      \* bucket.count
    age,        \* time since bucket.lastReset
    phase,      \* time since the ticker last fired
    tick,       \* ticker.C holds a tick (its capacity is one)
    cleaner,    \* cleanerLoop: "running" or "exited"
    ctxDone,    \* the cleaner's context is done: Destroy or the runtime's shutdown
    destroy,    \* Destroy: "no", "waiting" (in wg.Wait), "returned"
    recent      \* history: requests let through at most k ticks ago, for k in 0..Interval

bucketVars == <<known, count, age>>
vars == <<bucketVars, phase, tick, cleaner, ctxDone, destroy, recent>>

(* RateLimiterMiddleware and PostConstruct, which starts the cleaner.      *)
Init ==
    /\ known = {}
    /\ count = [c \in Clients |-> 0]
    /\ age = [c \in Clients |-> 0]
    /\ phase = 0
    /\ tick = FALSE
    /\ cleaner = "running"
    /\ ctxDone = FALSE
    /\ destroy = "no"
    /\ recent = [c \in Clients |-> [k \in 0..Interval |-> 0]]

-----------------------------------------------------------------------------
(* Mutation: the reset comes when the age reaches Interval.                *)
ExpiredEarly(c) == c \in known /\ age[c] >= Interval

(* The bucket is older than the interval: the next request resets it.      *)
Expired(c) == c \in known /\ age[c] > Interval

(* A request that finds no bucket creates one; both start from zero.       *)
Fresh(c) == c \notin known \/ Expired(c)

CountSeen(c) == IF Fresh(c) THEN 0 ELSE count[c]

(* The bucket as the critical section leaves it, with n requests counted.  *)
Touch(c, n) ==
    /\ known' = known \cup {c}
    /\ count' = [count EXCEPT ![c] = n]
    /\ age' = [age EXCEPT ![c] = IF Fresh(c) THEN 0 ELSE @]

OneMore(history) == [k \in 0..Interval |-> history[k] + 1]

(* Mutation: one request too many.                                         *)
PassOnOffByOne(c) ==
    /\ CountSeen(c) <= Limit
    /\ Touch(c, CountSeen(c) + 1)
    /\ recent' = [recent EXCEPT ![c] = OneMore(@)]
    /\ UNCHANGED <<phase, tick, cleaner, ctxDone, destroy>>

(* Middleware: counted and handed to the next handler.                     *)
PassOn(c) ==
    /\ CountSeen(c) < Limit
    /\ Touch(c, CountSeen(c) + 1)
    /\ recent' = [recent EXCEPT ![c] = OneMore(@)]
    /\ UNCHANGED <<phase, tick, cleaner, ctxDone, destroy>>

(* Middleware: 429; a bucket created or reset on the way stays.            *)
TooMany(c) ==
    /\ CountSeen(c) >= Limit
    /\ Touch(c, CountSeen(c))
    /\ UNCHANGED <<phase, tick, cleaner, ctxDone, destroy, recent>>

(* Middleware: OPTIONS, or no client id, is handed on without counting.    *)
Bypass == UNCHANGED vars

-----------------------------------------------------------------------------
(* Mutation: the cleaner removes every bucket.                             *)
CleanAll(c) == TRUE

(* Mutation: the cleaner removes no bucket.                                *)
CleanNone(c) == FALSE

(* doCleanExpired's condition.                                             *)
Stale(c) == age[c] > CleanAge

(* cleanerLoop takes a tick and removes what is stale.                     *)
Clean ==
    /\ cleaner = "running"
    /\ tick
    /\ tick' = FALSE
    /\ known' = {c \in known : ~Stale(c)}
    /\ UNCHANGED <<count, age, phase, cleaner, ctxDone, destroy, recent>>

(* Mutation: cleanerLoop does not watch its context.                       *)
CleanerExitNever == cleaner = "none" /\ UNCHANGED vars

(* cleanerLoop finds its context done; wg.Done.                            *)
CleanerExit ==
    /\ cleaner = "running"
    /\ ctxDone
    /\ cleaner' = "exited"
    /\ UNCHANGED <<bucketVars, phase, tick, ctxDone, destroy, recent>>

(* The runtime the context is derived from is shut down.                   *)
RuntimeDone ==
    /\ ~ctxDone
    /\ ctxDone' = TRUE
    /\ UNCHANGED <<bucketVars, phase, tick, cleaner, destroy, recent>>

(* Destroy cancels the context and waits for the cleaner.                  *)
Destroy ==
    /\ destroy = "no"
    /\ destroy' = "waiting"
    /\ ctxDone' = TRUE
    /\ UNCHANGED <<bucketVars, phase, tick, cleaner, recent>>

DestroyReturn ==
    /\ destroy = "waiting"
    /\ cleaner = "exited"
    /\ destroy' = "returned"
    /\ UNCHANGED <<bucketVars, phase, tick, cleaner, ctxDone, recent>>

-----------------------------------------------------------------------------
Older(a) == IF a = MaxAge THEN MaxAge ELSE a + 1

(* Time passes.  A tick that finds ticker.C full is dropped.               *)
Time ==
    /\ age' = [c \in Clients |-> Older(age[c])]
    /\ phase' = IF phase + 1 = CleanPeriod THEN 0 ELSE phase + 1
    /\ tick' = (tick \/ phase + 1 = CleanPeriod)
    /\ recent' = [c \in Clients |->
                    [k \in 0..Interval |-> IF k = 0 THEN 0 ELSE recent[c][k - 1]]]
    /\ UNCHANGED <<known, count, cleaner, ctxDone, destroy>>

Next ==
    \/ \E c \in Clients : PassOn(c) \/ TooMany(c)
    \/ Bypass
    \/ Clean \/ CleanerExit \/ RuntimeDone \/ Destroy \/ DestroyReturn
    \/ Time

Spec == Init /\ [][Next]_vars

(* The cleaner runs when it can, time passes, wg.Wait returns.             *)
Fairness ==
    /\ WF_vars(Clean) /\ WF_vars(CleanerExit)
    /\ WF_vars(DestroyReturn) /\ WF_vars(Time)

FairSpec == Spec /\ Fairness

-----------------------------------------------------------------------------
TypeOK ==
    /\ known \subseteq Clients
    /\ count \in [Clients -> 0..Limit]
    /\ age \in [Clients -> 0..MaxAge]
    /\ phase \in 0..(CleanPeriod - 1)
    /\ tick \in BOOLEAN
    /\ cleaner \in {"running", "exited"}
    /\ ctxDone \in BOOLEAN
    /\ destroy \in {"no", "waiting", "returned"}
    /\ recent \in [Clients -> [0..Interval -> Nat]]

(* In any stretch of time as long as the interval, both ends included, a   *)
(* client gets at most twice the limit through: the counter is a fixed     *)
(* window, two of which meet in such a stretch, and neither the lazy reset *)
(* nor the cleaner opens a third.                                          *)
AtMostTwiceLimit == \A c \in Clients : recent[c][Interval] <= 2 * Limit

(* The bucket of a client that stays away is removed: the map does not     *)
(* grow for ever.                                                          *)
IdleBucketRemoved ==
    \A c \in Clients :
        Expired(c) ~> (~Expired(c) \/ cleaner = "exited")

(* Once Destroy has returned no bucket is removed any more, whatever ticks *)
(* are left in the channel: the container may close.                       *)
QuietAfterDestroy == [][destroy = "returned" => known \subseteq known']_vars

(* Destroy does not hang in wg.Wait, wherever the cleaner is, and leaves   *)
(* no cleaner behind.                                                      *)
DestroyEnds ==
    /\ (destroy = "waiting") ~> (destroy = "returned")
    /\ QuietAfterDestroy

(* The code is a plain fixed window, as FixedWindow.tla has it: neither    *)
(* the lazy reset nor the cleaner can be noticed.  A bucket that is        *)
(* missing, or older than the interval, is no window.                      *)
UsedIn(c) == IF c \in known /\ age[c] <= Interval THEN count[c] ELSE 0
SinceIn(c) == IF UsedIn(c) = 0 THEN 0 ELSE age[c]

Window == INSTANCE FixedWindow
    WITH used <- [c \in Clients |-> UsedIn(c)], since <- [c \in Clients |-> SinceIn(c)]

FixedWindowSpec == Window!WindowSpec

-----------------------------------------------------------------------------
(* A statement of the documentation that the code does not keep.           *)

(* README.md: "sliding window per-client rate limiter": in no stretch of   *)
(* time shorter than the interval does a client get more than the limit.   *)
SlidingWindow == \A c \in Clients : recent[c][Interval - 1] <= Limit
=============================================================================
