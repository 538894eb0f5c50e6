-------------------------- MODULE RateLimiterProofs --------------------------
(***************************************************************************)
(* Proofs about RateLimiter.tla for any clients, any Limit and any         *)
(* positive Interval: the types, which hold that no counter exceeds Limit; *)
(* how much gets through in a stretch of time; what Destroy ends; and that *)
(* the limiter implements the windows of FixedWindow.tla, for which a      *)
(* bucket that exists has counted a request, unless Limit is zero: else    *)
(* the window would have opened before its first request.                  *)
(***************************************************************************)
EXTENDS RateLimiter, TLAPS

(* No bucket is empty, except when nothing is ever let through.            *)
BucketsCount == \A c \in known : count[c] > 0 \/ Limit = 0

LimiterInv == TypeOK /\ BucketsCount

-----------------------------------------------------------------------------
(* The count a request starts from is between zero and Limit.              *)
LEMMA CountSeenType ==
  ASSUME TypeOK, NEW c \in Clients
  PROVE  CountSeen(c) \in 0..Limit
  BY LimitAssumption DEF TypeOK, CountSeen

(* The derived times are in order.                                         *)
LEMMA Times ==
  /\ MaxAge \in Nat /\ CleanAge \in Nat /\ CleanPeriod \in Nat
  /\ Interval < CleanAge /\ CleanAge < MaxAge /\ 0 < CleanPeriod
  BY IntervalAssumption DEF MaxAge, CleanAge, CleanPeriod

(* The limiter starts without buckets.                                     *)
LEMMA LimiterInit == Init => LimiterInv
<1> SUFFICES ASSUME Init PROVE LimiterInv
  OBVIOUS
<1> USE LimitAssumption, IntervalAssumption DEF Init
<1>1. recent \in [Clients -> [0..Interval -> Nat]]
  OBVIOUS
<1>2. phase \in 0..(CleanPeriod - 1) /\ age \in [Clients -> 0..MaxAge]
  BY Times
<1>3. count \in [Clients -> 0..Limit]
  OBVIOUS
<1> QED
  BY <1>1, <1>2, <1>3 DEF LimiterInv, TypeOK, BucketsCount

(* A request keeps the invariant.                                          *)
LEMMA RequestInv ==
  ASSUME LimiterInv, NEW c \in Clients, PassOn(c) \/ TooMany(c)
  PROVE  LimiterInv'
<1> USE LimitAssumption, IntervalAssumption DEF LimiterInv
<1>1. CountSeen(c) \in 0..Limit
  BY CountSeenType
<1>2. CASE PassOn(c)
  <2>1. /\ known' = known \cup {c}
        /\ count' = [count EXCEPT ![c] = CountSeen(c) + 1]
        /\ age' = [age EXCEPT ![c] = IF Fresh(c) THEN 0 ELSE age[c]]
        /\ CountSeen(c) + 1 \in 0..Limit
        /\ CountSeen(c) + 1 > 0
    BY <1>1, <1>2 DEF PassOn, Touch
  <2>2. recent' \in [Clients -> [0..Interval -> Nat]]
    <3>1. recent[c] \in [0..Interval -> Nat] /\ 0 \in 0..Interval
      BY DEF TypeOK
    <3>2. recent' = [recent EXCEPT ![c] = OneMore(recent[c])]
      BY <1>2 DEF PassOn
    <3> QED
      BY <3>1, <3>2 DEF TypeOK, OneMore
  <2>3. age' \in [Clients -> 0..MaxAge]
    BY <2>1 DEF TypeOK, MaxAge, CleanAge
  <2>4. count' \in [Clients -> 0..Limit] /\ known' \subseteq Clients
    BY <2>1 DEF TypeOK
  <2>5. TypeOK'
    BY <1>2, <2>2, <2>3, <2>4 DEF PassOn, TypeOK
  <2>6. BucketsCount'
    BY <2>1 DEF BucketsCount, TypeOK
  <2> QED
    BY <2>5, <2>6
<1>3. CASE TooMany(c)
  <2>1. /\ known' = known \cup {c}
        /\ count' = [count EXCEPT ![c] = CountSeen(c)]
        /\ age' = [age EXCEPT ![c] = IF Fresh(c) THEN 0 ELSE age[c]]
        /\ CountSeen(c) >= Limit
    BY <1>3 DEF TooMany, Touch
  <2>2. age' \in [Clients -> 0..MaxAge]
    BY <2>1 DEF TypeOK, MaxAge, CleanAge
  <2>3. count' \in [Clients -> 0..Limit] /\ known' \subseteq Clients
    BY <1>1, <2>1 DEF TypeOK
  <2>4. TypeOK'
    BY <1>3, <2>2, <2>3 DEF TooMany, TypeOK
  <2>5. BucketsCount'
    BY <1>1, <2>1 DEF BucketsCount, TypeOK
  <2> QED
    BY <2>4, <2>5
<1> QED
  BY <1>2, <1>3

(* The passing of time keeps it.                                           *)
LEMMA TimeInv ==
  ASSUME LimiterInv, Time
  PROVE  LimiterInv'
<1> USE LimitAssumption, IntervalAssumption DEF LimiterInv, TypeOK, Time
<1>1. age' \in [Clients -> 0..MaxAge]
  <2>1. \A a \in 0..MaxAge : Older(a) \in 0..MaxAge
    BY Times DEF Older
  <2> QED
    BY <2>1
<1>2. phase' \in 0..(CleanPeriod - 1) /\ tick' \in BOOLEAN
  BY DEF CleanPeriod
<1>3. recent' \in [Clients -> [0..Interval -> Nat]]
  <2>1. ASSUME NEW c \in Clients
        PROVE  [k \in 0..Interval |-> IF k = 0 THEN 0 ELSE recent[c][k - 1]]
                  \in [0..Interval -> Nat]
    <3>1. \A k \in 0..Interval : k # 0 => k - 1 \in 0..Interval
      OBVIOUS
    <3> QED
      BY <3>1
  <2> QED
    BY <2>1
<1>4. BucketsCount'
  BY DEF BucketsCount
<1> QED
  BY <1>1, <1>2, <1>3, <1>4

(* The cleaner, its end and Destroy keep it.                               *)
LEMMA CleanerInv ==
  ASSUME LimiterInv,
         Clean \/ CleanerExit \/ RuntimeDone \/ Destroy \/ DestroyReturn
  PROVE  LimiterInv'
<1> USE DEF LimiterInv, TypeOK, BucketsCount, bucketVars
<1>1. CASE Clean
  BY <1>1 DEF Clean
<1>2. CASE CleanerExit
  BY <1>2 DEF CleanerExit
<1>3. CASE RuntimeDone
  BY <1>3 DEF RuntimeDone
<1>4. CASE Destroy
  BY <1>4 DEF Destroy
<1>5. CASE DestroyReturn
  BY <1>5 DEF DestroyReturn
<1> QED
  BY <1>1, <1>2, <1>3, <1>4, <1>5

(* The invariant is inductive.                                             *)
LEMMA LimiterStep == LimiterInv /\ [Next]_vars => LimiterInv'
<1>1. ASSUME LimiterInv, UNCHANGED vars
      PROVE  LimiterInv'
  BY <1>1 DEF LimiterInv, TypeOK, BucketsCount, vars, bucketVars
<1> QED
  BY <1>1, RequestInv, TimeInv, CleanerInv DEF Next, Bypass

(* The invariant of the limiter, for every Limit and Interval.             *)
THEOREM LimiterInvariant == Spec => []LimiterInv
  BY LimiterInit, LimiterStep, PTL DEF Spec

(* The fields keep their types; no bucket ever counts more than Limit.     *)
THEOREM TypeCorrect == Spec => []TypeOK
  BY LimiterInvariant, PTL DEF LimiterInv

-----------------------------------------------------------------------------
(* How much gets through.                                                  *)

(* What a client got through in the last k ticks it got in its open window *)
(* or in one before, and as long as the window is open nothing before it.  *)
(* A request that opens one is the first of its tick.                      *)
TwoWindows ==
    \A c \in Clients :
        /\ \A k \in 0..Interval : recent[c][k] <= Limit + CountSeen(c)
        /\ Fresh(c) => recent[c][0] = 0
        /\ ~Fresh(c) => \A k \in 0..Interval : k <= age[c] => recent[c][k] <= count[c]

(* At the start there is nothing.                                          *)
LEMMA TwoWindowsInit ==
  ASSUME Init
  PROVE  TwoWindows
<1>1. ASSUME NEW c \in Clients
      PROVE  Fresh(c) /\ CountSeen(c) = 0 /\ \A k \in 0..Interval : recent[c][k] = 0
  BY DEF Init, CountSeen, Fresh
<1>2. 0 \in 0..Interval /\ 0 <= Limit + 0
  BY LimitAssumption, IntervalAssumption
<1> QED
  BY <1>1, <1>2 DEF TwoWindows

(* The history of a client whose bucket does not change.                   *)
LEMMA OtherWindows ==
  ASSUME NEW c \in Clients, (c \in known)' = (c \in known), count'[c] = count[c], age'[c] = age[c]
  PROVE  Fresh(c)' = Fresh(c) /\ CountSeen(c)' = CountSeen(c)
  BY DEF Fresh, Expired, CountSeen

(* A request counts in the window it falls into, which it may open.        *)
LEMMA RequestWindows ==
  ASSUME LimiterInv, TwoWindows, NEW c \in Clients, PassOn(c) \/ TooMany(c)
  PROVE  TwoWindows'
<1> USE LimitAssumption, IntervalAssumption
<1>1. PICK n : Touch(c, n)
  BY DEF PassOn, TooMany
<1>2. /\ recent \in [Clients -> [0..Interval -> Nat]] /\ age \in [Clients -> 0..MaxAge]
      /\ count \in [Clients -> 0..Limit] /\ CountSeen(c) \in 0..Limit /\ 0 \in 0..Interval
  <2>1. TypeOK
    BY DEF LimiterInv
  <2>2. CountSeen(c) \in 0..Limit
    BY <2>1, CountSeenType
  <2> QED
    BY <2>1, <2>2 DEF TypeOK
<1>3. ASSUME NEW d \in Clients, d # c
      PROVE  /\ recent'[d] = recent[d] /\ age'[d] = age[d] /\ count'[d] = count[d]
             /\ Fresh(d)' = Fresh(d) /\ CountSeen(d)' = CountSeen(d)
  <2>1. (d \in known)' = (d \in known) /\ count'[d] = count[d] /\ age'[d] = age[d]
    BY <1>1, <1>2, <1>3 DEF Touch
  <2>2. recent'[d] = recent[d]
    BY <1>2, <1>3 DEF PassOn, TooMany
  <2> QED
    BY <2>1, <2>2, OtherWindows
<1>4. age'[c] = (IF Fresh(c) THEN 0 ELSE age[c]) /\ c \in known' /\ ~Fresh(c)'
  BY <1>1, <1>2 DEF Touch, Fresh, Expired
<1>5. CASE PassOn(c)
  <2>1. CountSeen(c)' = CountSeen(c) + 1 /\ count'[c] = CountSeen(c) + 1
    BY <1>2, <1>4, <1>5 DEF PassOn, Touch, CountSeen
  <2>2. \A k \in 0..Interval : recent'[c][k] = recent[c][k] + 1
    BY <1>2, <1>5 DEF PassOn, OneMore
  <2>3. \A k \in 0..Interval : recent'[c][k] <= Limit + CountSeen(c)'
    <3>1. ASSUME NEW k \in 0..Interval
          PROVE  recent'[c][k] <= Limit + CountSeen(c)'
      <4>1. recent[c][k] <= Limit + CountSeen(c)
        BY DEF TwoWindows
      <4>2. recent[c][k] \in Nat /\ CountSeen(c) \in Nat /\ Limit \in Nat
        BY <1>2
      <4>3. recent'[c][k] = recent[c][k] + 1
        BY <2>2
      <4> QED
        BY <2>1, <4>1, <4>2, <4>3
    <3> QED
      BY <3>1
  <2>4. ASSUME NEW k \in 0..Interval, k <= age'[c]
        PROVE  recent'[c][k] <= count'[c]
    <3>1. CASE Fresh(c)
      <4>1. k = 0 /\ recent[c][0] = 0 /\ CountSeen(c) = 0
        BY <1>4, <2>4, <3>1 DEF TwoWindows, CountSeen
      <4> QED
        BY <1>2, <2>1, <2>2, <4>1
    <3>2. CASE ~Fresh(c)
      <4>1. recent[c][k] <= count[c] /\ CountSeen(c) = count[c]
        BY <1>4, <2>4, <3>2 DEF TwoWindows, CountSeen
      <4>2. recent[c][k] \in Nat /\ count[c] \in Nat
        BY <1>2
      <4> QED
        BY <2>1, <2>2, <4>1, <4>2
    <3> QED
      BY <3>1, <3>2
  <2> QED
    BY <1>3, <1>4, <2>3, <2>4 DEF TwoWindows
<1>6. CASE TooMany(c)
  <2>1. recent' = recent /\ CountSeen(c)' = CountSeen(c) /\ count'[c] = CountSeen(c)
    BY <1>2, <1>4, <1>6 DEF TooMany, Touch, CountSeen
  <2>2. ASSUME NEW k \in 0..Interval, k <= age'[c]
        PROVE  recent'[c][k] <= count'[c]
    <3>1. CASE Fresh(c)
      BY <1>2, <1>4, <2>1, <2>2, <3>1 DEF TwoWindows
    <3>2. CASE ~Fresh(c)
      BY <1>2, <1>4, <2>1, <2>2, <3>2 DEF TwoWindows, CountSeen
    <3> QED
      BY <3>1, <3>2
  <2> QED
    BY <1>3, <1>4, <2>1, <2>2 DEF TwoWindows
<1> QED
  BY <1>5, <1>6

(* A window that closes has let through all there was in its time.         *)
LEMMA TimeWindows ==
  ASSUME LimiterInv, TwoWindows, Time
  PROVE  TwoWindows'
<1> USE LimitAssumption, IntervalAssumption
<1>1. /\ recent \in [Clients -> [0..Interval -> Nat]] /\ age \in [Clients -> 0..MaxAge]
      /\ count \in [Clients -> 0..Limit] /\ known' = known /\ count' = count
  BY DEF LimiterInv, TypeOK, Time
<1>2. ASSUME NEW c \in Clients
      PROVE  /\ \A k \in 0..Interval : recent'[c][k] <= Limit + CountSeen(c)'
             /\ recent'[c][0] = 0
             /\ ~Fresh(c)' => \A k \in 0..Interval : k <= age'[c] => recent'[c][k] <= count'[c]
  <2>1. /\ \A k \in 0..Interval : recent'[c][k] = IF k = 0 THEN 0 ELSE recent[c][k - 1]
        /\ age'[c] = Older(age[c])
        /\ \A k \in 0..Interval : k # 0 => k - 1 \in 0..Interval
    BY <1>1 DEF Time
  <2>2. /\ \A k \in 0..Interval : recent[c][k] <= Limit + CountSeen(c) /\ recent[c][k] \in Nat
        /\ ~Fresh(c) => \A k \in 0..Interval : k <= age[c] => recent[c][k] <= count[c]
    BY <1>1 DEF TwoWindows
  <2>3. age[c] \in 0..MaxAge /\ count[c] \in 0..Limit /\ CountSeen(c) \in 0..Limit
    BY <1>1 DEF CountSeen
  <2>4. CASE Fresh(c)
    <3>1. Fresh(c)' /\ CountSeen(c) = 0 /\ CountSeen(c)' = 0
      BY <1>1, <2>1, <2>3, <2>4 DEF Fresh, Expired, CountSeen, Older, MaxAge, CleanAge
    <3> QED
      BY <2>1, <2>2, <3>1
  <2>5. CASE ~Fresh(c) /\ age[c] = Interval
    <3>1. age'[c] = Interval + 1
      BY <2>1, <2>3, <2>5 DEF Older, MaxAge, CleanAge
    <3>2. Fresh(c)' /\ CountSeen(c)' = 0
      BY <1>1, <2>5, <3>1 DEF Fresh, Expired, CountSeen
    <3>3. \A k \in 0..Interval : recent[c][k] <= Limit
      BY <2>2, <2>3, <2>5
    <3> QED
      BY <2>1, <3>2, <3>3
  <2>6. CASE ~Fresh(c) /\ age[c] # Interval
    <3>1. c \in known /\ age[c] < Interval
      BY <2>3, <2>6 DEF Fresh, Expired
    <3>2. age'[c] = age[c] + 1
      BY <2>1, <2>3, <3>1 DEF Older, MaxAge, CleanAge
    <3>3. ~Fresh(c)' /\ CountSeen(c)' = count[c] /\ CountSeen(c) = count[c]
      BY <1>1, <2>3, <2>6, <3>1, <3>2 DEF Fresh, Expired, CountSeen
    <3>4. ASSUME NEW k \in 0..Interval, k <= age'[c]
          PROVE  recent'[c][k] <= count'[c]
      <4>1. CASE k = 0
        BY <1>1, <2>1, <2>3, <4>1
      <4>2. CASE k # 0
        <5>1. k - 1 \in 0..Interval /\ k - 1 <= age[c]
          BY <2>1, <2>3, <3>2, <3>4, <4>2
        <5> QED
          BY <1>1, <2>1, <2>2, <2>6, <4>2, <5>1
      <4> QED
        BY <4>1, <4>2
    <3>5. \A k \in 0..Interval : recent'[c][k] <= Limit + CountSeen(c)'
      BY <2>1, <2>2, <2>3, <3>3
    <3> QED
      BY <2>1, <3>4, <3>5
  <2> QED
    BY <2>4, <2>5, <2>6
<1> QED
  BY <1>2 DEF TwoWindows

(* The cleaner removes only buckets a request would reset.                 *)
LEMMA CleanerWindows ==
  ASSUME LimiterInv, TwoWindows,
         Clean \/ CleanerExit \/ RuntimeDone \/ Destroy \/ DestroyReturn
  PROVE  TwoWindows'
<1>1. recent' = recent /\ age' = age /\ count' = count
  BY DEF Clean, CleanerExit, RuntimeDone, Destroy, DestroyReturn, bucketVars
<1>2. ASSUME NEW c \in Clients
      PROVE  Fresh(c)' = Fresh(c)
  <2>1. CASE Clean
    BY <1>1, <2>1, IntervalAssumption DEF Clean, Stale, CleanAge, MaxAge, Fresh, Expired, LimiterInv, TypeOK
  <2>2. CASE CleanerExit \/ RuntimeDone \/ Destroy \/ DestroyReturn
    BY <1>1, <2>2 DEF CleanerExit, RuntimeDone, Destroy, DestroyReturn, bucketVars, Fresh, Expired
  <2> QED
    BY <2>1, <2>2
<1>3. \A c \in Clients : CountSeen(c)' = CountSeen(c)
  BY <1>1, <1>2 DEF CountSeen
<1> QED
  BY <1>1, <1>2, <1>3 DEF TwoWindows

(* In no stretch as long as the interval more than twice the limit passes, *)
(* for every limit, every interval and any number of clients.              *)
THEOREM TwiceLimitBound == Spec => []AtMostTwiceLimit
<1>1. Init => TwoWindows
  BY TwoWindowsInit
<1>2. LimiterInv /\ TwoWindows /\ [Next]_vars => TwoWindows'
  <2>1. ASSUME TwoWindows, UNCHANGED vars
        PROVE  TwoWindows'
    BY <2>1 DEF TwoWindows, CountSeen, Fresh, Expired, vars, bucketVars
  <2> QED
    BY <2>1, RequestWindows, TimeWindows, CleanerWindows DEF Next, Bypass
<1>3. LimiterInv /\ TwoWindows => AtMostTwiceLimit
  <2> SUFFICES ASSUME LimiterInv, TwoWindows, NEW c \in Clients
               PROVE  recent[c][Interval] <= 2 * Limit
    BY DEF AtMostTwiceLimit
  <2>1. CountSeen(c) \in 0..Limit /\ Interval \in 0..Interval /\ recent[c][Interval] \in Nat
    BY CountSeenType, IntervalAssumption DEF LimiterInv, TypeOK
  <2>2. recent[c][Interval] <= Limit + CountSeen(c)
    BY <2>1 DEF TwoWindows
  <2> QED
    BY <2>1, <2>2, LimitAssumption
<1> QED
  BY <1>1, <1>2, <1>3, LimiterInvariant, PTL DEF Spec

-----------------------------------------------------------------------------
(* The end of the cleaner.                                                 *)

(* wg.Wait has returned only if the cleaner is gone.                       *)
CleanerGone == destroy = "returned" => cleaner = "exited"

(* After Destroy nothing is removed from the map.                          *)
THEOREM NothingCleanedLater == Spec => QuietAfterDestroy
<1>1. Init => CleanerGone
  BY DEF Init, CleanerGone
<1>2. CleanerGone /\ [Next]_vars => CleanerGone'
  BY DEF CleanerGone, Next, vars, bucketVars, PassOn, TooMany, Bypass, Clean, CleanerExit,
         RuntimeDone, Destroy, DestroyReturn, Time
<1>3. CleanerGone /\ [Next]_vars => [destroy = "returned" => known \subseteq known']_vars
  BY DEF CleanerGone, Next, vars, bucketVars, PassOn, TooMany, Touch, Bypass, Clean, CleanerExit,
         RuntimeDone, Destroy, DestroyReturn, Time
<1> QED
  BY <1>1, <1>2, <1>3, PTL DEF Spec, QuietAfterDestroy

-----------------------------------------------------------------------------
(* Refinement.                                                             *)

(* The window of a client depends on its own bucket only.                  *)
LEMMA SameWindow ==
  ASSUME NEW c, (c \in known)' = (c \in known), count'[c] = count[c], age'[c] = age[c]
  PROVE  UsedIn(c)' = UsedIn(c) /\ SinceIn(c)' = SinceIn(c)
  BY DEF UsedIn, SinceIn

(* A request that is let through is a request of the window; one that is   *)
(* not leaves the window as it is.                                         *)
LEMMA RequestWindow ==
  ASSUME LimiterInv, NEW c \in Clients, PassOn(c) \/ TooMany(c)
  PROVE  Window!Admit(c) \/ UNCHANGED Window!windowVars
<1> USE LimitAssumption, IntervalAssumption DEF LimiterInv, TypeOK
<1>1. \A d \in Clients : d # c => UsedIn(d)' = UsedIn(d) /\ SinceIn(d)' = SinceIn(d)
  <2>1. PICK n : Touch(c, n)
    BY DEF PassOn, TooMany
  <2>2. ASSUME NEW d \in Clients, d # c
        PROVE  (d \in known)' = (d \in known) /\ count'[d] = count[d] /\ age'[d] = age[d]
    BY <2>1, <2>2 DEF Touch
  <2> QED
    BY <2>2, SameWindow
<1>2. UsedIn(c) = CountSeen(c)
  BY DEF UsedIn, CountSeen, Fresh, Expired
<1>3. CountSeen(c) \in 0..Limit
  BY CountSeenType
<1>4. CASE PassOn(c)
  <2>1. /\ c \in known'
        /\ count'[c] = CountSeen(c) + 1
        /\ age'[c] = IF Fresh(c) THEN 0 ELSE age[c]
        /\ CountSeen(c) < Limit
    BY <1>4 DEF PassOn, Touch
  <2>3. UsedIn(c)' = UsedIn(c) + 1
    BY <1>2, <1>3, <2>1 DEF UsedIn, Fresh, Expired
  <2>4. SinceIn(c)' = SinceIn(c)
    <3>1. CASE Fresh(c)
      BY <3>1, <1>2, <2>1 DEF SinceIn, CountSeen
    <3>2. CASE ~Fresh(c)
      <4>1. UsedIn(c) > 0 /\ UsedIn(c)' > 0
        BY <3>2, <1>2, <1>3, <2>3, <2>1 DEF CountSeen, Fresh, BucketsCount
      <4> QED
        BY <3>2, <4>1, <2>1 DEF SinceIn
    <3> QED
      BY <3>1, <3>2
  <2>5. [d \in Clients |-> UsedIn(d)]'
          = [[d \in Clients |-> UsedIn(d)] EXCEPT ![c] = @ + 1]
    BY <1>1, <2>3
  <2>6. [d \in Clients |-> SinceIn(d)]' = [d \in Clients |-> SinceIn(d)]
    BY <1>1, <2>4
  <2> QED
    BY <1>2, <2>1, <2>5, <2>6 DEF Window!Admit
<1>5. CASE TooMany(c)
  <2>1. /\ c \in known'
        /\ count'[c] = CountSeen(c)
        /\ age'[c] = IF Fresh(c) THEN 0 ELSE age[c]
    BY <1>5 DEF TooMany, Touch
  <2>2. UsedIn(c)' = UsedIn(c) /\ SinceIn(c)' = SinceIn(c)
    BY <1>2, <2>1 DEF UsedIn, SinceIn, CountSeen, Fresh, Expired
  <2>3. /\ [d \in Clients |-> UsedIn(d)]' = [d \in Clients |-> UsedIn(d)]
        /\ [d \in Clients |-> SinceIn(d)]' = [d \in Clients |-> SinceIn(d)]
    BY <1>1, <2>2
  <2> QED
    BY <2>3 DEF Window!windowVars
<1> QED
  BY <1>4, <1>5

(* Time closes a window exactly when its bucket becomes too old.           *)
LEMMA TimeWindow ==
  ASSUME LimiterInv, Time
  PROVE  Window!Pass
<1> USE LimitAssumption, IntervalAssumption DEF LimiterInv, TypeOK
<1>1. ASSUME NEW c \in Clients
      PROVE  /\ UsedIn(c)' = IF SinceIn(c) = Interval THEN 0 ELSE UsedIn(c)
             /\ SinceIn(c)' = IF UsedIn(c) = 0 \/ SinceIn(c) = Interval
                              THEN 0 ELSE SinceIn(c) + 1
  <2>1. known' = known /\ count'[c] = count[c] /\ age'[c] = Older(age[c])
    BY DEF Time
  <2>2. age[c] \in 0..MaxAge /\ count[c] \in 0..Limit
    OBVIOUS
  <2>3. age'[c] <= Interval <=> age[c] < Interval
    BY <2>1, <2>2 DEF Older, MaxAge, CleanAge
  <2>4. age[c] < Interval => age'[c] = age[c] + 1
    BY <2>1, <2>2 DEF Older, MaxAge, CleanAge
  <2> QED
    BY <2>1, <2>2, <2>3, <2>4 DEF UsedIn, SinceIn
<1> QED
  BY <1>1 DEF Window!Pass

(* The cleaner is invisible: what it removes is no window any more.        *)
LEMMA CleanerWindow ==
  ASSUME LimiterInv,
         Clean \/ CleanerExit \/ RuntimeDone \/ Destroy \/ DestroyReturn
  PROVE  UNCHANGED Window!windowVars
<1>1. ASSUME NEW c \in Clients
      PROVE  UsedIn(c)' = UsedIn(c) /\ SinceIn(c)' = SinceIn(c)
  <2>1. CASE Clean
    BY <2>1, IntervalAssumption
    DEF Clean, Stale, CleanAge, MaxAge, UsedIn, SinceIn, LimiterInv, TypeOK
  <2>2. CASE CleanerExit \/ RuntimeDone \/ Destroy \/ DestroyReturn
    BY <2>2, SameWindow DEF CleanerExit, RuntimeDone, Destroy, DestroyReturn, bucketVars
  <2> QED
    BY <2>1, <2>2
<1> QED
  BY <1>1 DEF Window!windowVars

(* The limiter implements the fixed window of FixedWindow.tla.             *)
THEOREM ImplementsWindow == Spec => FixedWindowSpec
<1>1. Init => Window!WindowInit
  BY DEF Init, Window!WindowInit, UsedIn, SinceIn
<1>2. LimiterInv /\ [Next]_vars => [Window!WindowNext]_(Window!windowVars)
  <2> SUFFICES ASSUME LimiterInv, [Next]_vars
               PROVE  [Window!WindowNext]_(Window!windowVars)
    OBVIOUS
  <2>1. ASSUME NEW c \in Clients, PassOn(c) \/ TooMany(c)
        PROVE  [Window!WindowNext]_(Window!windowVars)
    BY <2>1, RequestWindow DEF Window!WindowNext
  <2>2. CASE Time
    BY <2>2, TimeWindow DEF Window!WindowNext
  <2>3. CASE Clean \/ CleanerExit \/ RuntimeDone \/ Destroy \/ DestroyReturn
    BY <2>3, CleanerWindow
  <2>4. CASE UNCHANGED vars
    BY <2>4 DEF vars, bucketVars, Window!windowVars, UsedIn, SinceIn
  <2> QED
    BY <2>1, <2>2, <2>3, <2>4 DEF Next, Bypass
<1> QED
  BY <1>1, <1>2, LimiterInvariant, PTL DEF Spec, FixedWindowSpec, Window!WindowSpec
=============================================================================
