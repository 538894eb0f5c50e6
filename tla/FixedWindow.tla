----------------------------- MODULE FixedWindow -----------------------------
(***************************************************************************)
(* What the rate limiter does for one client, without its map, its lazy    *)
(* reset and its cleaner: a window opens with the first request that is    *)
(* let through, lasts Interval, lets Limit requests through and closes by  *)
(* itself.  RateLimiter.tla is shown to implement this.  It is less than   *)
(* the sliding window the documentation promises, which RateLimiter.tla    *)
(* states as SlidingWindow and which does not hold.                        *)
(***************************************************************************)
EXTENDS Naturals

CONSTANTS Clients, Limit, Interval

VARIABLES
    used,       \* requests let through in the open window, 0: no window
    since       \* time since the window opened

windowVars == <<used, since>>

WindowInit ==
    /\ used = [c \in Clients |-> 0]
    /\ since = [c \in Clients |-> 0]

Admit(c) ==
    /\ used[c] < Limit
    /\ used' = [used EXCEPT ![c] = @ + 1]
    /\ UNCHANGED since

Pass ==
    /\ used' = [c \in Clients |-> IF since[c] = Interval THEN 0 ELSE used[c]]
    /\ since' = [c \in Clients |->
                    IF used[c] = 0 \/ since[c] = Interval THEN 0 ELSE since[c] + 1]

WindowNext == Pass \/ \E c \in Clients : Admit(c)

WindowSpec == WindowInit /\ [][WindowNext]_windowVars
=============================================================================
