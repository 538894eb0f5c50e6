------------------------------- MODULE Runtime -------------------------------
(***************************************************************************)
(* runtime.go, one atomic store per step.  Several goroutines may call     *)
(* Runtime.Shutdown at once (the signal goroutine of runServers, an        *)
(* application bean, a handler); sync.Once lets one of them run the body   *)
(* and makes the others wait for its end.  The runtime is a                *)
(* context.Context, so contexts are derived from it with                   *)
(* context.WithCancel(runtime): a goroutine of package context wakes when  *)
(* Done() closes and then asks Err() for the cause, which must not be nil. *)
(***************************************************************************)
EXTENDS Naturals

CONSTANTS
    Callers,    \* goroutines that call Shutdown, each once
    Derived,    \* contexts made by context.WithCancel(runtime)
    NoCaller    \* "nobody", not a caller

ASSUME CallerAssumption == NoCaller \notin Callers

VARIABLES
    pc,             \* where each caller is inside Shutdown
    arg,            \* the restart argument of each caller
    once,           \* shutdownOnce
    winner,         \* history: the caller whose body shutdownOnce ran
    restarting,     \* implRuntime.restarting
    shuttingDown,   \* implRuntime.shuttingDown
    runtimeErr,     \* implRuntime.runtimeErr # nil
    closed,         \* shutdownCh is closed
    derived         \* state of each derived context

flags == <<restarting, shuttingDown, runtimeErr, closed>>
vars == <<pc, arg, once, winner, flags, derived>>

(* The steps of the function given to shutdownOnce.Do, in program order.   *)
BodyPC == {"storeRestarting", "storeShuttingDown", "storeErr", "closeCh", "leave"}

CallerPC == {"idle", "calling", "returned"} \cup BodyPC

DerivedState == {"none", "live", "woken", "cancelled", "panicked"}

(* NewRuntime: nothing stored, the channel open, Err() nil.                *)
Init ==
    /\ pc = [c \in Callers |-> "idle"]
    /\ arg \in [Callers -> BOOLEAN]
    /\ once = "fresh"
    /\ winner = NoCaller
    /\ restarting = FALSE
    /\ shuttingDown = FALSE
    /\ runtimeErr = FALSE
    /\ closed = FALSE
    /\ derived = [d \in Derived |-> "none"]

Goto(c, from, to) ==
    /\ pc[c] = from
    /\ pc' = [pc EXCEPT ![c] = to]

-----------------------------------------------------------------------------
(* Runtime.Active, Restarting, Done and Err: what a reader sees.           *)
Active == ~shuttingDown
Restarting == restarting
Done == closed
Err == runtimeErr

-----------------------------------------------------------------------------
(* A goroutine calls Shutdown(arg[c]).                                     *)
Call(c) ==
    /\ Goto(c, "idle", "calling")
    /\ UNCHANGED <<arg, once, winner, flags, derived>>

(* Mutation: a flag that is cleared when the body ends lets others in.     *)
OnceReopened == once # "running"

OnceOpen == once = "fresh"

(* shutdownOnce.Do lets the first caller in ...                            *)
OnceEnter(c) ==
    /\ OnceOpen
    /\ Goto(c, "calling", "storeRestarting")
    /\ once' = "running"
    /\ winner' = c
    /\ UNCHANGED <<arg, flags, derived>>

(* Mutation: a flag instead of sync.Once does not wait for the body.       *)
OnceBegun == once # "fresh"

OnceOver == once = "done"

(* ... and returns to the others only when the body has ended.             *)
OnceSkip(c) ==
    /\ OnceOver
    /\ Goto(c, "calling", "returned")
    /\ UNCHANGED <<arg, once, winner, flags, derived>>

(* Mutation: the argument is not stored.                                   *)
FlagKept(c) == restarting

FlagStored(c) == arg[c]

StoreRestarting(c) ==
    /\ Goto(c, "storeRestarting", "storeShuttingDown")
    /\ restarting' = FlagStored(c)
    /\ UNCHANGED <<arg, once, winner, shuttingDown, runtimeErr, closed, derived>>

StoreShuttingDown(c) ==
    /\ Goto(c, "storeShuttingDown", "storeErr")
    /\ shuttingDown' = TRUE
    /\ UNCHANGED <<arg, once, winner, restarting, runtimeErr, closed, derived>>

(* Mutation: the error is not stored.                                      *)
ErrMissing == FALSE

ErrStored == TRUE

StoreErr(c) ==
    /\ Goto(c, "storeErr", "closeCh")
    /\ runtimeErr' = ErrStored
    /\ UNCHANGED <<arg, once, winner, restarting, shuttingDown, closed, derived>>

CloseCh(c) ==
    /\ Goto(c, "closeCh", "leave")
    /\ closed' = TRUE
    /\ UNCHANGED <<arg, once, winner, restarting, shuttingDown, runtimeErr, derived>>

(* Mutation: the callers that wait are never released.                     *)
OnceHeld == "running"

(* Mutation: the guard is cleared when the body ends.                      *)
OnceReset == "fresh"

OnceReleased == "done"

OnceLeave(c) ==
    /\ Goto(c, "leave", "returned")
    /\ once' = OnceReleased
    /\ UNCHANGED <<arg, winner, flags, derived>>

-----------------------------------------------------------------------------
(* context.WithCancel(runtime).  The runtime is no context of the standard *)
(* library, so package context starts a goroutine that waits for Done().   *)
Derive(d) ==
    /\ derived[d] = "none"
    /\ derived' = [derived EXCEPT ![d] = "live"]
    /\ UNCHANGED <<pc, arg, once, winner, flags>>

Wake(d) ==
    /\ derived[d] = "live"
    /\ Done
    /\ derived' = [derived EXCEPT ![d] = "woken"]
    /\ UNCHANGED <<pc, arg, once, winner, flags>>

(* It cancels the derived context with parent.Err(); package context       *)
(* panics when that is nil ("missing cancel error").                       *)
Cancel(d) ==
    /\ derived[d] = "woken"
    /\ derived' = [derived EXCEPT ![d] = IF Err THEN "cancelled" ELSE "panicked"]
    /\ UNCHANGED <<pc, arg, once, winner, flags>>

-----------------------------------------------------------------------------
Body(c) ==
    \/ StoreRestarting(c)
    \/ StoreShuttingDown(c)
    \/ StoreErr(c)
    \/ CloseCh(c)
    \/ OnceLeave(c)

Caller(c) ==
    \/ Call(c)
    \/ OnceEnter(c)
    \/ OnceSkip(c)
    \/ Body(c)

Context(d) == Derive(d) \/ Wake(d) \/ Cancel(d)

(* Every goroutine has called, returned and been cancelled: nothing left.  *)
Finished ==
    /\ \A c \in Callers : pc[c] = "returned"
    /\ \A d \in Derived : derived[d] \in {"cancelled", "panicked"}
    /\ UNCHANGED vars

Next ==
    \/ \E c \in Callers : Caller(c)
    \/ \E d \in Derived : Context(d)
    \/ Finished

(* The Go scheduler runs every runnable goroutine eventually.  Nothing     *)
(* obliges anyone to call Shutdown or to derive a context.                 *)
Fairness ==
    /\ \A c \in Callers : WF_vars(OnceEnter(c) \/ OnceSkip(c) \/ Body(c))
    /\ \A d \in Derived : WF_vars(Wake(d) \/ Cancel(d))

Spec == Init /\ [][Next]_vars

FairSpec == Spec /\ Fairness

-----------------------------------------------------------------------------
TypeOK ==
    /\ pc \in [Callers -> CallerPC]
    /\ arg \in [Callers -> BOOLEAN]
    /\ once \in {"fresh", "running", "done"}
    /\ winner \in IF once = "fresh" THEN {NoCaller} ELSE Callers
    /\ restarting \in BOOLEAN
    /\ shuttingDown \in BOOLEAN
    /\ runtimeErr \in BOOLEAN
    /\ closed \in BOOLEAN
    /\ derived \in [Derived -> DerivedState]

(* A reader that finds the runtime inactive (Active() is false) learns     *)
(* from Restarting() what the shutdown that won asked for: the restart     *)
(* flag is stored before shuttingDown, never after it.                     *)
InactiveKnowsReason == ~Active => winner \in Callers /\ Restarting = arg[winner]

(* No goroutine of package context, woken by Done(), finds Err() nil: a    *)
(* derived context (runServers, the rate limiter) is cancelled, and the    *)
(* process does not panic, because runtimeErr is stored before the close.  *)
DerivedNeverPanics == \A d \in Derived : derived[d] # "panicked"

(* Whoever returns from Shutdown, the winner or a caller that came too     *)
(* late, may rely on the shutdown being complete: inactive, Err() set and  *)
(* Done() closed.  sync.Once gives this, a bare flag would not.            *)
ReturnedMeansDown ==
    \A c \in Callers : pc[c] = "returned" => Done /\ Err /\ ~Active

(* The restart decision, once visible through Done(), is final, and so are *)
(* the error and the closed channel (runtime_test.go: the first call wins).*)
DecisionIsFinal ==
    [][Done => /\ Done' /\ Err' /\ ~Active'
               /\ Restarting' = Restarting]_vars

(* Every call of Shutdown returns.                                         *)
CallsReturn == \A c \in Callers : (pc[c] = "calling") ~> (pc[c] = "returned")

(* Runtime implements the latch: the channel is what the outside waits on, *)
(* and the flag counts from the moment it is closed.                       *)
Latch == INSTANCE ShutdownLatch
    WITH fired <- closed, restart <- closed /\ restarting

LatchSpec == Latch!LatchSpec
=============================================================================
