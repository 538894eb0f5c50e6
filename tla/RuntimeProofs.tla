---------------------------- MODULE RuntimeProofs ----------------------------
(***************************************************************************)
(* Proofs about Runtime.tla for any set of callers and derived contexts.   *)
(* Every safety property follows from one inductive invariant, RuntimeInv: *)
(* at most one caller, the winner, is ever inside the body of              *)
(* shutdownOnce, and where it is determines which flags are stored.        *)
(***************************************************************************)
EXTENDS Runtime, TLAPS

(* The caller inside the body, or past it, is the winner; the others are   *)
(* outside and have returned only after shutdownOnce was done.             *)
OnlyWinnerInBody ==
    /\ once = "fresh" <=> winner = NoCaller
    /\ \A c \in Callers :
          /\ pc[c] \in BodyPC => c = winner /\ once = "running"
          /\ pc[c] = "returned" => once = "done"
    /\ once = "running" => winner \in Callers /\ pc[winner] \in BodyPC

(* The flags are stored in program order.                                  *)
FlagsFollowBody ==
    /\ once = "fresh" => ~shuttingDown /\ ~runtimeErr /\ ~closed
    /\ once = "done" => shuttingDown /\ runtimeErr /\ closed
    /\ once = "running" =>
          /\ shuttingDown <=> pc[winner] \in {"storeErr", "closeCh", "leave"}
          /\ runtimeErr <=> pc[winner] \in {"closeCh", "leave"}
          /\ closed <=> pc[winner] = "leave"

(* From its store on, the restart flag is the winner's argument.           *)
FlagIsWinners ==
    (once = "done" \/ (once = "running" /\ pc[winner] # "storeRestarting"))
        => restarting = arg[winner]

(* No derived context is woken, let alone cancelled, before the close.     *)
WokenAfterClose ==
    \A d \in Derived :
        /\ derived[d] \in {"woken", "cancelled", "panicked"} => closed
        /\ derived[d] # "panicked"

RuntimeInv ==
    /\ TypeOK
    /\ OnlyWinnerInBody
    /\ FlagsFollowBody
    /\ FlagIsWinners
    /\ WokenAfterClose

-----------------------------------------------------------------------------
(* NewRuntime establishes the invariant.                                   *)
LEMMA InitInv == Init => RuntimeInv
  BY CallerAssumption
  DEF Init, RuntimeInv, TypeOK, OnlyWinnerInBody, FlagsFollowBody, FlagIsWinners,
      WokenAfterClose, CallerPC, BodyPC, DerivedState

(* A step of a caller of Shutdown preserves it.                            *)
LEMMA CallerInv ==
  ASSUME RuntimeInv, NEW c \in Callers, Caller(c)
  PROVE  RuntimeInv'
<1> USE CallerAssumption
    DEF RuntimeInv, TypeOK, OnlyWinnerInBody, FlagsFollowBody, FlagIsWinners,
        WokenAfterClose, CallerPC, BodyPC, DerivedState, Goto, flags
<1>1. CASE Call(c)
  BY <1>1 DEF Call
<1>2. CASE OnceEnter(c)
  BY <1>2 DEF OnceEnter, OnceOpen
<1>3. CASE OnceSkip(c)
  BY <1>3 DEF OnceSkip, OnceOver
<1>4. CASE StoreRestarting(c)
  BY <1>4 DEF StoreRestarting, FlagStored
<1>5. CASE StoreShuttingDown(c)
  BY <1>5 DEF StoreShuttingDown
<1>6. CASE StoreErr(c)
  BY <1>6 DEF StoreErr, ErrStored
<1>7. CASE CloseCh(c)
  BY <1>7 DEF CloseCh
<1>8. CASE OnceLeave(c)
  BY <1>8 DEF OnceLeave, OnceReleased
<1> QED
  BY <1>1, <1>2, <1>3, <1>4, <1>5, <1>6, <1>7, <1>8 DEF Caller, Body

(* A step of package context preserves it.                                 *)
LEMMA ContextInv ==
  ASSUME RuntimeInv, NEW d \in Derived, Context(d)
  PROVE  RuntimeInv'
<1> USE DEF RuntimeInv, TypeOK, OnlyWinnerInBody, FlagsFollowBody, FlagIsWinners,
            WokenAfterClose, DerivedState, flags
<1>1. CASE Derive(d)
  BY <1>1 DEF Derive
<1>2. CASE Wake(d)
  BY <1>2 DEF Wake, Done
<1>3. CASE Cancel(d)
  <2>1. runtimeErr
    BY <1>3 DEF Cancel
  <2> QED
    BY <1>3, <2>1 DEF Cancel, Err
<1> QED
  BY <1>1, <1>2, <1>3 DEF Context

(* Nothing changes, nothing breaks.                                        *)
LEMMA StutterInv ==
  ASSUME RuntimeInv, UNCHANGED vars
  PROVE  RuntimeInv'
  BY DEF vars, flags, RuntimeInv, TypeOK, OnlyWinnerInBody, FlagsFollowBody,
         FlagIsWinners, WokenAfterClose

(* The invariant is inductive.                                             *)
THEOREM RuntimeInvariant == Spec => []RuntimeInv
<1>1. RuntimeInv /\ [Next]_vars => RuntimeInv'
  BY CallerInv, ContextInv, StutterInv DEF Next, Finished
<1> QED
  BY <1>1, InitInv, PTL DEF Spec

-----------------------------------------------------------------------------
(* runtime.go keeps the types of its fields.                               *)
THEOREM TypeCorrect == Spec => []TypeOK
  BY RuntimeInvariant, PTL DEF RuntimeInv

(* A reader that sees the runtime inactive reads the winner's flag.        *)
THEOREM ReasonKnown == Spec => []InactiveKnowsReason
<1>1. RuntimeInv => InactiveKnowsReason
  BY DEF RuntimeInv, TypeOK, InactiveKnowsReason, OnlyWinnerInBody,
         FlagsFollowBody, FlagIsWinners, Active, Restarting
<1> QED
  BY <1>1, RuntimeInvariant, PTL

(* No derived context ever finds Err() nil after Done().                   *)
THEOREM NoMissingCancelError == Spec => []DerivedNeverPanics
<1>1. RuntimeInv => DerivedNeverPanics
  BY DEF RuntimeInv, WokenAfterClose, DerivedNeverPanics
<1> QED
  BY <1>1, RuntimeInvariant, PTL

(* Whoever returns from Shutdown finds the runtime completely down.        *)
THEOREM ReturnMeansDown == Spec => []ReturnedMeansDown
<1>1. RuntimeInv => ReturnedMeansDown
  BY DEF RuntimeInv, ReturnedMeansDown, OnlyWinnerInBody, FlagsFollowBody,
         Done, Err, Active
<1> QED
  BY <1>1, RuntimeInvariant, PTL

(* What a step does to a runtime whose channel is closed: nothing.         *)
LEMMA ClosedIsStable ==
  ASSUME RuntimeInv, [Next]_vars, closed
  PROVE  UNCHANGED flags
<1> USE DEF RuntimeInv, OnlyWinnerInBody, FlagsFollowBody, TypeOK, BodyPC, Goto
<1>1. ASSUME NEW c \in Callers, Caller(c)
      PROVE  UNCHANGED flags
  <2>1. pc[c] \notin {"storeRestarting", "storeShuttingDown", "storeErr", "closeCh"}
    OBVIOUS
  <2>2. ~StoreRestarting(c) /\ ~StoreShuttingDown(c) /\ ~StoreErr(c) /\ ~CloseCh(c)
    BY <2>1 DEF StoreRestarting, StoreShuttingDown, StoreErr, CloseCh
  <2> QED
    BY <1>1, <2>2 DEF Caller, Body, Call, OnceEnter, OnceSkip, OnceLeave
<1>2. ASSUME NEW d \in Derived, Context(d)
      PROVE  UNCHANGED flags
  BY <1>2 DEF Context, Derive, Wake, Cancel
<1> QED
  BY <1>1, <1>2 DEF Next, Finished, vars

(* The decision, once Done() is closed, is final.                          *)
THEOREM DecisionFinal == Spec => DecisionIsFinal
<1>1. RuntimeInv /\ [Next]_vars
        => [Done => /\ Done' /\ Err' /\ ~Active'
                    /\ Restarting' = Restarting]_vars
  <2> SUFFICES ASSUME RuntimeInv, [Next]_vars, closed
               PROVE  closed' /\ runtimeErr' /\ shuttingDown'
                      /\ restarting' = restarting
    BY DEF Done, Err, Active, Restarting
  <2>1. UNCHANGED flags
    BY ClosedIsStable
  <2>2. runtimeErr /\ shuttingDown
    BY DEF RuntimeInv, FlagsFollowBody, OnlyWinnerInBody, TypeOK
  <2> QED
    BY <2>1, <2>2 DEF flags
<1> QED
  BY <1>1, RuntimeInvariant, PTL DEF Spec, DecisionIsFinal

(* runtime.go implements the one-shot latch.                               *)
THEOREM ImplementsLatch == Spec => LatchSpec
<1>1. Init => Latch!LatchInit
  BY DEF Init, Latch!LatchInit
<1>2. RuntimeInv /\ [Next]_vars => [Latch!LatchNext]_(Latch!latchVars)
  <2> SUFFICES ASSUME RuntimeInv, [Next]_vars
               PROVE  [Latch!LatchNext]_(Latch!latchVars)
    OBVIOUS
  <2>1. /\ closed \in BOOLEAN /\ restarting \in BOOLEAN
        /\ closed' \in BOOLEAN /\ restarting' \in BOOLEAN
    BY CallerInv, ContextInv, StutterInv DEF RuntimeInv, TypeOK, Next, Finished
  <2>2. CASE closed
    <3>1. closed' = closed /\ restarting' = restarting
      BY <2>2, ClosedIsStable DEF flags
    <3> QED
      BY <3>1 DEF Latch!latchVars
  <2>3. CASE ~closed /\ ~closed'
    <3>1. closed' = closed
      BY <2>1, <2>3
    <3>2. (closed' /\ restarting') = (closed /\ restarting)
      BY <2>3
    <3> QED
      BY <3>1, <3>2 DEF Latch!latchVars
  <2>4. CASE ~closed /\ closed'
    <3>1. closed' = TRUE
      BY <2>1, <2>4
    <3>2. Latch!Fire((closed /\ restarting)')
      BY <2>4, <3>1 DEF Latch!Fire
    <3>3. (closed /\ restarting)' \in BOOLEAN
      BY <2>1
    <3> QED
      BY <3>2, <3>3 DEF Latch!LatchNext
  <2> QED
    BY <2>2, <2>3, <2>4
<1> QED
  BY <1>1, <1>2, RuntimeInvariant, PTL DEF Spec, LatchSpec, Latch!LatchSpec
=============================================================================
