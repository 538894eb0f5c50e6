---------------------------- MODULE ShutdownLatch ----------------------------
(***************************************************************************)
(* What servion promises of Runtime.Shutdown(restart): a latch that fires  *)
(* at most once, whoever calls it and however often, and that remembers    *)
(* the restart flag of the call that fired it.  Runtime.tla, the detailed  *)
(* model of runtime.go, is shown to implement this specification, and      *)
(* Lifecycle.tla uses it in place of the detailed one.                     *)
(***************************************************************************)

VARIABLES
    fired,      \* the channel returned by Runtime.Done() is closed
    restart     \* what Runtime.Restarting() reports once the latch has fired

latchVars == <<fired, restart>>

LatchInit ==
    /\ fired = FALSE
    /\ restart = FALSE

(* One call of Shutdown(r) seen as a single step.                          *)
Fire(r) ==
    /\ ~fired
    /\ fired' = TRUE
    /\ restart' = r

LatchNext == \E r \in BOOLEAN : Fire(r)

LatchSpec == LatchInit /\ [][LatchNext]_latchVars

(* A caller that finds the latch fired returns without touching it.        *)
FireOrSkip(r) == Fire(r) \/ (fired /\ UNCHANGED latchVars)
=============================================================================
