------------------------------ MODULE Lifecycle ------------------------------
(***************************************************************************)
(* The `run` command, from NewRuntime to the value it returns to cligo:    *)
(* run_command.go (Run) and utils.go (doWithServers, bindServers,          *)
(* runServers).  The goroutines are the command itself, the members of the *)
(* errgroup (one Serve and, later, one Shutdown per bound server), the     *)
(* watcher that starts the Shutdown members, and the signal goroutine.     *)
(* A restart (SIGHUP) ends one generation of the command and makes cligo   *)
(* run it again in the same process.                                       *)
(*                                                                         *)
(* The runtime is used through its abstract specification ShutdownLatch,   *)
(* which Runtime.tla implements.  Loops over servers and containers go     *)
(* one element per step, in any order.                                     *)
(***************************************************************************)
EXTENDS Servers

CONSTANTS
    OwnContexts,    \* deployments: TRUE if each server has a child container of
                    \* its own, FALSE if all are beans of the command's ("core")
    Events,         \* what else may happen, a subset of AllEvents
    Signals,        \* the signals the operator may send, a subset of AllSignals
    MaxSignals,     \* bound on the number of signals sent
    MaxGen          \* bound on the number of generations

AllSignals == {"TERM", "HUP"}     \* SIGINT is handled like SIGTERM

(* extend: the command's container cannot be created                       *)
(* context: a child container, or an injection into it, fails              *)
(* closeContext: closing a container reports an error                      *)
(* appShutdown: application code calls Runtime.Shutdown                    *)
AllEvents == {"extend", "context", "closeContext", "appShutdown"}

ASSUME EventsAssumption == Events \subseteq AllEvents
ASSUME SignalsAssumption == Signals \subseteq AllSignals
ASSUME BoundsAssumption ==
    OwnContexts \subseteq BOOLEAN /\ MaxSignals \in Nat /\ MaxGen \in Nat \ {0}

VARIABLES
    gen,        \* how many times cligo has run the command
    cmd,        \* the command, a record (see CommandState)
    fired,      \* this generation's runtime is shut down
    restart,    \* ... and is to be restarted
    grp,        \* the errgroup, a record (see GroupState)
    watcher,    \* "none", "armed", "stopping", "finished"
    sig,        \* signal goroutine: "none", "starting", "listening", "finished"
    inbox,      \* first signal in this generation's channel, or "none"
    notified,   \* some channel of the process is registered with signal.Notify
    sent,       \* number of signals sent
    termSent    \* history: a SIGTERM was sent

rtVars == <<fired, restart>>
signalVars == <<sig, inbox, notified, sent, termSent>>
lifeVars == <<gen, cmd, rtVars, grp, watcher, signalVars>>
vars == <<serverVars, lifeVars>>

Latch == INSTANCE ShutdownLatch

(* zeroed, released: the last Done has brought the WaitGroup to zero; then *)
(* it has reset the state and released the waiter, who has not run yet.    *)
CommandStep == {"extend", "create", "bind", "spawn", "wait", "blocked", "zeroed",
                "released", "joined", "closing", "closeCore", "decide",
                "exited", "killed", "crashed"}

CommandState == [
    at      : CommandStep,
    own     : OwnContexts,                            \* fixed by the deployment
    created : SUBSET Servers,                         \* containers made
    closed  : SUBSET Servers,                         \* containers closed
    err     : BOOLEAN,                                \* error of runServers
    outcome : {"none", "ok", "error", "repeat"}]      \* what Run returned

Member == {"serve", "stop"} \X Servers

GroupState == [
    members   : SUBSET Member,     \* not finished: what its WaitGroup counts
    recorded  : SUBSET Member,     \* failed, error recorded, about to finish
    err       : BOOLEAN,           \* some member has failed
    cancelled : BOOLEAN]           \* groupCtx cancelled by a member or by Wait

NewCommand(own) == [at |-> "extend", own |-> own, created |-> {}, closed |-> {},
                    err |-> FALSE, outcome |-> "none"]
NewGroup == [members |-> {}, recorded |-> {}, err |-> FALSE, cancelled |-> FALSE]

Terminated == cmd.at \in {"exited", "killed", "crashed"}
Running == ~Terminated

(* Mutation: the group's context is not derived from the runtime.          *)
GroupDoneWithoutRuntime == grp.cancelled

(* Mutation: the errgroup is made without a context of its own.            *)
GroupDoneRuntimeOnly == fired

(* groupCtx is derived from the runtime and cancelled by the errgroup.     *)
GroupDone == fired \/ grp.cancelled

Bound == {s \in Servers : srv[s].bind = "ok"}

Init ==
    /\ ServersInit
    /\ gen = 1
    /\ \E own \in OwnContexts : cmd = NewCommand(own)
    /\ Latch!LatchInit
    /\ grp = NewGroup
    /\ watcher = "none"
    /\ sig = "none" /\ inbox = "none"
    /\ notified = FALSE /\ sent = 0 /\ termSent = FALSE

(* A step of the command that moves it on, perhaps with an error.          *)
Move(from, to, err) ==
    /\ cmd.at = from
    /\ cmd' = [cmd EXCEPT !.at = to, !.err = err]
    /\ UNCHANGED <<gen, rtVars, grp, watcher, signalVars>>

-----------------------------------------------------------------------------
(* Run, doWithServers and bindServers.                                     *)

(* Container.Extend.  Without child containers core is the only context.   *)
Extend ==
    /\ cmd.at = "extend"
    /\ cmd' = [cmd EXCEPT !.at = "create", !.created = IF cmd.own THEN {} ELSE Servers]
    /\ UNCHANGED <<serverVars, gen, rtVars, grp, watcher, signalVars>>

(* It fails: Run returns before looking at the runtime.                    *)
ExtendFail ==
    /\ "extend" \in Events
    /\ cmd.at = "extend"
    /\ cmd' = [cmd EXCEPT !.at = "exited", !.outcome = "error"]
    /\ UNCHANGED <<serverVars, gen, rtVars, grp, watcher, signalVars>>

(* child.Object(): the containers of the servers are made one by one.      *)
CreateContext(s) ==
    /\ cmd.at = "create"
    /\ s \notin cmd.created
    /\ cmd' = [cmd EXCEPT !.created = @ \cup {s}]
    /\ UNCHANGED <<serverVars, gen, rtVars, grp, watcher, signalVars>>

(* Mutation: the deferred cleanup of doWithServers is skipped.             *)
AfterFailureNoCleanup == "closeCore"

AfterFailure == "closing"

(* One cannot be made, or its server cannot be injected.                   *)
CreateFail ==
    /\ "context" \in Events
    /\ Move("create", AfterFailure, TRUE)
    /\ UNCHANGED serverVars

(* All servers collected; runServers refuses to run without any.           *)
Collect ==
    /\ cmd.created = Servers
    /\ IF Servers = {} THEN Move("create", AfterFailure, TRUE)
                       ELSE Move("create", "bind", FALSE)
    /\ UNCHANGED serverVars

(* bindServers goes on after a failure.                                    *)
BindOne(s) ==
    /\ Move("bind", "bind", FALSE)
    /\ BindServer(s)

(* Mutation: nothing bound is not noticed.                                 *)
EnoughWithoutAny == TRUE

(* A partial failure still serves.                                         *)
EnoughBound == Bound # {}

BindDone ==
    /\ \A s \in Servers : srv[s].bind # "no"
    /\ IF EnoughBound THEN Move("bind", "spawn", FALSE)
                      ELSE Move("bind", AfterFailure, TRUE)
    /\ UNCHANGED serverVars

-----------------------------------------------------------------------------
(* runServers: the errgroup and the two goroutines.                        *)

(* Mutation: servers that failed to bind are served too.                   *)
ServeEvery == Servers

ToServe == Bound

(* Mutation: `go server.Serve()` instead of g.Go(server.Serve).            *)
NotInGroup(s) == {}

InGroup(s) == {<<"serve", s>>}

(* g.Go(server.Serve) for every bound server.                              *)
Spawn(s) ==
    /\ cmd.at = "spawn"
    /\ s \in ToServe
    /\ ServeCall(s)
    /\ grp' = [grp EXCEPT !.members = @ \cup InGroup(s)]
    /\ UNCHANGED <<gen, cmd, rtVars, watcher, signalVars>>

(* The watcher and the signal goroutine are started.                       *)
Spawned ==
    /\ cmd.at = "spawn"
    /\ \A s \in ToServe : srv[s].serve # "idle"
    /\ cmd' = [cmd EXCEPT !.at = "wait"]
    /\ watcher' = "armed"
    /\ sig' = "starting"
    /\ UNCHANGED <<serverVars, gen, rtVars, grp, inbox, notified, sent, termSent>>

(* Mutation: the command goes on after the first failure.                  *)
NobodyLeftOrFailed == grp.members = {} \/ grp.cancelled

(* WaitGroup.Wait returns at once when the counter is zero.                *)
NobodyLeft == grp.members = {}

Wait ==
    /\ Move("wait", IF NobodyLeft THEN "joined" ELSE "blocked", FALSE)
    /\ UNCHANGED serverVars

MemberReturned(m) ==
    IF m[1] = "serve" THEN srv[m[2]].serve = "returned"
                      ELSE srv[m[2]].sd["watcher"] = "returned"

MemberFailed(m) ==
    IF m[1] = "serve" THEN srv[m[2]].result = "error"
                      ELSE ShutdownFailed(m[2], "watcher")

(* A member returned an error: errgroup keeps the first and cancels.       *)
MemberError(m) ==
    /\ Running
    /\ m \in grp.members \ grp.recorded
    /\ MemberReturned(m) /\ MemberFailed(m)
    /\ grp' = [grp EXCEPT !.recorded = @ \cup {m}, !.err = TRUE, !.cancelled = TRUE]
    /\ UNCHANGED <<serverVars, gen, cmd, rtVars, watcher, signalVars>>

(* WaitGroup.Done at the end of a member; the last one wakes Wait.         *)
MemberDone(m) ==
    /\ Running
    /\ m \in grp.members
    /\ MemberReturned(m)
    /\ MemberFailed(m) => m \in grp.recorded
    /\ grp' = [grp EXCEPT !.members = @ \ {m}, !.recorded = @ \ {m}]
    /\ cmd' = IF grp.members = {m} /\ cmd.at = "blocked"
              THEN [cmd EXCEPT !.at = "zeroed"] ELSE cmd
    /\ UNCHANGED <<serverVars, gen, rtVars, watcher, signalVars>>

WaitRelease ==
    /\ Move("zeroed", "released", FALSE)
    /\ UNCHANGED serverVars

(* The waiter runs.  WaitGroup panics when members were added meanwhile;   *)
(* runServers recovers that panic and returns it as its error.             *)
WaitReturn ==
    /\ IF grp.members = {} THEN Move("released", "joined", FALSE)
                           ELSE Move("released", "closing", TRUE)
    /\ UNCHANGED serverVars

(* errgroup's Wait cancels groupCtx and returns the first error.           *)
Joined ==
    /\ cmd.at = "joined"
    /\ cmd' = [cmd EXCEPT !.at = "closing", !.err = grp.err]
    /\ grp' = [grp EXCEPT !.cancelled = TRUE]
    /\ UNCHANGED <<serverVars, gen, rtVars, watcher, signalVars>>

-----------------------------------------------------------------------------
(* The watcher.                                                            *)

WatcherStep(from, to) ==
    /\ Running
    /\ watcher = from
    /\ watcher' = to
    /\ UNCHANGED <<serverVars, gen, cmd, rtVars, grp, signalVars>>

WatcherWake == GroupDone /\ WatcherStep("armed", "stopping")

(* g.Go(server.Shutdown) ...                                               *)
WatcherStop(s) ==
    /\ Running
    /\ watcher = "stopping"
    /\ s \in Bound
    /\ cmd.at # "zeroed"
    /\ ShutdownCall(s, "watcher")
    /\ grp' = [grp EXCEPT !.members = @ \cup {<<"stop", s>>}]
    /\ UNCHANGED <<gen, cmd, rtVars, watcher, signalVars>>

(* ... when the last member has just finished and Wait is not released     *)
(* yet: WaitGroup.Add panics, and nobody recovers in this goroutine.       *)
WatcherCrash ==
    /\ watcher = "stopping"
    /\ cmd.at = "zeroed"
    /\ \E s \in Bound : srv[s].sd["watcher"] = "idle"
    /\ cmd' = [cmd EXCEPT !.at = "crashed"]
    /\ UNCHANGED <<serverVars, gen, rtVars, grp, watcher, signalVars>>

WatcherFinish ==
    /\ \A s \in Bound : srv[s].sd["watcher"] # "idle"
    /\ WatcherStep("stopping", "finished")

-----------------------------------------------------------------------------
(* The signal goroutine and the operating system.                          *)

SignalNotify ==
    /\ Running
    /\ sig = "starting"
    /\ sig' = "listening"
    /\ notified' = TRUE
    /\ UNCHANGED <<serverVars, gen, cmd, rtVars, grp, watcher, inbox, sent, termSent>>

(* The operator sends a signal.  Before the first Notify it ends the       *)
(* process.  Later it goes to this generation's channel, where only the    *)
(* first is ever read; when that channel does not exist yet, only those of *)
(* earlier generations get it (signal.Stop is never called).               *)
Signal(x) ==
    /\ Running
    /\ sent < MaxSignals
    /\ sent' = sent + 1
    /\ termSent' = (termSent \/ x = "TERM")
    /\ cmd' = IF notified THEN cmd ELSE [cmd EXCEPT !.at = "killed"]
    /\ inbox' = IF sig = "listening" /\ inbox = "none" THEN x ELSE inbox
    /\ UNCHANGED <<serverVars, gen, rtVars, grp, watcher, sig, notified>>

SignalDone(r) ==
    /\ Running
    /\ sig = "listening"
    /\ sig' = "finished"
    /\ Latch!FireOrSkip(r)
    /\ UNCHANGED <<serverVars, gen, cmd, grp, watcher, inbox, notified, sent, termSent>>

(* Mutation: only SIGHUP is handled.                                       *)
HandledHupOnly == {"HUP"}

Handled == {"TERM", "HUP"}

(* It takes one signal, or finds the runtime shut down already.            *)
SignalHandle ==
    \/ inbox \in Handled /\ SignalDone(inbox = "HUP")
    \/ fired /\ SignalDone(FALSE)

(* Application code shuts the runtime down.                                *)
AppShutdown(r) ==
    /\ Running
    /\ "appShutdown" \in Events
    /\ Latch!Fire(r)
    /\ UNCHANGED <<serverVars, gen, cmd, grp, watcher, signalVars>>

-----------------------------------------------------------------------------
(* Closing the containers.                                                 *)

(* doWithServers closes the child containers; without any, the servers are *)
(* beans of the container that Run closes.                                 *)
ClosePhase == IF cmd.own THEN "closing" ELSE "closeCore"

(* Mutation: the value-rpc server is not destroyed with its container.     *)
OnlyGrpcIsBean(s) == kind[s] = "grpc"

(* The gRPC and value-rpc servers are beans of their container, which      *)
(* destroys them; doWithServers' wrapper of an *http.Server is not.        *)
IsBean(s) == kind[s] # "http"

(* One container is closed after the other.                                *)
Closing(s) ==
    /\ cmd.at = ClosePhase
    /\ s \in cmd.created \ cmd.closed
    /\ \A t \in Servers : srv[t].sd["destroy"] # "called"

(* Container.Close destroys its beans ...                                  *)
Destroy(s) ==
    /\ Closing(s)
    /\ IsBean(s)
    /\ ShutdownCall(s, "destroy")
    /\ UNCHANGED lifeVars

(* ... and returns; its error replaces that of the run in doWithServers,   *)
(* and is only logged in Run.                                              *)
CloseContext(s) ==
    /\ Closing(s)
    /\ IsBean(s) => srv[s].sd["destroy"] = "returned"
    /\ \E failed \in BOOLEAN :
          /\ failed => "closeContext" \in Events
          /\ cmd' = [cmd EXCEPT !.closed = @ \cup {s},
                                !.err = @ \/ (failed /\ cmd.own)]
    /\ UNCHANGED <<serverVars, gen, rtVars, grp, watcher, signalVars>>

ChildrenClosed ==
    /\ cmd.own => cmd.created \subseteq cmd.closed
    /\ Move("closing", "closeCore", cmd.err)
    /\ UNCHANGED serverVars

CoreClosed ==
    /\ ~cmd.own => cmd.created \subseteq cmd.closed
    /\ Move("closeCore", "decide", cmd.err)
    /\ UNCHANGED serverVars

-----------------------------------------------------------------------------
(* What Run returns.  A run at the bound MaxGen ends with "repeat".        *)
Return ==
    /\ cmd.at = "decide"
    /\ ~restart \/ gen = MaxGen
    /\ cmd' = [cmd EXCEPT !.at = "exited",
                          !.outcome = IF restart THEN "repeat"
                                      ELSE IF cmd.err THEN "error" ELSE "ok"]
    /\ UNCHANGED <<serverVars, gen, rtVars, grp, watcher, signalVars>>

(* cligo.ErrRepeatRun: cligo runs the command again with new containers.   *)
(* What is left of the old generation's goroutines works on old objects.   *)
Repeat ==
    /\ cmd.at = "decide"
    /\ restart
    /\ gen < MaxGen
    /\ gen' = gen + 1
    /\ srv' = [s \in Servers |-> NewServer]
    /\ cmd' = NewCommand(cmd.own)
    /\ fired' = FALSE /\ restart' = FALSE
    /\ grp' = NewGroup
    /\ watcher' = "none"
    /\ sig' = "none" /\ inbox' = "none"
    /\ UNCHANGED <<kind, notified, sent, termSent>>

-----------------------------------------------------------------------------
Command ==
    \/ Extend \/ Collect \/ BindDone \/ Spawned \/ Wait \/ WaitRelease \/ WaitReturn
    \/ Joined \/ ChildrenClosed \/ CoreClosed \/ Return \/ Repeat
    \/ \E s \in Servers :
          CreateContext(s) \/ BindOne(s) \/ Spawn(s) \/ Destroy(s) \/ CloseContext(s)

Group == \E m \in Member : MemberError(m) \/ MemberDone(m)

Watcher ==
    WatcherWake \/ WatcherCrash \/ WatcherFinish \/ \E s \in Servers : WatcherStop(s)

SignalGoroutine == SignalNotify \/ SignalHandle

(* Steps of a server that leave the command alone.  Requests are left to   *)
(* Servers.tla: a gRPC server may be slow to drain without any, too.       *)
InServe(s) == Running /\ Serving(s) /\ UNCHANGED lifeVars
InShutdown(s) == Running /\ Stopping(s) /\ UNCHANGED lifeVars
FaultInServe(s) == Running /\ ServeFault(s) /\ UNCHANGED lifeVars

Environment ==
    \/ ExtendFail
    \/ CreateFail
    \/ \E s \in Servers : FaultInServe(s)
    \/ \E x \in Signals : Signal(x)
    \/ \E r \in BOOLEAN : AppShutdown(r)

Stopped == Terminated /\ UNCHANGED vars

(* The goroutines of the program, its timers included.                     *)
Progress ==
    \/ Command \/ Group \/ Watcher \/ SignalGoroutine
    \/ \E s \in Servers : InServe(s) \/ InShutdown(s)

Next == Progress \/ Environment \/ Stopped

Spec == Init /\ [][Next]_vars

(* As long as some goroutine of the program can run, or some timer fire,   *)
(* one of them does.  Nothing obliges the operator or the application.     *)
Fairness == WF_vars(Progress)

FairSpec == Spec /\ Fairness

-----------------------------------------------------------------------------
LifeTypeOK ==
    /\ ServersTypeOK
    /\ gen \in 1..MaxGen
    /\ cmd \in CommandState /\ cmd.closed \subseteq cmd.created
    /\ fired \in BOOLEAN
    /\ restart \in BOOLEAN
    /\ grp \in GroupState /\ grp.recorded \subseteq grp.members
    /\ watcher \in {"none", "armed", "stopping", "finished"}
    /\ sig \in {"none", "starting", "listening", "finished"}
    /\ inbox \in {"none"} \cup Signals
    /\ notified \in BOOLEAN
    /\ sent \in 0..MaxSignals
    /\ termSent \in BOOLEAN

(* A container, with every bean the handlers use, is closed only when no   *)
(* server of it is in Serve or about to enter it: g.Wait covers them all,  *)
(* also those whose goroutine had not been scheduled at the shutdown.      *)
NoServeAfterClose ==
    \A s \in cmd.closed : srv[s].serve \in {"idle", "returned"}

(* The next generation finds the ports free: also those of a server that   *)
(* failed half-way in Bind or whose Serve failed while the others served.  *)
RestartFindsPortsFree ==
    [][gen' # gen => \A s \in Servers : srv[s].listener # "open"]_vars

(* What Run returns is true.  Success: something was bound, served and was *)
(* asked to stop ("an application with zero listeners is not degraded, it  *)
(* is not running", utils.go), and no Serve failed.  A failed Serve is the *)
(* error of the command, unless a restart was asked for, before or after.  *)
OutcomeIsTruthful ==
    LET failed == \E s \in Servers : srv[s].result = "error"
        served == \E s \in Servers : srv[s].result = "nil"
    IN  /\ cmd.outcome = "ok" => fired /\ ~restart /\ served /\ ~failed
        /\ failed /\ cmd.at = "exited"
               => cmd.outcome = IF restart THEN "repeat" ELSE "error"

(* Every container that was created is closed when the command returns,    *)
(* also when a later one could not be created or nothing could be bound.   *)
NoContainerLeft ==
    cmd.at \in {"decide", "exited"} => cmd.created = cmd.closed

(* A server whose Bind failed is never served: a value-rpc server that     *)
(* failed in RegisterFunctions has a listener and would serve half an API. *)
FailedBindNeverServed ==
    \A s \in Servers : srv[s].bind = "failed" => srv[s].serve = "idle"

(* Unless a server fails, the watcher adds to the errgroup only while a    *)
(* Serve is still counted: an ordinary shutdown does not misuse WaitGroup. *)
NoWaitGroupMisuse ==
    (\A s \in Servers : srv[s].result # "error")
        => /\ cmd.at # "crashed"
           /\ cmd.at = "released" => grp.members = {}

(* A shutdown that was asked for ends the generation, whatever the state   *)
(* it finds the servers and the start-up in.                               *)
ShutdownCompletes == fired ~> (~fired \/ Terminated)

(* One server failing takes the others down and ends the generation: with  *)
(* the process, or with the restart somebody asked for.                    *)
FailureStopsAll ==
    LET failed == \E s \in Servers : srv[s].result = "error"
    IN  failed ~> (~failed \/ Terminated)

(* A SIGTERM that is the first signal of its generation ends the process,  *)
(* unless the application asks for a restart before the goroutine has read *)
(* it: Run then returns ErrRepeatRun, and the new generation has a channel *)
(* of its own.  A process that would be repeated has not ended.            *)
TermEnds ==
    (inbox = "TERM" /\ ~fired) ~> \/ Terminated /\ cmd.outcome # "repeat"
                                  \/ fired /\ restart

-----------------------------------------------------------------------------
(* Statements of the documentation that the code does not keep.            *)

(* run_command.go: "A clean shutdown still returns nil".                   *)
CleanShutdownReturnsNil == cmd.outcome # "error"

(* README.md: "SIGINT/SIGTERM for shutdown".                               *)
TermShutsDown == termSent ~> Terminated
=============================================================================
