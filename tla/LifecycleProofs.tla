--------------------------- MODULE LifecycleProofs ---------------------------
(***************************************************************************)
(* Proofs about Lifecycle.tla for any servers, faults, events and number   *)
(* of restarts.  The invariant says what holds at each step of the command *)
(* while its errgroup, its watcher and the servers go their own ways; that *)
(* of a single server is ServersInv (ServersProofs).                       *)
(***************************************************************************)
EXTENDS Lifecycle, ServersProofs

(* From the start of the command until runServers is left.                 *)
BeforeServe == {"extend", "create", "bind"}
UntilJoined == BeforeServe \cup
               {"spawn", "wait", "blocked", "zeroed", "released", "joined"}
(* After it.                                                               *)
AfterServe == {"closing", "closeCore", "decide"}

ServeEnded(s) == srv[s].serve \in {"idle", "returned"}
SomeFailed == \E s \in Servers : srv[s].result = "error"
SomeServed == \E s \in Servers : srv[s].result = "nil"

(* Nothing has been started before bindServers has ended.                  *)
NothingStarted ==
    /\ cmd.at \in BeforeServe =>
          /\ grp.members = {}
          /\ \A s \in Servers : srv[s].serve = "idle"
    /\ cmd.at \in BeforeServe \cup {"spawn"} => watcher = "none"
    /\ cmd.at \in {"extend", "create"} => \A s \in Servers : srv[s].bind = "no"

(* g.Wait covers every Serve: while one runs it is counted, and its error  *)
(* is recorded when it is counted no longer.                               *)
ServesCounted ==
    /\ \A s \in Servers :
          /\ ServeEnded(s) \/ <<"serve", s>> \in grp.members
          /\ srv[s].result = "error" /\ <<"serve", s>> \notin grp.members => grp.err
    /\ grp.recorded # {} => grp.err
    /\ cmd.at \in UntilJoined /\ grp.cancelled => grp.err

(* ... and every bound server is served, before g.Wait can return.         *)
ServesStarted ==
    /\ cmd.at \in {"spawn", "wait", "blocked", "zeroed", "released", "joined"}
          => Bound # {}
    /\ cmd.at \in {"wait", "blocked", "zeroed", "released", "joined"} \cup AfterServe
          => \A s \in Bound : srv[s].serve # "idle"

(* Wait has returned, or is about to: no Serve is counted any more.        *)
WaitCoversServes ==
    /\ cmd.at \in {"zeroed", "released", "joined"} \cup AfterServe \cup {"exited"}
          => \A s \in Servers : ServeEnded(s) /\ <<"serve", s>> \notin grp.members
    /\ cmd.at = "zeroed" => grp.members = {}

(* Shutdown is called by the watcher when groupCtx is done, and by Destroy *)
(* when runServers has been left.                                          *)
StoppersInTurn ==
    /\ watcher \in {"none", "armed"} => \A s \in Servers : srv[s].sd["watcher"] = "idle"
    /\ watcher \in {"stopping", "finished"} => GroupDone
    /\ cmd.at \in UntilJoined => \A s \in Servers : srv[s].sd["destroy"] = "idle"

(* Containers: none closed before runServers is left or while a server is  *)
(* served, none left, and only with the beans in it destroyed.             *)
ContainersClosed ==
    /\ cmd.at = "extend" => cmd.created = {}
    /\ cmd.at = "bind" => cmd.created = Servers
    /\ cmd.at \in UntilJoined => cmd.closed = {}
    /\ \A s \in cmd.closed : IsBean(s) => srv[s].sd["destroy"] = "returned"
    /\ cmd.closed # {} => \A s \in Servers : ServeEnded(s)
    /\ cmd.at = "closeCore" /\ cmd.own => cmd.created = cmd.closed
    /\ cmd.at \in {"decide", "exited"} => cmd.created = cmd.closed
    /\ \A s \in Servers \ cmd.created : srv[s].bind = "no"

(* The error of the run, from the end of runServers to what Run returns.   *)
ErrorCarried ==
    /\ restart => fired
    /\ cmd.at # "exited" => cmd.outcome = "none"
    /\ cmd.at \in AfterServe /\ SomeFailed => cmd.err
    /\ cmd.at \in AfterServe /\ ~cmd.err => SomeServed
    /\ cmd.at = "exited" /\ SomeFailed
          => cmd.outcome = IF restart THEN "repeat" ELSE "error"
    /\ cmd.outcome = "ok" => ~restart /\ SomeServed /\ ~SomeFailed

(* If no library reports a listener that went away by itself as closed:    *)
(* Serve ends well only after a shutdown, and WaitGroup is misused only    *)
(* when a server has failed.                                               *)
StoppedOrFailed ==
    "acceptClosed" \notin Faults =>
        /\ cmd.at \in AfterServe /\ ~cmd.err => fired
        /\ cmd.outcome = "ok" => fired
        /\ cmd.at = "crashed" => SomeFailed
        /\ cmd.at = "released" /\ grp.members # {} => SomeFailed

CommandInv ==
    /\ NothingStarted
    /\ ServesCounted
    /\ ServesStarted
    /\ WaitCoversServes
    /\ StoppersInTurn
    /\ ContainersClosed
    /\ ErrorCarried
    /\ StoppedOrFailed

LifeInv == ServersInv /\ LifeTypeOK /\ CommandInv

-----------------------------------------------------------------------------
(* What a step of a server leaves alone: what Bind has done, the result of *)
(* a Serve that has ended, which calls have been started.                  *)
ServesKept ==
    \A t \in Servers :
        /\ srv'[t].serve = "idle" <=> srv[t].serve = "idle"
        /\ ServeEnded(t) => srv'[t].serve = srv[t].serve /\ srv'[t].result = srv[t].result

CallsKept ==
    /\ kind' = kind
    /\ \A t \in Servers :
          /\ srv'[t].bind = srv[t].bind
          /\ \A c \in Stoppers :
                /\ srv'[t].sd[c] = "idle" <=> srv[t].sd[c] = "idle"
                /\ srv[t].sd[c] = "returned" => srv'[t].sd[c] = "returned"

(* The goroutine inside Serve keeps both.                                  *)
LEMMA ServeFrame ==
  ASSUME ServersInv, NEW s \in Servers, Serving(s) \/ ServeFault(s)
  PROVE  ServesKept /\ CallsKept
<1>0. srv \in [Servers -> Server]
  BY DEF ServersInv, ServersTypeOK
<1> USE <1>0 DEF Server, ServeEnded, ServeLeave, Accepting, ServesKept, CallsKept
<1>1. CASE ServeEnter(s)
  BY <1>1 DEF ServeEnter
<1>2. CASE ServeRun(s)
  BY <1>2 DEF ServeRun
<1>3. CASE ServeTooLate(s)
  BY <1>3 DEF ServeTooLate
<1>4. CASE ServeStopped(s)
  BY <1>4 DEF ServeStopped
<1>5. CASE ServeCrash(s)
  BY <1>5 DEF ServeCrash
<1>6. CASE ServeClosed(s)
  BY <1>6 DEF ServeClosed
<1>7. CASE ServePanic(s)
  BY <1>7 DEF ServePanic
<1> QED
  BY <1>1, <1>2, <1>3, <1>4, <1>5, <1>6, <1>7 DEF Serving, ServeFault

(* So do the goroutines inside Shutdown.                                   *)
LEMMA StoppingFrame ==
  ASSUME ServersInv, NEW s \in Servers, Stopping(s)
  PROVE  ServesKept /\ CallsKept
<1>0. srv \in [Servers -> Server]
  BY DEF ServersInv, ServersTypeOK
<1> USE <1>0 DEF Server, ServeEnded, ServesKept, CallsKept
<1>1. CASE HttpClose(s)
  BY <1>1 DEF HttpClose
<1>2. CASE VrpcClose(s)
  BY <1>2 DEF VrpcClose
<1>3. CASE VrpcNil(s)
  BY <1>3 DEF VrpcNil
<1>4. CASE GrpcGracefulStop(s)
  BY <1>4 DEF GrpcGracefulStop
<1>5. CASE GrpcDrained(s)
  BY <1>5 DEF GrpcDrained
<1>6. CASE GrpcGraceful(s)
  BY <1>6 DEF GrpcGraceful
<1>7. CASE GrpcTimeout(s)
  BY <1>7 DEF GrpcTimeout
<1>8. CASE GrpcStop(s)
  BY <1>8 DEF GrpcStop
<1>9. CASE GrpcStopReturn(s)
  BY <1>9 DEF GrpcStopReturn
<1>10. CASE CloseListener(s)
  BY <1>10 DEF CloseListener
<1>11. ASSUME NEW c \in Stoppers, ShutdownEnter(s, c)
      PROVE  ServesKept /\ CallsKept
  BY <1>11 DEF ShutdownEnter
<1>12. ASSUME NEW c \in Stoppers, ShutdownReturn(s, c)
      PROVE  ServesKept /\ CallsKept
  BY <1>12 DEF ShutdownReturn
<1> QED
  BY <1>1, <1>2, <1>3, <1>4, <1>5, <1>6, <1>7, <1>8, <1>9, <1>10, <1>11, <1>12 DEF Stopping

(* A call of Shutdown is its caller's first.                               *)
LEMMA CallFrame ==
  ASSUME ServersInv, NEW s \in Servers, NEW c \in Stoppers, ShutdownCall(s, c)
  PROVE  /\ kind' = kind
         /\ srv[s].sd[c] = "idle" /\ srv'[s].sd[c] = "called"
         /\ \A t \in Servers :
               /\ srv'[t].bind = srv[t].bind
               /\ srv'[t].serve = srv[t].serve
               /\ srv'[t].result = srv[t].result
               /\ \A d \in Stoppers :
                     (t = s /\ d = c) \/ srv'[t].sd[d] = srv[t].sd[d]
<1>0. srv \in [Servers -> Server]
  BY DEF ServersInv, ServersTypeOK
<1> QED
  BY <1>0 DEF Server, ShutdownCall

(* Bind, and the call of Serve, touch one field of one server.             *)
LEMMA BindFrame ==
  ASSUME ServersInv, NEW s \in Servers, BindServer(s)
  PROVE  /\ kind' = kind
         /\ \A t \in Servers :
               /\ t # s => srv'[t].bind = srv[t].bind
               /\ srv'[t].serve = srv[t].serve
               /\ srv'[t].result = srv[t].result
               /\ srv'[t].sd = srv[t].sd
<1>0. srv \in [Servers -> Server]
  BY DEF ServersInv, ServersTypeOK
<1> USE <1>0 DEF Server
<1>1. CASE BindOk(s)
  BY <1>1 DEF BindOk
<1>2. CASE BindFail(s)
  BY <1>2 DEF BindFail
<1>3. CASE BindHalf(s)
  BY <1>3 DEF BindHalf
<1> QED
  BY <1>1, <1>2, <1>3 DEF BindServer

(* g.Go of a Serve touches that server only.                               *)
LEMMA ServeCallFrame ==
  ASSUME ServersInv, NEW s \in Servers, ServeCall(s)
  PROVE  /\ kind' = kind
         /\ srv'[s].serve = "called"
         /\ \A t \in Servers :
               /\ t # s => srv'[t].serve = srv[t].serve
               /\ srv'[t].bind = srv[t].bind
               /\ srv'[t].result = srv[t].result
               /\ srv'[t].sd = srv[t].sd
<1>0. srv \in [Servers -> Server]
  BY DEF ServersInv, ServersTypeOK
<1> QED
  BY <1>0 DEF Server, ServeCall

-----------------------------------------------------------------------------
(* The command and its errgroup start well-typed.                          *)
LEMMA NewTypes ==
  /\ \A own \in OwnContexts : NewCommand(own) \in CommandState
                             /\ NewCommand(own).closed \subseteq NewCommand(own).created
  /\ NewGroup \in GroupState /\ NewGroup.recorded \subseteq NewGroup.members
<1>1. ASSUME NEW own \in OwnContexts
      PROVE  NewCommand(own) \in CommandState
             /\ NewCommand(own).closed \subseteq NewCommand(own).created
  BY DEF NewCommand, CommandState, CommandStep
<1>2. NewGroup \in GroupState /\ NewGroup.recorded \subseteq NewGroup.members
  BY DEF NewGroup, GroupState
<1> QED
  BY <1>1, <1>2

(* The first run of the command starts in the invariant.                   *)
LEMMA LifeInit == Init => LifeInv
<1> SUFFICES ASSUME Init PROVE LifeInv
  OBVIOUS
<1>1. ServersInv
  BY ServersInvInit DEF Init
<1>2. \A s \in Servers : srv[s] = NewServer
  BY DEF Init, ServersInit
<1>3. LifeTypeOK
  <2>1. cmd \in CommandState /\ cmd.closed \subseteq cmd.created
    BY NewTypes DEF Init
  <2>2. grp \in GroupState /\ grp.recorded \subseteq grp.members
    BY NewTypes DEF Init
  <2>3. gen \in 1..MaxGen /\ sent \in 0..MaxSignals
    BY BoundsAssumption DEF Init
  <2> QED
    BY <1>1, <2>1, <2>2, <2>3 DEF Init, LifeTypeOK, ServersInv, Latch!LatchInit
<1> QED
  BY <1>1, <1>2, <1>3
  DEF Init, NewServer, NewCommand, NewGroup, Latch!LatchInit, Stoppers, ServeEnded,
      LifeInv, CommandInv, NothingStarted, ServesCounted, ServesStarted, WaitCoversServes,
      StoppersInTurn, ContainersClosed, ErrorCarried, StoppedOrFailed, SomeFailed,
      SomeServed, BeforeServe, UntilJoined, AfterServe, Bound

(* Steps inside the servers, while the command and its goroutines do       *)
(* something else.                                                         *)
LEMMA InnerStep ==
  ASSUME LifeInv, Running, ServersInv', ServesKept, CallsKept, UNCHANGED lifeVars
  PROVE  LifeInv'
<1>1. /\ \A s \in Servers : ServeEnded(s) => ServeEnded(s)'
      /\ Bound' = Bound /\ GroupDone' = GroupDone
  BY DEF ServesKept, CallsKept, ServeEnded, Bound, lifeVars, rtVars, GroupDone
<1>2. LifeTypeOK'
  BY DEF LifeInv, LifeTypeOK, ServersInv, lifeVars, rtVars, signalVars
<1>3. \A s \in Servers : ServeEnded(s) => srv'[s].result = srv[s].result
  BY DEF ServesKept
<1> USE DEF LifeInv, CommandInv, lifeVars, rtVars
<1>4. NothingStarted'
  BY DEF NothingStarted, ServesKept, CallsKept
<1>5. ServesCounted'
  BY <1>1, <1>3 DEF ServesCounted
<1>6. ServesStarted'
  BY <1>1 DEF ServesStarted, ServesKept, Bound
<1>7. WaitCoversServes'
  BY <1>1 DEF WaitCoversServes
<1>8. StoppersInTurn'
  BY <1>1 DEF StoppersInTurn, CallsKept, Stoppers
<1>9. ContainersClosed'
  BY <1>1 DEF ContainersClosed, CallsKept, Stoppers, IsBean, LifeTypeOK, CommandState
<1>10. /\ cmd.at \in {"released", "exited"} \cup AfterServe
             => (SomeFailed' <=> SomeFailed) /\ (SomeServed' <=> SomeServed)
  BY <1>3 DEF WaitCoversServes, SomeFailed, SomeServed, AfterServe
<1>11. ErrorCarried' /\ StoppedOrFailed'
  BY <1>10 DEF ErrorCarried, StoppedOrFailed, Running, Terminated
<1> QED
  BY <1>2, <1>4, <1>5, <1>6, <1>7, <1>8, <1>9, <1>11

-----------------------------------------------------------------------------
(* What Move does to the command while the servers stand still.            *)
Moves(from, to, e) ==
    /\ ServersInv' /\ LifeTypeOK'
    /\ cmd.at = from /\ cmd'.at = to /\ cmd'.err = e
    /\ cmd'.own = cmd.own /\ cmd'.created = cmd.created
    /\ cmd'.closed = cmd.closed /\ cmd'.outcome = cmd.outcome
    /\ UNCHANGED <<kind, srv, fired, restart, grp, watcher>>

(* The command goes on to another step; the servers stay as they are.      *)
LEMMA Moved ==
  ASSUME LifeInv, NEW from, NEW to \in CommandStep, NEW e \in BOOLEAN,
         Move(from, to, e), UNCHANGED serverVars
  PROVE  Moves(from, to, e)
<1>1. ServersInv'
  BY ServersStutter DEF LifeInv
<1>2. cmd \in CommandState
  BY DEF LifeInv, LifeTypeOK
<1>3. cmd' \in CommandState
  BY <1>2 DEF CommandState, Move
<1>4. /\ cmd.at = from /\ cmd'.at = to /\ cmd'.err = e
      /\ cmd'.own = cmd.own /\ cmd'.created = cmd.created
      /\ cmd'.closed = cmd.closed /\ cmd'.outcome = cmd.outcome
  BY <1>2 DEF CommandState, Move
<1>5. /\ UNCHANGED <<kind, srv, gen, fired, restart, grp, watcher>>
      /\ UNCHANGED <<sig, inbox, notified, sent, termSent>>
  BY DEF Move, rtVars, signalVars, serverVars
<1>6. LifeTypeOK'
  BY <1>1, <1>3, <1>4, <1>5 DEF LifeInv, LifeTypeOK, ServersInv
<1> QED
  BY <1>1, <1>4, <1>5, <1>6 DEF Moves

(* The containers are made, the servers bound.                             *)
LEMMA StartMoves ==
  ASSUME LifeInv, CreateFail \/ Collect \/ BindDone
  PROVE  LifeInv'
<1>0. /\ LifeInv /\ CommandInv
      /\ cmd.err \in BOOLEAN /\ cmd.closed \subseteq cmd.created
  BY DEF LifeInv, LifeTypeOK, CommandState
<1> USE DEF BeforeServe, UntilJoined, AfterServe, Bound, GroupDone, SomeFailed,
        SomeServed, ServeEnded, IsBean, CommandInv, NothingStarted, ServesCounted,
        ServesStarted, WaitCoversServes, StoppersInTurn, ContainersClosed,
        ErrorCarried, StoppedOrFailed
<1>1. CASE CreateFail
  <2>1. Moves("create", "closing", TRUE)
    BY <1>1, <1>0, Moved DEF CreateFail, AfterFailure, CommandStep
  <2>2. CommandInv'
    BY <1>0, <2>1 DEF Moves
  <2> QED
    BY <1>0, <2>1, <2>2 DEF LifeInv, Moves
<1>2. CASE Collect
  <2>1. CASE Servers = {}
    <3>1. Moves("create", "closing", TRUE)
      BY <1>2, <1>0, <2>1, Moved DEF Collect, AfterFailure, CommandStep
    <3>2. cmd.created = Servers
      BY <1>2 DEF Collect
    <3>3. CommandInv'
      BY <1>0, <2>1, <3>1, <3>2 DEF Moves
    <3> QED
      BY <1>0, <2>1, <3>1, <3>2, <3>3 DEF LifeInv, Moves
  <2>2. CASE ~(Servers = {})
    <3>1. Moves("create", "bind", FALSE)
      BY <1>2, <1>0, <2>2, Moved DEF Collect, AfterFailure, CommandStep
    <3>2. cmd.created = Servers
      BY <1>2 DEF Collect
    <3>3. CommandInv'
      BY <1>0, <2>2, <3>1, <3>2 DEF Moves
    <3> QED
      BY <1>0, <2>2, <3>1, <3>2, <3>3 DEF LifeInv, Moves
  <2> QED
    BY <2>1, <2>2
<1>3. CASE BindDone
  <2>1. CASE Bound # {}
    <3>1. Moves("bind", "spawn", FALSE)
      BY <1>3, <1>0, <2>1, Moved DEF BindDone, AfterFailure, EnoughBound, CommandStep
    <3>2. CommandInv'
      BY <1>0, <2>1, <3>1 DEF Moves
    <3> QED
      BY <1>0, <2>1, <3>1, <3>2 DEF LifeInv, Moves
  <2>2. CASE ~(Bound # {})
    <3>1. Moves("bind", "closing", TRUE)
      BY <1>3, <1>0, <2>2, Moved DEF BindDone, AfterFailure, EnoughBound, CommandStep
    <3>2. CommandInv'
      BY <1>0, <2>2, <3>1 DEF Moves
    <3> QED
      BY <1>0, <2>2, <3>1, <3>2 DEF LifeInv, Moves
  <2> QED
    BY <2>1, <2>2
<1> QED
  BY <1>1, <1>2, <1>3

(* g.Wait, which covers every Serve.                                       *)
LEMMA WaitMoves ==
  ASSUME LifeInv, Wait \/ WaitRelease \/ WaitReturn
  PROVE  LifeInv'
<1>0. /\ LifeInv /\ CommandInv
      /\ cmd.err \in BOOLEAN /\ cmd.closed \subseteq cmd.created
  BY DEF LifeInv, LifeTypeOK, CommandState
<1> USE DEF BeforeServe, UntilJoined, AfterServe, Bound, GroupDone, SomeFailed,
        SomeServed, ServeEnded, IsBean, CommandInv, NothingStarted, ServesCounted,
        ServesStarted, WaitCoversServes, StoppersInTurn, ContainersClosed,
        ErrorCarried, StoppedOrFailed
<1>1. CASE Wait
  <2>1. CASE grp.members = {}
    <3>1. Moves("wait", "joined", FALSE)
      BY <1>1, <1>0, <2>1, Moved DEF Wait, NobodyLeft, CommandStep
    <3>2. CommandInv'
      BY <1>0, <2>1, <3>1 DEF Moves
    <3> QED
      BY <1>0, <2>1, <3>1, <3>2 DEF LifeInv, Moves
  <2>2. CASE ~(grp.members = {})
    <3>1. Moves("wait", "blocked", FALSE)
      BY <1>1, <1>0, <2>2, Moved DEF Wait, NobodyLeft, CommandStep
    <3>2. CommandInv'
      BY <1>0, <2>2, <3>1 DEF Moves
    <3> QED
      BY <1>0, <2>2, <3>1, <3>2 DEF LifeInv, Moves
  <2> QED
    BY <2>1, <2>2
<1>2. CASE WaitRelease
  <2>1. Moves("zeroed", "released", FALSE)
    BY <1>2, <1>0, Moved DEF WaitRelease, CommandStep
  <2>2. CommandInv'
    BY <1>0, <2>1 DEF Moves
  <2> QED
    BY <1>0, <2>1, <2>2 DEF LifeInv, Moves
<1>3. CASE WaitReturn
  <2>1. CASE grp.members = {}
    <3>1. Moves("released", "joined", FALSE)
      BY <1>3, <1>0, <2>1, Moved DEF WaitReturn, CommandStep
    <3>2. CommandInv'
      BY <1>0, <2>1, <3>1 DEF Moves
    <3> QED
      BY <1>0, <2>1, <3>1, <3>2 DEF LifeInv, Moves
  <2>2. CASE ~(grp.members = {})
    <3>1. Moves("released", "closing", TRUE)
      BY <1>3, <1>0, <2>2, Moved DEF WaitReturn, CommandStep
    <3>2. CommandInv'
      BY <1>0, <2>2, <3>1 DEF Moves
    <3> QED
      BY <1>0, <2>2, <3>1, <3>2 DEF LifeInv, Moves
  <2> QED
    BY <2>1, <2>2
<1> QED
  BY <1>1, <1>2, <1>3

(* Every container that was created, of whichever kind.                    *)
LEMMA CoreComesLast ==
  ASSUME LifeInv, CoreClosed
  PROVE  cmd.created = cmd.closed
<1>1. cmd.at = "closeCore" /\ (~cmd.own => cmd.created \subseteq cmd.closed)
  BY DEF CoreClosed, Move
<1>2. cmd.own => cmd.created = cmd.closed
  BY <1>1 DEF LifeInv, CommandInv, ContainersClosed
<1>3. cmd.closed \subseteq cmd.created
  BY DEF LifeInv, LifeTypeOK
<1> QED
  BY <1>1, <1>2, <1>3

(* All containers have been closed.                                        *)
LEMMA CloseMoves ==
  ASSUME LifeInv, ChildrenClosed \/ CoreClosed
  PROVE  LifeInv'
<1>0. /\ LifeInv /\ CommandInv
      /\ cmd.err \in BOOLEAN /\ cmd.closed \subseteq cmd.created
  BY DEF LifeInv, LifeTypeOK, CommandState
<1> USE DEF BeforeServe, UntilJoined, AfterServe, Bound, GroupDone, SomeFailed,
        SomeServed, ServeEnded, IsBean, CommandInv, NothingStarted, ServesCounted,
        ServesStarted, WaitCoversServes, StoppersInTurn, ContainersClosed,
        ErrorCarried, StoppedOrFailed
<1>1. CASE ChildrenClosed
  <2>1. Moves("closing", "closeCore", cmd.err)
    BY <1>1, <1>0, Moved DEF ChildrenClosed, CommandStep
  <2>2. cmd.own => cmd.created = cmd.closed
    BY <1>0, <1>1 DEF ChildrenClosed
  <2>3. CommandInv'
    BY <1>0, <2>1, <2>2 DEF Moves
  <2> QED
    BY <1>0, <2>1, <2>2, <2>3 DEF LifeInv, Moves
<1>2. CASE CoreClosed
  <2>1. Moves("closeCore", "decide", cmd.err)
    BY <1>2, <1>0, Moved DEF CoreClosed, CommandStep
  <2>2. cmd.created = cmd.closed
    BY <1>0, <1>2, CoreComesLast
  <2>3. CommandInv'
    BY <1>0, <2>1, <2>2 DEF Moves
  <2> QED
    BY <1>0, <2>1, <2>2, <2>3 DEF LifeInv, Moves
<1> QED
  BY <1>1, <1>2

-----------------------------------------------------------------------------
(* What a step of the command, the watcher or the signal goroutine leaves  *)
(* alone if it is not one of a server.                                     *)
Aside == UNCHANGED <<kind, srv, gen, sig, inbox, notified, sent, termSent>>

(* Such a step is well-typed if what it changes is.                        *)
LEMMA AsideTypes ==
  ASSUME LifeInv, Aside,
         cmd' \in CommandState, cmd'.closed \subseteq cmd'.created,
         grp' \in GroupState, grp'.recorded \subseteq grp'.members,
         fired' \in BOOLEAN, restart' \in BOOLEAN,
         watcher' \in {"none", "armed", "stopping", "finished"}
  PROVE  ServersInv' /\ LifeTypeOK'
<1>1. ServersInv'
  BY ServersStutter DEF LifeInv, Aside, serverVars
<1> QED
  BY <1>1 DEF LifeInv, LifeTypeOK, ServersInv, Aside

(* When g.Wait has returned, somebody has been served.                     *)
LEMMA JoinedServed ==
  ASSUME LifeInv, cmd.at = "joined"
  PROVE  \E s \in Bound : srv[s].serve = "returned"
<1>1. Bound # {} /\ \A s \in Bound : srv[s].serve # "idle"
  BY DEF LifeInv, CommandInv, ServesStarted
<1>2. \A s \in Servers : ServeEnded(s)
  BY DEF LifeInv, CommandInv, WaitCoversServes
<1> QED
  BY <1>1, <1>2 DEF Bound, ServeEnded

(* The command's own steps beside Move.                                    *)
LEMMA CommandSteps ==
  ASSUME LifeInv, Extend \/ ExtendFail \/ Joined \/ Return
  PROVE  LifeInv'
<1>0. /\ LifeInv /\ CommandInv
      /\ cmd.err \in BOOLEAN /\ cmd.closed \subseteq cmd.created
  BY DEF LifeInv, LifeTypeOK, CommandState
<1> USE DEF BeforeServe, UntilJoined, AfterServe, Bound, GroupDone, SomeFailed,
        SomeServed, ServeEnded, IsBean, CommandInv, NothingStarted, ServesCounted,
        ServesStarted, WaitCoversServes, StoppersInTurn, ContainersClosed,
        ErrorCarried, StoppedOrFailed
<1>types. /\ cmd \in CommandState /\ grp \in GroupState /\ grp.recorded \subseteq grp.members
      /\ fired \in BOOLEAN /\ restart \in BOOLEAN
      /\ watcher \in {"none", "armed", "stopping", "finished"}
  BY DEF LifeInv, LifeTypeOK
<1>1. CASE Extend
  <2>1. Aside /\ UNCHANGED <<fired, restart, grp, watcher>>
    BY <1>1 DEF Extend, Aside, serverVars, rtVars, signalVars
  <2>2. /\ cmd.at = "extend" /\ cmd'.at = "create"
        /\ cmd'.created = IF cmd.own THEN {} ELSE Servers
        /\ cmd'.own = cmd.own /\ cmd'.closed = cmd.closed
        /\ cmd'.err = cmd.err /\ cmd'.outcome = cmd.outcome
        /\ cmd' \in CommandState
    BY <1>1, <1>types DEF Extend, CommandState, CommandStep
  <2>3. cmd'.closed \subseteq cmd'.created
    BY <1>0, <2>2
  <2>4. ServersInv' /\ LifeTypeOK'
    BY <1>0, <1>types, <2>1, <2>2, <2>3, AsideTypes
  <2>5. CommandInv'
    BY <1>0, <2>1, <2>2 DEF Aside
  <2> QED
    BY <2>4, <2>5 DEF LifeInv
<1>2. CASE ExtendFail
  <2>1. Aside /\ UNCHANGED <<fired, restart, grp, watcher>>
    BY <1>2 DEF ExtendFail, Aside, serverVars, rtVars, signalVars
  <2>2. /\ cmd.at = "extend" /\ cmd'.at = "exited" /\ cmd'.outcome = "error"
        /\ cmd'.own = cmd.own /\ cmd'.created = cmd.created
        /\ cmd'.closed = cmd.closed /\ cmd'.err = cmd.err
        /\ cmd' \in CommandState
    BY <1>2, <1>types DEF ExtendFail, CommandState, CommandStep
  <2>4. ServersInv' /\ LifeTypeOK'
    BY <1>0, <1>types, <2>1, <2>2, AsideTypes
  <2>5. \A s \in Servers : srv[s].result = "none"
    BY <1>0, <2>2 DEF LifeInv, ServersInv, Sound, ResultFollowsServe
  <2>6. CommandInv'
    BY <1>0, <2>1, <2>2, <2>5 DEF Aside
  <2> QED
    BY <2>4, <2>6 DEF LifeInv
<1>3. CASE Joined
  <2>1. Aside /\ UNCHANGED <<fired, restart, watcher>>
    BY <1>3 DEF Joined, Aside, serverVars, rtVars, signalVars
  <2>2. /\ cmd.at = "joined" /\ cmd'.at = "closing" /\ cmd'.err = grp.err
        /\ cmd'.own = cmd.own /\ cmd'.created = cmd.created
        /\ cmd'.closed = cmd.closed /\ cmd'.outcome = cmd.outcome
        /\ cmd' \in CommandState
    BY <1>3, <1>types DEF Joined, CommandState, CommandStep, GroupState
  <2>3. /\ grp'.members = grp.members /\ grp'.recorded = grp.recorded
        /\ grp'.err = grp.err /\ grp'.cancelled
        /\ grp' \in GroupState
    BY <1>3, <1>types DEF Joined, GroupState
  <2>4. ServersInv' /\ LifeTypeOK'
    BY <1>0, <1>types, <2>1, <2>2, <2>3, AsideTypes
  <2>5. PICK s \in Bound : srv[s].serve = "returned"
    BY <2>2, JoinedServed
  <2>6. s \in Servers /\ srv[s].result \in {"nil", "error"}
    BY <2>5 DEF LifeInv, ServersInv, ServersTypeOK, Sound, ResultFollowsServe, Server
  <2>7. ~grp.err => srv[s].result = "nil"
    BY <1>0, <2>2, <2>6
  <2>8. "acceptClosed" \notin Faults /\ ~grp.err => fired
    <3> SUFFICES ASSUME "acceptClosed" \notin Faults, ~grp.err PROVE fired
      OBVIOUS
    <3>1. srv[s].shut # "fresh"
      BY <2>5, <2>6, <2>7 DEF LifeInv, ServersInv, Sound, ResultFollowsServe
    <3>2. srv[s].sd["watcher"] # "idle"
      BY <1>0, <2>2, <2>6, <3>1 DEF ServersInv, LifeInv, Sound, BodyHasCaller, Stoppers
    <3> QED
      BY <1>0, <1>types, <2>2, <2>6, <3>2
  <2>9. /\ SomeFailed => grp.err
        /\ ~grp.err => SomeServed
    BY <1>0, <2>2, <2>6, <2>7
  <2>10. ErrorCarried' /\ StoppedOrFailed'
    BY <1>0, <2>1, <2>2, <2>8, <2>9 DEF Aside
  <2>11. NothingStarted' /\ ServesCounted' /\ ServesStarted' /\ WaitCoversServes'
    BY <1>0, <2>1, <2>2, <2>3 DEF Aside
  <2>12. StoppersInTurn' /\ ContainersClosed'
    BY <1>0, <2>1, <2>2, <2>3 DEF Aside
  <2> QED
    BY <2>4, <2>10, <2>11, <2>12 DEF LifeInv
<1>4. CASE Return
  <2>1. Aside /\ UNCHANGED <<fired, restart, grp, watcher>>
    BY <1>4 DEF Return, Aside, serverVars, rtVars, signalVars
  <2>2. /\ cmd.at = "decide" /\ cmd'.at = "exited"
        /\ cmd'.outcome = IF restart THEN "repeat" ELSE IF cmd.err THEN "error" ELSE "ok"
        /\ cmd'.own = cmd.own /\ cmd'.created = cmd.created
        /\ cmd'.closed = cmd.closed /\ cmd'.err = cmd.err
        /\ cmd' \in CommandState
    BY <1>4, <1>types DEF Return, CommandState, CommandStep
  <2>4. ServersInv' /\ LifeTypeOK'
    BY <1>0, <1>types, <2>1, <2>2, AsideTypes
  <2>5. CommandInv'
    BY <1>0, <2>1, <2>2 DEF Aside
  <2> QED
    BY <2>4, <2>5 DEF LifeInv
<1> QED
  BY <1>1, <1>2, <1>3, <1>4

(* The containers of the servers are made and closed one by one.           *)
LEMMA ContainerSteps ==
  ASSUME LifeInv, NEW s \in Servers, CreateContext(s) \/ CloseContext(s)
  PROVE  LifeInv'
<1>0. /\ LifeInv /\ CommandInv
      /\ cmd.err \in BOOLEAN /\ cmd.closed \subseteq cmd.created
  BY DEF LifeInv, LifeTypeOK, CommandState
<1> USE DEF BeforeServe, UntilJoined, AfterServe, Bound, GroupDone, SomeFailed,
        SomeServed, ServeEnded, IsBean, CommandInv, NothingStarted, ServesCounted,
        ServesStarted, WaitCoversServes, StoppersInTurn, ContainersClosed,
        ErrorCarried, StoppedOrFailed
<1>types. /\ cmd \in CommandState /\ grp \in GroupState /\ grp.recorded \subseteq grp.members
      /\ fired \in BOOLEAN /\ restart \in BOOLEAN
      /\ watcher \in {"none", "armed", "stopping", "finished"}
  BY DEF LifeInv, LifeTypeOK
<1>1. CASE CreateContext(s)
  <2>1. Aside /\ UNCHANGED <<fired, restart, grp, watcher>>
    BY <1>1 DEF CreateContext, Aside, serverVars, rtVars, signalVars
  <2>2. /\ cmd.at = "create" /\ cmd'.at = "create"
        /\ cmd'.created = cmd.created \cup {s}
        /\ cmd'.own = cmd.own /\ cmd'.closed = cmd.closed
        /\ cmd'.err = cmd.err /\ cmd'.outcome = cmd.outcome
        /\ cmd' \in CommandState
    BY <1>1, <1>types DEF CreateContext, CommandState, CommandStep
  <2>3. cmd'.closed \subseteq cmd'.created
    BY <1>0, <2>2
  <2>4. ServersInv' /\ LifeTypeOK'
    BY <1>0, <1>types, <2>1, <2>2, <2>3, AsideTypes
  <2>5. CommandInv'
    BY <1>0, <2>1, <2>2 DEF Aside
  <2> QED
    BY <2>4, <2>5 DEF LifeInv
<1>2. CASE CloseContext(s)
  <2>1. Aside /\ UNCHANGED <<fired, restart, grp, watcher>>
    BY <1>2 DEF CloseContext, Aside, serverVars, rtVars, signalVars
  <2>2. PICK failed \in BOOLEAN :
           cmd' = [cmd EXCEPT !.closed = @ \cup {s}, !.err = @ \/ (failed /\ cmd.own)]
    BY <1>2 DEF CloseContext
  <2>3. /\ cmd.at = "closing" \/ (cmd.at = "closeCore" /\ ~cmd.own)
        /\ s \in cmd.created
    BY <1>2 DEF CloseContext, Closing, ClosePhase
  <2>4. /\ cmd'.at = cmd.at
        /\ cmd'.closed = cmd.closed \cup {s}
        /\ cmd'.own = cmd.own /\ cmd'.created = cmd.created
        /\ cmd'.outcome = cmd.outcome
        /\ cmd.err => cmd'.err
        /\ cmd' \in CommandState
    BY <1>types, <2>2 DEF CommandState
  <2>5. cmd'.closed \subseteq cmd'.created
    BY <1>0, <2>4, <2>3
  <2>6. ServersInv' /\ LifeTypeOK'
    BY <1>0, <1>types, <2>1, <2>4, <2>5, AsideTypes
  <2>7. IsBean(s) => srv[s].sd["destroy"] = "returned"
    BY <1>2 DEF CloseContext
  <2>8. NothingStarted' /\ ServesCounted' /\ ServesStarted' /\ WaitCoversServes'
    BY <1>0, <2>1, <2>3, <2>4 DEF Aside
  <2>9. StoppersInTurn'
    BY <1>0, <2>1, <2>3, <2>4 DEF Aside
  <2>10. ContainersClosed'
    BY <1>0, <2>1, <2>3, <2>4, <2>7 DEF Aside
  <2>11. ErrorCarried' /\ StoppedOrFailed'
    BY <1>0, <2>1, <2>3, <2>4 DEF Aside
  <2> QED
    BY <2>6, <2>8, <2>9, <2>10, <2>11 DEF LifeInv
<1> QED
  BY <1>1, <1>2

(* The members of the errgroup end, with or without an error.              *)
LEMMA GroupSteps ==
  ASSUME LifeInv, NEW m \in Member, MemberError(m) \/ MemberDone(m)
  PROVE  LifeInv'
<1>0. /\ LifeInv /\ CommandInv
      /\ cmd.err \in BOOLEAN /\ cmd.closed \subseteq cmd.created
  BY DEF LifeInv, LifeTypeOK, CommandState
<1> USE DEF BeforeServe, UntilJoined, AfterServe, Bound, GroupDone, SomeFailed,
        SomeServed, ServeEnded, IsBean, CommandInv, NothingStarted, ServesCounted,
        ServesStarted, WaitCoversServes, StoppersInTurn, ContainersClosed,
        ErrorCarried, StoppedOrFailed
<1>types. /\ cmd \in CommandState /\ grp \in GroupState /\ grp.recorded \subseteq grp.members
      /\ fired \in BOOLEAN /\ restart \in BOOLEAN
      /\ watcher \in {"none", "armed", "stopping", "finished"}
  BY DEF LifeInv, LifeTypeOK
<1>1. CASE MemberError(m)
  <2>1. Aside /\ UNCHANGED <<cmd, fired, restart, watcher>>
    BY <1>1 DEF MemberError, Aside, serverVars, rtVars, signalVars
  <2>2. /\ m \in grp.members
        /\ grp'.members = grp.members /\ grp'.recorded = grp.recorded \cup {m}
        /\ grp'.err /\ grp'.cancelled
        /\ grp' \in GroupState
    BY <1>1, <1>types DEF MemberError, GroupState
  <2>3. grp'.recorded \subseteq grp'.members
    BY <1>types, <2>2
  <2>4. ServersInv' /\ LifeTypeOK'
    BY <1>0, <1>types, <2>1, <2>2, <2>3, AsideTypes
  <2>5. CommandInv'
    BY <1>0, <2>1, <2>2 DEF Aside
  <2> QED
    BY <2>4, <2>5 DEF LifeInv
<1>2. CASE MemberDone(m)
  <2>1. Aside /\ UNCHANGED <<fired, restart, watcher>>
    BY <1>2 DEF MemberDone, Aside, serverVars, rtVars, signalVars
  <2>2. /\ m \in grp.members
        /\ grp'.members = grp.members \ {m} /\ grp'.recorded = grp.recorded \ {m}
        /\ grp'.err = grp.err /\ grp'.cancelled = grp.cancelled
        /\ grp' \in GroupState
    BY <1>2, <1>types DEF MemberDone, GroupState
  <2>3. /\ cmd'.own = cmd.own /\ cmd'.created = cmd.created
        /\ cmd'.closed = cmd.closed /\ cmd'.outcome = cmd.outcome
        /\ cmd'.err = cmd.err
        /\ cmd' \in CommandState
        /\ \/ cmd'.at = cmd.at
           \/ cmd.at = "blocked" /\ cmd'.at = "zeroed" /\ grp.members = {m}
    BY <1>2, <1>types DEF MemberDone, CommandState, CommandStep
  <2>4. grp'.recorded \subseteq grp'.members
    BY <1>types, <2>2
  <2>5. ServersInv' /\ LifeTypeOK'
    BY <1>0, <1>types, <2>1, <2>2, <2>3, <2>4, AsideTypes
  <2>6. ASSUME NEW s \in Servers, m = <<"serve", s>>
        PROVE  ServeEnded(s) /\ (srv[s].result = "error" => grp.err)
    <3>1. m[1] = "serve" /\ m[2] = s
      BY <2>6
    <3>2. srv[s].serve = "returned"
      BY <1>2, <3>1 DEF MemberDone, MemberReturned
    <3>3. srv[s].result = "error" => m \in grp.recorded
      BY <1>2, <3>1 DEF MemberDone, MemberFailed
    <3> QED
      BY <1>0, <3>2, <3>3
  <2>7. \A s \in Servers :
           /\ ServeEnded(s) \/ <<"serve", s>> \in grp'.members
           /\ srv[s].result = "error" /\ <<"serve", s>> \notin grp'.members => grp.err
    BY <1>0, <2>2, <2>6
  <2>8. grp'.recorded # {} => grp.err
    BY <1>0, <2>2
  <2>9. grp'.members \subseteq grp.members /\ (grp.members = {m} => grp'.members = {})
    BY <2>2
  <2>10. CommandInv'
    BY <1>0, <2>1, <2>2, <2>3, <2>7, <2>8, <2>9 DEF Aside
  <2> QED
    BY <2>5, <2>10 DEF LifeInv
<1> QED
  BY <1>1, <1>2

(* A Serve that has ended before the watcher called Shutdown has failed,   *)
(* unless a closed listener was taken for a shutdown.                      *)
LEMMA UnaskedServeFailed ==
  ASSUME LifeInv, cmd.at \in {"zeroed", "released", "joined"},
         NEW s \in Bound, srv[s].sd["watcher"] = "idle",
         "acceptClosed" \notin Faults
  PROVE  SomeFailed
<1>1. s \in Servers /\ Sound(kind[s], srv[s])
  BY DEF LifeInv, ServersInv, Bound
<1>2. srv[s].serve = "returned"
  BY <1>1 DEF LifeInv, CommandInv, WaitCoversServes, ServesStarted, ServeEnded
<1>3. srv[s].sd["destroy"] = "idle"
  BY <1>1 DEF LifeInv, CommandInv, StoppersInTurn, UntilJoined
<1>4. srv[s].shut = "fresh"
  BY <1>1, <1>3 DEF Sound, BodyHasCaller, Stoppers
<1> QED
  BY <1>1, <1>2, <1>4 DEF Sound, ResultFollowsServe, SomeFailed

(* The watcher, but for its calls of Shutdown.                             *)
LEMMA WatcherSteps ==
  ASSUME LifeInv, WatcherWake \/ WatcherFinish \/ WatcherCrash
  PROVE  LifeInv'
<1>0. /\ LifeInv /\ CommandInv
      /\ cmd.err \in BOOLEAN /\ cmd.closed \subseteq cmd.created
  BY DEF LifeInv, LifeTypeOK, CommandState
<1> USE DEF BeforeServe, UntilJoined, AfterServe, Bound, GroupDone, SomeFailed,
        SomeServed, ServeEnded, IsBean, CommandInv, NothingStarted, ServesCounted,
        ServesStarted, WaitCoversServes, StoppersInTurn, ContainersClosed,
        ErrorCarried, StoppedOrFailed
<1>types. /\ cmd \in CommandState /\ grp \in GroupState /\ grp.recorded \subseteq grp.members
      /\ fired \in BOOLEAN /\ restart \in BOOLEAN
      /\ watcher \in {"none", "armed", "stopping", "finished"}
  BY DEF LifeInv, LifeTypeOK
<1>1. CASE WatcherWake \/ WatcherFinish
  <2>1. Aside /\ UNCHANGED <<cmd, fired, restart, grp>>
    BY <1>1 DEF WatcherWake, WatcherFinish, WatcherStep, Aside, serverVars, rtVars,
                signalVars
  <2>2. /\ watcher \in {"armed", "stopping"} /\ watcher' \in {"stopping", "finished"}
        /\ GroupDone
    BY <1>0, <1>1 DEF WatcherWake, WatcherFinish, WatcherStep
  <2>3. ServersInv' /\ LifeTypeOK'
    BY <1>0, <1>types, <2>1, <2>2, AsideTypes
  <2>4. CommandInv'
    BY <1>0, <2>1, <2>2 DEF Aside
  <2> QED
    BY <2>3, <2>4 DEF LifeInv
<1>2. CASE WatcherCrash
  <2>1. Aside /\ UNCHANGED <<fired, restart, grp, watcher>>
    BY <1>2 DEF WatcherCrash, Aside, serverVars, rtVars, signalVars
  <2>2. /\ cmd.at = "zeroed" /\ cmd'.at = "crashed"
        /\ cmd'.own = cmd.own /\ cmd'.created = cmd.created
        /\ cmd'.closed = cmd.closed /\ cmd'.err = cmd.err /\ cmd'.outcome = cmd.outcome
        /\ cmd' \in CommandState
    BY <1>2, <1>types DEF WatcherCrash, CommandState, CommandStep
  <2>3. ServersInv' /\ LifeTypeOK'
    BY <1>0, <1>types, <2>1, <2>2, AsideTypes
  <2>4. PICK s \in Bound : srv[s].sd["watcher"] = "idle"
    BY <1>2 DEF WatcherCrash
  <2>5. "acceptClosed" \notin Faults => SomeFailed
    BY <1>0, <2>2, <2>4, UnaskedServeFailed
  <2>6. CommandInv'
    BY <1>0, <2>1, <2>2, <2>5 DEF Aside
  <2> QED
    BY <2>3, <2>6 DEF LifeInv
<1> QED
  BY <1>1, <1>2

(* The signal goroutine, the operator, the application.                    *)
LEMMA SignalSteps ==
  ASSUME LifeInv,
         \/ Spawned \/ SignalNotify \/ SignalHandle
         \/ \E x \in Signals : Signal(x)
         \/ \E r \in BOOLEAN : AppShutdown(r)
  PROVE  LifeInv'
<1>0. /\ LifeInv /\ CommandInv
      /\ cmd.err \in BOOLEAN /\ cmd.closed \subseteq cmd.created
  BY DEF LifeInv, LifeTypeOK, CommandState
<1> USE DEF BeforeServe, UntilJoined, AfterServe, Bound, GroupDone, SomeFailed,
        SomeServed, ServeEnded, IsBean, CommandInv, NothingStarted, ServesCounted,
        ServesStarted, WaitCoversServes, StoppersInTurn, ContainersClosed,
        ErrorCarried, StoppedOrFailed
<1>types. /\ cmd \in CommandState /\ grp \in GroupState /\ grp.recorded \subseteq grp.members
      /\ fired \in BOOLEAN /\ restart \in BOOLEAN
      /\ watcher \in {"none", "armed", "stopping", "finished"}
  BY DEF LifeInv, LifeTypeOK
<1>servers. ServersInv /\ ServersTypeOK
  BY DEF LifeInv, ServersInv
<1>1. CASE Spawned
  <2>1. UNCHANGED <<kind, srv, fired, restart, grp>>
    BY <1>1 DEF Spawned, serverVars, rtVars
  <2>2. /\ cmd.at = "spawn" /\ cmd'.at = "wait"
        /\ cmd'.own = cmd.own /\ cmd'.created = cmd.created
        /\ cmd'.closed = cmd.closed /\ cmd'.err = cmd.err /\ cmd'.outcome = cmd.outcome
        /\ cmd' \in CommandState
    BY <1>1, <1>types DEF Spawned, CommandState, CommandStep
  <2>3. ServersInv'
    BY <1>1, <1>servers, ServersStutter DEF Spawned
  <2>4. LifeTypeOK'
    BY <1>1, <1>types, <1>0, <2>1, <2>2, <2>3 DEF Spawned, LifeInv, LifeTypeOK, ServersInv
  <2>5. watcher' = "armed" /\ \A s \in Bound : srv[s].serve # "idle"
    BY <1>1 DEF Spawned, ToServe
  <2>6. CommandInv'
    BY <1>0, <2>1, <2>2, <2>5
  <2> QED
    BY <2>3, <2>4, <2>6 DEF LifeInv
<1>2. CASE SignalNotify
  <2>1. UNCHANGED <<kind, srv, cmd, fired, restart, grp, watcher>>
    BY <1>2 DEF SignalNotify, serverVars, rtVars
  <2>2. ServersInv'
    BY <1>2, <1>servers, ServersStutter DEF SignalNotify
  <2>3. LifeTypeOK'
    BY <1>2, <1>0, <2>1, <2>2 DEF SignalNotify, LifeInv, LifeTypeOK, ServersInv
  <2>4. CommandInv'
    BY <1>0, <2>1
  <2> QED
    BY <2>2, <2>3, <2>4 DEF LifeInv
<1>3. CASE SignalHandle \/ \E r \in BOOLEAN : AppShutdown(r)
  <2>1. /\ UNCHANGED <<kind, srv, cmd, grp, watcher, gen, inbox, notified, sent, termSent>>
        /\ sig' \in {sig, "finished"}
    BY <1>3 DEF SignalHandle, SignalDone, AppShutdown, serverVars, signalVars
  <2>2. /\ fired' \in BOOLEAN /\ restart' \in BOOLEAN
        /\ fired => UNCHANGED <<fired, restart>>
        /\ restart' => fired'
    BY <1>0, <1>types, <1>3 DEF SignalHandle, SignalDone, AppShutdown, Latch!FireOrSkip, Latch!Fire, Latch!latchVars
  <2>3. Running
    BY <1>3 DEF SignalHandle, SignalDone, AppShutdown
  <2>4. ServersInv'
    BY <1>servers, <2>1, ServersStutter DEF serverVars
  <2>5. LifeTypeOK'
    BY <1>0, <2>1, <2>2, <2>4 DEF LifeInv, LifeTypeOK, ServersInv
  <2>6. CommandInv'
    BY <1>0, <2>1, <2>2, <2>3 DEF Running, Terminated
  <2> QED
    BY <2>4, <2>5, <2>6 DEF LifeInv
<1>4. ASSUME NEW x \in Signals, Signal(x)
      PROVE  LifeInv'
  <2>1. /\ UNCHANGED <<kind, srv, gen, fired, restart, grp, watcher, sig, notified>>
        /\ sent' = sent + 1 /\ sent < MaxSignals
        /\ termSent' \in BOOLEAN /\ inbox' \in {inbox, x}
    BY <1>4 DEF Signal, serverVars, rtVars
  <2>2. /\ cmd'.own = cmd.own /\ cmd'.created = cmd.created
        /\ cmd'.closed = cmd.closed /\ cmd'.err = cmd.err /\ cmd'.outcome = cmd.outcome
        /\ cmd' \in CommandState
        /\ cmd'.at \in {cmd.at, "killed"} /\ cmd.at # "exited"
    BY <1>4, <1>types DEF Signal, CommandState, CommandStep, Running, Terminated
  <2>3. ServersInv'
    BY <1>servers, <2>1, ServersStutter DEF serverVars
  <2>4. sent' \in 0..MaxSignals
    BY <2>1, BoundsAssumption DEF LifeInv, LifeTypeOK
  <2>5. LifeTypeOK'
    BY <1>0, <2>1, <2>2, <2>3, <2>4 DEF LifeInv, LifeTypeOK, ServersInv
  <2>6. CommandInv'
    BY <1>0, <2>1, <2>2
  <2> QED
    BY <2>3, <2>5, <2>6 DEF LifeInv
<1> QED
  BY <1>1, <1>2, <1>3, <1>4

-----------------------------------------------------------------------------
(* Steps of a server that the command or the watcher takes part in.        *)

(* bindServers: nobody can have called Shutdown yet.                       *)
LEMMA BindStep ==
  ASSUME LifeInv, NEW s \in Servers, BindOne(s)
  PROVE  LifeInv'
<1>0. /\ LifeInv /\ CommandInv
      /\ cmd.err \in BOOLEAN /\ cmd.closed \subseteq cmd.created
  BY DEF LifeInv, LifeTypeOK, CommandState
<1> USE DEF BeforeServe, UntilJoined, AfterServe, Bound, GroupDone, SomeFailed,
        SomeServed, ServeEnded, IsBean, CommandInv, NothingStarted, ServesCounted,
        ServesStarted, WaitCoversServes, StoppersInTurn, ContainersClosed,
        ErrorCarried, StoppedOrFailed
<1>types. /\ cmd \in CommandState /\ grp \in GroupState /\ grp.recorded \subseteq grp.members
      /\ ServersInv
  BY DEF LifeInv, LifeTypeOK
<1>1. /\ cmd.at = "bind" /\ cmd'.at = "bind" /\ cmd'.err = FALSE
      /\ cmd'.own = cmd.own /\ cmd'.created = cmd.created
      /\ cmd'.closed = cmd.closed /\ cmd'.outcome = cmd.outcome
      /\ cmd' \in CommandState
  BY <1>types DEF BindOne, Move, CommandState, CommandStep
<1>2. /\ UNCHANGED <<gen, fired, restart, grp, watcher>>
      /\ UNCHANGED <<sig, inbox, notified, sent, termSent>>
  BY DEF BindOne, Move, rtVars, signalVars
<1>3. NobodyStops(s)
  BY <1>0, <1>1 DEF NobodyStops, Stoppers
<1>4. ServersInv'
  BY <1>types, <1>3, BindInv DEF BindOne
<1>5. LifeTypeOK'
  BY <1>0, <1>1, <1>2, <1>4 DEF LifeInv, LifeTypeOK, ServersInv
<1>6. /\ kind' = kind
      /\ \A t \in Servers : /\ t # s => srv'[t].bind = srv[t].bind
                            /\ srv'[t].serve = srv[t].serve
                            /\ srv'[t].result = srv[t].result
                            /\ srv'[t].sd = srv[t].sd
  BY <1>types, BindFrame DEF BindOne
<1>7. CommandInv'
  BY <1>0, <1>1, <1>2, <1>6
<1> QED
  BY <1>4, <1>5, <1>7 DEF LifeInv

(* g.Go(server.Serve).                                                     *)
LEMMA SpawnStep ==
  ASSUME LifeInv, NEW s \in Servers, Spawn(s)
  PROVE  LifeInv'
<1>0. /\ LifeInv /\ CommandInv
      /\ cmd.err \in BOOLEAN /\ cmd.closed \subseteq cmd.created
  BY DEF LifeInv, LifeTypeOK, CommandState
<1> USE DEF BeforeServe, UntilJoined, AfterServe, Bound, GroupDone, SomeFailed,
        SomeServed, ServeEnded, IsBean, CommandInv, NothingStarted, ServesCounted,
        ServesStarted, WaitCoversServes, StoppersInTurn, ContainersClosed,
        ErrorCarried, StoppedOrFailed
<1>types. /\ cmd \in CommandState /\ grp \in GroupState /\ grp.recorded \subseteq grp.members
      /\ ServersInv
  BY DEF LifeInv, LifeTypeOK
<1>1. /\ cmd.at = "spawn" /\ srv[s].bind = "ok"
      /\ UNCHANGED <<gen, cmd, fired, restart, watcher>>
      /\ UNCHANGED <<sig, inbox, notified, sent, termSent>>
  BY DEF Spawn, ToServe, rtVars, signalVars
<1>2. /\ grp'.members = grp.members \cup {<<"serve", s>>}
      /\ grp'.recorded = grp.recorded
      /\ grp'.err = grp.err /\ grp'.cancelled = grp.cancelled
      /\ grp' \in GroupState
  BY <1>types DEF Spawn, InGroup, GroupState, Member
<1>3. ServersInv'
  BY <1>types, <1>1, ServeInv DEF Spawn
<1>4. grp'.recorded \subseteq grp'.members
  BY <1>types, <1>2
<1>5. LifeTypeOK'
  BY <1>0, <1>1, <1>2, <1>3, <1>4 DEF LifeInv, LifeTypeOK, ServersInv
<1>6. /\ kind' = kind /\ srv'[s].serve = "called"
      /\ \A t \in Servers : /\ t # s => srv'[t].serve = srv[t].serve
                            /\ srv'[t].bind = srv[t].bind
                            /\ srv'[t].result = srv[t].result
                            /\ srv'[t].sd = srv[t].sd
  BY <1>types, ServeCallFrame DEF Spawn
<1>7. CommandInv'
  BY <1>0, <1>1, <1>2, <1>6
<1> QED
  BY <1>3, <1>5, <1>7 DEF LifeInv

(* g.Go(server.Shutdown), when the group may be finishing already.         *)
LEMMA WatcherStopStep ==
  ASSUME LifeInv, NEW s \in Servers, WatcherStop(s)
  PROVE  LifeInv'
<1>0. /\ LifeInv /\ CommandInv
      /\ cmd.err \in BOOLEAN /\ cmd.closed \subseteq cmd.created
  BY DEF LifeInv, LifeTypeOK, CommandState
<1> USE DEF BeforeServe, UntilJoined, AfterServe, Bound, GroupDone, SomeFailed,
        SomeServed, ServeEnded, IsBean, CommandInv, NothingStarted, ServesCounted,
        ServesStarted, WaitCoversServes, StoppersInTurn, ContainersClosed,
        ErrorCarried, StoppedOrFailed
<1>types. /\ cmd \in CommandState /\ grp \in GroupState /\ grp.recorded \subseteq grp.members
      /\ ServersInv
  BY DEF LifeInv, LifeTypeOK
<1>1. /\ Running /\ watcher = "stopping" /\ s \in Bound /\ cmd.at # "zeroed"
      /\ UNCHANGED <<gen, cmd, fired, restart, watcher>>
      /\ UNCHANGED <<sig, inbox, notified, sent, termSent>>
  BY DEF WatcherStop, rtVars, signalVars
<1>2. /\ grp'.members = grp.members \cup {<<"stop", s>>}
      /\ grp'.recorded = grp.recorded
      /\ grp'.err = grp.err /\ grp'.cancelled = grp.cancelled
      /\ grp' \in GroupState
  BY <1>types DEF WatcherStop, GroupState, Member
<1>3. ServersInv'
  BY <1>types, StoppersInv DEF WatcherStop, Stoppers
<1>4. grp'.recorded \subseteq grp'.members
  BY <1>types, <1>2
<1>5. LifeTypeOK'
  BY <1>0, <1>1, <1>2, <1>3, <1>4 DEF LifeInv, LifeTypeOK, ServersInv
<1>6. /\ kind' = kind /\ srv[s].sd["watcher"] = "idle"
      /\ \A t \in Servers : /\ srv'[t].bind = srv[t].bind
                            /\ srv'[t].serve = srv[t].serve
                            /\ srv'[t].result = srv[t].result
                            /\ srv'[t].sd["destroy"] = srv[t].sd["destroy"]
  BY <1>types, CallFrame DEF WatcherStop, Stoppers
<1>7. \A t \in Servers : <<"serve", t>> \in grp'.members <=> <<"serve", t>> \in grp.members
  BY <1>2
<1>8. cmd.at = "released" /\ "acceptClosed" \notin Faults => SomeFailed
  BY <1>0, <1>1, <1>6, UnaskedServeFailed
<1>9. NothingStarted' /\ ServesCounted' /\ ServesStarted' /\ WaitCoversServes'
  BY <1>0, <1>1, <1>2, <1>6, <1>7 DEF Running, Terminated
<1>10. StoppersInTurn' /\ ContainersClosed'
  <2>1. cmd.closed \subseteq Servers
    BY <1>types DEF CommandState
  <2> QED
    BY <1>0, <1>1, <1>2, <1>6, <2>1
<1>11. ErrorCarried' /\ StoppedOrFailed'
  BY <1>0, <1>1, <1>6, <1>8 DEF Running, Terminated
<1> QED
  BY <1>3, <1>5, <1>9, <1>10, <1>11 DEF LifeInv

(* Container.Close destroys a bean.                                        *)
LEMMA DestroyStep ==
  ASSUME LifeInv, NEW s \in Servers, Destroy(s)
  PROVE  LifeInv'
<1>0. /\ LifeInv /\ CommandInv
      /\ cmd.err \in BOOLEAN /\ cmd.closed \subseteq cmd.created
  BY DEF LifeInv, LifeTypeOK, CommandState
<1> USE DEF BeforeServe, UntilJoined, AfterServe, Bound, GroupDone, SomeFailed,
        SomeServed, ServeEnded, IsBean, CommandInv, NothingStarted, ServesCounted,
        ServesStarted, WaitCoversServes, StoppersInTurn, ContainersClosed,
        ErrorCarried, StoppedOrFailed
<1>types. /\ cmd \in CommandState /\ grp \in GroupState /\ grp.recorded \subseteq grp.members
      /\ ServersInv
  BY DEF LifeInv, LifeTypeOK
<1>1. /\ cmd.at \in {"closing", "closeCore"} /\ s \notin cmd.closed
      /\ UNCHANGED <<gen, cmd, fired, restart, grp, watcher>>
      /\ UNCHANGED <<sig, inbox, notified, sent, termSent>>
  BY DEF Destroy, Closing, ClosePhase, lifeVars, rtVars, signalVars
<1>2. ServersInv'
  BY <1>types, StoppersInv DEF Destroy, Stoppers
<1>3. LifeTypeOK'
  BY <1>0, <1>1, <1>2 DEF LifeInv, LifeTypeOK, ServersInv
<1>4. /\ kind' = kind
      /\ \A t \in Servers : /\ srv'[t].bind = srv[t].bind
                            /\ srv'[t].serve = srv[t].serve
                            /\ srv'[t].result = srv[t].result
                            /\ srv'[t].sd["watcher"] = srv[t].sd["watcher"]
                            /\ t # s => srv'[t].sd["destroy"] = srv[t].sd["destroy"]
  BY <1>types, CallFrame DEF Destroy, Stoppers
<1>5. cmd.closed \subseteq Servers
  BY <1>types DEF CommandState
<1>6. CommandInv'
  BY <1>0, <1>1, <1>4, <1>5
<1> QED
  BY <1>2, <1>3, <1>6 DEF LifeInv

(* cligo runs the command again: all is new but the process's signal state.*)
LEMMA RepeatStep ==
  ASSUME LifeInv, Repeat
  PROVE  LifeInv'
<1>1. /\ srv' = [s \in Servers |-> NewServer] /\ kind' = kind
      /\ cmd' = NewCommand(cmd.own) /\ grp' = NewGroup /\ watcher' = "none"
      /\ fired' = FALSE /\ restart' = FALSE
      /\ gen < MaxGen /\ gen' = gen + 1
      /\ sig' = "none" /\ inbox' = "none"
      /\ UNCHANGED <<notified, sent, termSent>>
  BY DEF Repeat
<1>2. ServersInv'
  <2>1. NewServer \in Server
    BY DEF NewServer, Server, Stoppers
  <2>2. \A k : Sound(k, NewServer)
    BY DEF NewServer, Sound, BodyHasCaller, LibraryFollowsBody, SocketFollowsBody,
           ResultFollowsServe, CutByStop
  <2> QED
    BY <1>1, <2>1, <2>2 DEF LifeInv, ServersInv, ServersTypeOK
<1>3. LifeTypeOK'
  <2>1. cmd.own \in OwnContexts
    BY DEF LifeInv, LifeTypeOK, CommandState
  <2>2. cmd' \in CommandState /\ cmd'.closed \subseteq cmd'.created
    BY <1>1, <2>1, NewTypes
  <2>3. grp' \in GroupState /\ grp'.recorded \subseteq grp'.members
    BY <1>1, NewTypes
  <2>4. gen' \in 1..MaxGen
    BY <1>1, BoundsAssumption DEF LifeInv, LifeTypeOK
  <2> QED
    BY <1>1, <1>2, <2>2, <2>3, <2>4 DEF LifeInv, LifeTypeOK, ServersInv
<1>4. \A s \in Servers : srv'[s] = NewServer
  BY <1>1
<1>5. CommandInv'
  BY <1>1, <1>4
  DEF NewServer, NewCommand, NewGroup, Stoppers, ServeEnded, CommandInv, NothingStarted,
      ServesCounted, ServesStarted, WaitCoversServes, StoppersInTurn, ContainersClosed,
      ErrorCarried, StoppedOrFailed, SomeFailed, SomeServed, BeforeServe, UntilJoined,
      AfterServe, Bound
<1> QED
  BY <1>2, <1>3, <1>5 DEF LifeInv

(* What goes on inside the servers.                                        *)
LEMMA ServerSteps ==
  ASSUME LifeInv, NEW s \in Servers, InServe(s) \/ FaultInServe(s) \/ InShutdown(s)
  PROVE  LifeInv'
<1>0. ServersInv
  BY DEF LifeInv
<1>1. CASE InServe(s) \/ FaultInServe(s)
  <2>1. Running /\ (Serving(s) \/ ServeFault(s)) /\ UNCHANGED lifeVars
    BY <1>1 DEF InServe, FaultInServe
  <2>2. ServesKept /\ CallsKept
    BY <1>0, <2>1, ServeFrame
  <2>3. ServersInv'
    BY <1>0, <2>1, ServeInv
    DEF Serving, ServeFault, ServeCall, ServeEnter, ServeRun, ServeTooLate, ServeStopped,
        ServeCrash, ServeClosed, ServePanic, Accepting
  <2> QED
    BY <2>1, <2>2, <2>3, InnerStep
<1>2. CASE InShutdown(s)
  <2>1. Running /\ Stopping(s) /\ UNCHANGED lifeVars
    BY <1>2 DEF InShutdown
  <2> QED
    BY <1>0, <2>1, StoppingFrame, StoppingInv, InnerStep
<1> QED
  BY <1>1, <1>2

(* A step that changes nothing.                                            *)
LEMMA LifeStutter ==
  ASSUME LifeInv, UNCHANGED vars
  PROVE  LifeInv'
<1>1. ServersInv'
  BY ServersStutter DEF LifeInv, vars
<1> QED
  BY <1>1
  DEF LifeInv, LifeTypeOK, ServersInv, vars, serverVars, lifeVars, rtVars, signalVars,
      CommandInv, NothingStarted, ServesCounted, ServesStarted, WaitCoversServes,
      StoppersInTurn, ContainersClosed, ErrorCarried, StoppedOrFailed, SomeFailed,
      SomeServed, ServeEnded, IsBean, GroupDone, Bound

(* The invariant is inductive.                                             *)
LEMMA LifeStep == LifeInv /\ [Next]_vars => LifeInv'
<1> SUFFICES ASSUME LifeInv, [Next]_vars
             PROVE  LifeInv'
  OBVIOUS
<1>1. CASE Command
  BY <1>1, StartMoves, WaitMoves, CloseMoves, CommandSteps, SignalSteps, RepeatStep,
     ContainerSteps, BindStep, SpawnStep, DestroyStep
  DEF Command
<1>2. CASE Group
  BY <1>2, GroupSteps DEF Group
<1>3. CASE Watcher
  BY <1>3, WatcherSteps, WatcherStopStep DEF Watcher
<1>4. CASE SignalGoroutine
  BY <1>4, SignalSteps DEF SignalGoroutine
<1>5. CASE \E s \in Servers : InServe(s) \/ InShutdown(s)
  BY <1>5, ServerSteps
<1>6. CASE Environment
  BY <1>6, CommandSteps, StartMoves, ServerSteps, SignalSteps DEF Environment
<1>7. CASE Stopped \/ UNCHANGED vars
  BY <1>7, LifeStutter DEF Stopped
<1> QED
  BY <1>1, <1>2, <1>3, <1>4, <1>5, <1>6, <1>7 DEF Next, Progress

(* The invariant of the run command, its goroutines and its servers.       *)
THEOREM LifeInvariant == Spec => []LifeInv
  BY LifeInit, LifeStep, PTL DEF Spec

-----------------------------------------------------------------------------
(* The state of the command, the group and the servers keeps its type.     *)
THEOREM LifeTypeCorrect == Spec => []LifeTypeOK
  BY LifeInvariant, PTL DEF LifeInv

(* g.Wait covers every Serve: no container is closed under one, whatever   *)
(* the order in which servers fail, signals arrive and goroutines start.   *)
THEOREM NoneServedWhenClosed == Spec => []NoServeAfterClose
<1>1. LifeInv => NoServeAfterClose
  BY DEF LifeInv, LifeTypeOK, CommandState, CommandInv, ContainersClosed, ServeEnded,
         NoServeAfterClose
<1> QED
  BY <1>1, LifeInvariant, PTL

(* Every container is closed on every path through Run.                    *)
THEOREM ContainersAllClosed == Spec => []NoContainerLeft
<1>1. LifeInv => NoContainerLeft
  BY DEF LifeInv, CommandInv, ContainersClosed, NoContainerLeft
<1> QED
  BY <1>1, LifeInvariant, PTL

(* runServers serves only what bindServers has bound.                      *)
THEOREM OnlyBoundServed == Spec => []FailedBindNeverServed
<1>1. LifeInv => FailedBindNeverServed
  BY DEF LifeInv, ServersInv, Sound, ResultFollowsServe, FailedBindNeverServed
<1> QED
  BY <1>1, LifeInvariant, PTL

(* Only cligo's repetition starts a generation.                            *)
LEMMA OnlyRepeatRestarts ==
  ASSUME [Next]_vars, gen' # gen
  PROVE  Repeat
<1> USE DEF lifeVars, signalVars
<1>1. Command => Repeat
  BY DEF Command, Extend, Collect, BindDone, Spawned, Wait, WaitRelease, WaitReturn,
         Joined, ChildrenClosed, CoreClosed, Return, CreateContext, BindOne, Spawn,
         Destroy, CloseContext, Move
<1>2. ~Group
  BY DEF Group, MemberError, MemberDone
<1>3. ~Watcher
  BY DEF Watcher, WatcherWake, WatcherCrash, WatcherFinish, WatcherStop, WatcherStep
<1>4. ~SignalGoroutine
  BY DEF SignalGoroutine, SignalNotify, SignalHandle, SignalDone
<1>5. ~(\E s \in Servers : InServe(s) \/ InShutdown(s))
  BY DEF InServe, InShutdown
<1>6. ~Environment
  BY DEF Environment, ExtendFail, CreateFail, Move, FaultInServe, Signal, AppShutdown
<1>7. ~(Stopped \/ UNCHANGED vars)
  BY DEF Stopped, vars
<1> QED
  BY <1>1, <1>2, <1>3, <1>4, <1>5, <1>6, <1>7 DEF Next, Progress

(* A restart never finds a port of the generation before still open.       *)
THEOREM RestartPortsFree == Spec => RestartFindsPortsFree
<1>1. LifeInv /\ [Next]_vars
        => [gen' # gen => \A s \in Servers : srv[s].listener # "open"]_vars
  <2> SUFFICES ASSUME LifeInv, [Next]_vars, gen' # gen, NEW s \in Servers
               PROVE  srv[s].listener # "open"
    OBVIOUS
  <2>1. cmd.at = "decide"
    BY OnlyRepeatRestarts DEF Repeat
  <2>2. /\ Sound(kind[s], srv[s]) /\ ServeEnded(s)
        /\ srv[s].bind = "ok" => srv[s].serve # "idle"
        /\ s \in cmd.closed \/ srv[s].bind = "no"
        /\ s \in cmd.closed /\ IsBean(s) => srv[s].sd["destroy"] = "returned"
    BY <2>1 DEF LifeInv, ServersInv, CommandInv, WaitCoversServes, ServesStarted,
                ContainersClosed, AfterServe, Bound
  <2>3. CASE srv[s].bind = "no"
    BY <2>2, <2>3 DEF Sound, SocketFollowsBody
  <2>4. CASE s \in cmd.closed /\ IsBean(s)
    BY <2>2, <2>4 DEF Sound, SocketFollowsBody, BodyHasCaller, Stoppers
  <2>5. CASE ~IsBean(s)
    BY <2>2, <2>5 DEF Sound, SocketFollowsBody, ServeEnded, IsBean
  <2> QED
    BY <2>2, <2>3, <2>4, <2>5
<1> QED
  BY <1>1, LifeInvariant, PTL DEF Spec, RestartFindsPortsFree

(* What Run returns is true, unless a library reports a listener that went *)
(* away by itself as closed (then nil is returned with nobody asking).     *)
THEOREM OutcomeTruthful ==
  ASSUME "acceptClosed" \notin Faults
  PROVE  Spec => []OutcomeIsTruthful
<1>1. LifeInv => OutcomeIsTruthful
  BY DEF LifeInv, CommandInv, ErrorCarried, StoppedOrFailed, SomeFailed, SomeServed,
         OutcomeIsTruthful
<1> QED
  BY <1>1, LifeInvariant, PTL

(* An ordinary shutdown does not misuse the errgroup's WaitGroup.          *)
THEOREM WaitGroupUsedWell ==
  ASSUME "acceptClosed" \notin Faults
  PROVE  Spec => []NoWaitGroupMisuse
<1>1. LifeInv => NoWaitGroupMisuse
  BY DEF LifeInv, CommandInv, StoppedOrFailed, SomeFailed, NoWaitGroupMisuse
<1> QED
  BY <1>1, LifeInvariant, PTL
=============================================================================
