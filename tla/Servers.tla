------------------------------- MODULE Servers -------------------------------
(***************************************************************************)
(* The three implementations of the Server interface (api.go): the wrapper *)
(* of *http.Server (http_server.go), of *grpc.Server (grpc/grpc_server.go) *)
(* and of a value-rpc server (vrpc/value_server.go).  Each is used by      *)
(* several goroutines: one runs Serve, others call Shutdown (runServers'   *)
(* watcher, and the container through Destroy), clients have requests      *)
(* under way.  The libraries behind the wrappers are external: `lib` is    *)
(* what the wrappers can observe of them.                                  *)
(***************************************************************************)
EXTENDS Naturals

CONSTANTS
    Servers,    \* the Server beans of one generation
    Kinds,      \* the implementations in use, a subset of AllKinds
    Faults      \* what the environment may do to them, a subset of AllFaults

AllKinds == {"http", "grpc", "vrpc"}

(* bind: no address, address in use, listener provider refuses             *)
(* register: a ValueService cannot register its functions                  *)
(* crash: the library's accept loop fails                                  *)
(* acceptClosed: it fails with an error whose text contains "closed"       *)
(* panic: it panics                                                        *)
(* closeError: closing the value-rpc server reports an error               *)
AllFaults == {"bind", "register", "crash", "acceptClosed", "panic", "closeError"}

ASSUME KindsAssumption == Kinds \subseteq AllKinds
ASSUME FaultsAssumption == Faults \subseteq AllFaults

VARIABLES
    kind,       \* the implementation of each server, fixed by the deployment
    srv         \* the state of each server, a record (see Server)

serverVars == <<kind, srv>>

(* The goroutine started by the watcher, and the container's Destroy.      *)
Stoppers == {"watcher", "destroy"}

Server == [
    bind     : {"no", "ok", "failed"},                 \* what Bind returned
    listener : {"none", "open", "closed"},             \* the socket
    lib      : {"fresh", "serving", "draining", "stopped"},
    serve    : {"idle", "called", "entered", "running", "returned"},
    result   : {"none", "nil", "error"},               \* what Serve returned
    alive    : BOOLEAN,
    shut     : {"fresh", "entered", "draining", "stopping", "libStopped", "done"},
                                                       \* body of shutdownOnce.Do
    sd       : [Stoppers -> {"idle", "called", "returned"}],  \* Shutdown calls
    runner   : Stoppers \cup {"nobody"},               \* who runs that body
    sdErr    : BOOLEAN,                                \* error of the body
    timedOut : BOOLEAN,       \* history: gracefulShutdownTimeout elapsed
    req      : {"none", "running", "done", "aborted"}] \* one request

(* NewHttpServer, GrpcServer, ValueServer and their PostConstruct.         *)
NewServer == [
    bind |-> "no", listener |-> "none", lib |-> "fresh",
    serve |-> "idle", result |-> "none", alive |-> FALSE,
    shut |-> "fresh", sd |-> [c \in Stoppers |-> "idle"], runner |-> "nobody",
    sdErr |-> FALSE, timedOut |-> FALSE, req |-> "none"]

ServersInit ==
    /\ kind \in [Servers -> Kinds]
    /\ srv = [s \in Servers |-> NewServer]

(* Closing a socket that was never opened is a no-op in all wrappers.      *)
Closed(s) == IF srv[s].listener = "none" THEN "none" ELSE "closed"

(* A library closes the listeners that Serve has registered with it.       *)
LibClosed(s) == IF srv[s].lib = "serving" THEN "closed" ELSE srv[s].listener

(* A request whose connection is closed under it.                          *)
Cut(s) == IF srv[s].req = "running" THEN "aborted" ELSE srv[s].req

-----------------------------------------------------------------------------
(* Bind.                                                                   *)

BindOk(s) ==
    /\ srv[s].bind = "no"
    /\ srv' = [srv EXCEPT ![s].bind = "ok", ![s].listener = "open"]
    /\ UNCHANGED kind

(* Nothing to clean up (the value-rpc Bind closes the listener it opened   *)
(* when the server cannot be created on it).                               *)
BindFail(s) ==
    /\ "bind" \in Faults
    /\ srv[s].bind = "no"
    /\ srv' = [srv EXCEPT ![s].bind = "failed", ![s].listener = "none"]
    /\ UNCHANGED kind

(* ValueServer.Bind fails in RegisterFunctions: t.srv is set by then and   *)
(* its listener stays open.                                                *)
BindHalf(s) ==
    /\ "register" \in Faults
    /\ kind[s] = "vrpc"
    /\ srv[s].bind = "no"
    /\ srv' = [srv EXCEPT ![s].bind = "failed", ![s].listener = "open"]
    /\ UNCHANGED kind

BindServer(s) == BindOk(s) \/ BindFail(s) \/ BindHalf(s)

-----------------------------------------------------------------------------
(* Serve.                                                                  *)

(* The goroutine of Serve is started; it may be scheduled later, even      *)
(* after Shutdown.                                                         *)
ServeCall(s) ==
    /\ srv[s].serve = "idle"
    /\ srv' = [srv EXCEPT ![s].serve = "called"]
    /\ UNCHANGED kind

(* alive.Store(true), before the library is entered.                       *)
ServeEnter(s) ==
    /\ srv[s].serve = "called"
    /\ srv' = [srv EXCEPT ![s].serve = "entered", ![s].alive = TRUE]
    /\ UNCHANGED kind

(* The library starts accepting connections.                               *)
ServeRun(s) ==
    /\ srv[s].serve = "entered"
    /\ srv[s].lib = "fresh"
    /\ srv' = [srv EXCEPT ![s].serve = "running", ![s].lib = "serving"]
    /\ UNCHANGED kind

(* The library has returned: alive.Store(false), then the result.          *)
ServeLeave(s, r, l) ==
    /\ srv' = [srv EXCEPT ![s].serve = "returned", ![s].result = r,
                          ![s].alive = FALSE, ![s].listener = l]
    /\ UNCHANGED kind

(* What the wrapper makes of the library's refusal to serve once stopped:  *)
(* http.ErrServerClosed contains "closed" and is filtered, the value-rpc   *)
(* Run returns nil, grpc.ErrServerStopped is passed on.                    *)
LateResult(s) == IF kind[s] = "grpc" THEN "error" ELSE "nil"

(* Serve is entered after the library was stopped: the library closes the  *)
(* listener it was given and returns at once.                              *)
ServeTooLate(s) ==
    /\ srv[s].serve = "entered"
    /\ srv[s].lib # "fresh"
    /\ ServeLeave(s, LateResult(s), Closed(s))

(* The library was stopped while serving: closed-socket errors are nil.    *)
ServeStopped(s) ==
    /\ srv[s].serve = "running"
    /\ srv[s].lib = "stopped"
    /\ ServeLeave(s, "nil", Closed(s))

Accepting(s) == srv[s].serve = "running" /\ srv[s].lib = "serving"

(* net/http and grpc close the listener when the accept loop fails;        *)
(* value-rpc's stays open until Close.                                     *)
FailedListener(s) == IF kind[s] = "vrpc" THEN srv[s].listener ELSE "closed"

(* The accept loop fails on its own ...                                    *)
ServeCrash(s) ==
    /\ "crash" \in Faults
    /\ Accepting(s)
    /\ ServeLeave(s, "error", FailedListener(s))

(* ... with an error that contains "closed" (a listener supplied by a      *)
(* ListenerProvider went away): taken for a shutdown and returned as nil,  *)
ServeClosed(s) ==
    /\ "acceptClosed" \in Faults
    /\ kind[s] # "vrpc"
    /\ Accepting(s)
    /\ ServeLeave(s, "nil", FailedListener(s))

(* ... by a panic: PanicToError makes it an error, alive keeps its value.  *)
ServePanic(s) ==
    /\ "panic" \in Faults
    /\ Accepting(s)
    /\ srv' = [srv EXCEPT ![s].serve = "returned", ![s].result = "error",
                          ![s].listener = FailedListener(s)]
    /\ UNCHANGED kind

-----------------------------------------------------------------------------
(* Requests.                                                               *)

ReqStart(s) ==
    /\ Accepting(s)
    /\ srv[s].listener = "open"
    /\ srv[s].req = "none"
    /\ srv' = [srv EXCEPT ![s].req = "running"]
    /\ UNCHANGED kind

ReqDone(s) ==
    /\ srv[s].req = "running"
    /\ srv' = [srv EXCEPT ![s].req = "done"]
    /\ UNCHANGED kind

-----------------------------------------------------------------------------
(* Shutdown.                                                               *)

ShutdownCall(s, c) ==
    /\ srv[s].sd[c] = "idle"
    /\ srv' = [srv EXCEPT ![s].sd[c] = "called"]
    /\ UNCHANGED kind

(* The first caller runs the body: close(shutdownCh) comes first.          *)
ShutdownEnter(s, c) ==
    /\ srv[s].sd[c] = "called"
    /\ srv[s].shut = "fresh"
    /\ srv' = [srv EXCEPT ![s].shut = "entered", ![s].runner = c]
    /\ UNCHANGED kind

(* Mutation: srv.Close() is left out.                                      *)
NotClosed(s) == srv[s].lib

(* http.Server.Close, also before Serve: it will not serve any more.       *)
HttpClosed(s) == "stopped"

(* http: srv.Close() closes every connection, idle or not.                 *)
HttpClose(s) ==
    /\ kind[s] = "http"
    /\ srv[s].shut = "entered"
    /\ srv' = [srv EXCEPT ![s].lib = HttpClosed(s), ![s].listener = LibClosed(s),
                          ![s].req = Cut(s), ![s].shut = "libStopped"]
    /\ UNCHANGED kind

(* value-rpc: srv.Close() closes listener and connections and may report   *)
(* an error ...                                                            *)
VrpcClose(s) ==
    /\ kind[s] = "vrpc"
    /\ srv[s].shut = "entered"
    /\ srv[s].listener # "none"
    /\ \E e \in BOOLEAN :
          /\ e => "closeError" \in Faults
          /\ srv' = [srv EXCEPT ![s].lib = "stopped", ![s].listener = "closed",
                                ![s].req = Cut(s), ![s].sdErr = e, ![s].shut = "done"]
    /\ UNCHANGED kind

(* ... and is not called when Bind failed before creating the server.      *)
VrpcNil(s) ==
    /\ kind[s] = "vrpc"
    /\ srv[s].shut = "entered"
    /\ srv[s].listener = "none"
    /\ srv' = [srv EXCEPT ![s].shut = "done"]
    /\ UNCHANGED kind

(* grpc, doGracefulStop: GracefulStop stops accepting at once.             *)
GrpcGracefulStop(s) ==
    /\ kind[s] = "grpc"
    /\ srv[s].shut = "entered"
    /\ srv' = [srv EXCEPT ![s].lib = "draining", ![s].listener = LibClosed(s),
                          ![s].shut = "draining"]
    /\ UNCHANGED kind

(* What GracefulStop waits for.                                            *)
Drained(s) == srv[s].req # "running"

(* GracefulStop ends ...                                                   *)
GrpcDrained(s) ==
    /\ srv[s].lib = "draining"
    /\ Drained(s)
    /\ srv' = [srv EXCEPT ![s].lib = "stopped", ![s].req = Cut(s)]
    /\ UNCHANGED kind

(* ... and doGracefulStop returns true,                                    *)
GrpcGraceful(s) ==
    /\ srv[s].shut = "draining"
    /\ srv[s].lib = "stopped"
    /\ srv' = [srv EXCEPT ![s].shut = "libStopped"]
    /\ UNCHANGED kind

(* The timer of doGracefulStop may fire while the calls are draining.      *)
TimerRuns(s) == srv[s].shut = "draining" /\ srv[s].lib = "draining"

(* or gracefulShutdownTimeout elapses first and doStop starts Stop.        *)
GrpcTimeout(s) ==
    /\ TimerRuns(s)
    /\ srv' = [srv EXCEPT ![s].shut = "stopping", ![s].timedOut = TRUE]
    /\ UNCHANGED kind

(* Mutation: doStop is left out.                                           *)
NoStop(s) == FALSE

(* Mutation: Stop is started without waiting for the calls to drain.       *)
StopAtOnce(s) == srv[s].shut # "fresh"

(* doStop has started Stop in a goroutine of its own.                      *)
StopRuns(s) == srv[s].timedOut

(* Stop cuts the calls that are still running.                             *)
GrpcStop(s) ==
    /\ StopRuns(s)
    /\ srv[s].lib = "draining"
    /\ srv' = [srv EXCEPT ![s].lib = "stopped", ![s].req = Cut(s)]
    /\ UNCHANGED kind

(* doStop returns when Stop has, or when shutdownTimeout elapses before:   *)
(* Shutdown ignores which.                                                 *)
GrpcStopReturn(s) ==
    /\ srv[s].shut = "stopping"
    /\ srv' = [srv EXCEPT ![s].shut = "libStopped"]
    /\ UNCHANGED kind

(* http and grpc: t.listener.Close() ends the body; it matters when Serve  *)
(* had not registered the listener with the library yet.                   *)
CloseListener(s) ==
    /\ srv[s].shut = "libStopped"
    /\ srv' = [srv EXCEPT ![s].shut = "done", ![s].listener = Closed(s)]
    /\ UNCHANGED kind

(* Mutation: a flag instead of sync.Once lets a second caller return while *)
(* the body still runs.                                                    *)
MayReturnEarly(s, c) ==
    srv[s].shut # "fresh" /\ (srv[s].runner # c \/ srv[s].shut = "done")

(* shutdownOnce.Do returns, to its runner and to whoever waited for it.    *)
MayReturn(s, c) == srv[s].shut = "done"

ShutdownReturn(s, c) ==
    /\ srv[s].sd[c] = "called"
    /\ MayReturn(s, c)
    /\ srv' = [srv EXCEPT ![s].sd[c] = "returned"]
    /\ UNCHANGED kind

(* The error of the body reaches its runner only.                          *)
ShutdownFailed(s, c) == srv[s].runner = c /\ srv[s].sdErr

-----------------------------------------------------------------------------
(* The goroutine inside Serve, and those inside Shutdown.                  *)
Serving(s) ==
    \/ ServeEnter(s) \/ ServeRun(s) \/ ServeTooLate(s) \/ ServeStopped(s)

ServeFault(s) == ServeCrash(s) \/ ServeClosed(s) \/ ServePanic(s)

Stopping(s) ==
    \/ \E c \in Stoppers : ShutdownEnter(s, c) \/ ShutdownReturn(s, c)
    \/ HttpClose(s) \/ VrpcClose(s) \/ VrpcNil(s)
    \/ GrpcGracefulStop(s) \/ GrpcDrained(s) \/ GrpcGraceful(s)
    \/ GrpcTimeout(s) \/ GrpcStop(s) \/ GrpcStopReturn(s)
    \/ CloseListener(s)

Request(s) == ReqStart(s) \/ ReqDone(s)

NobodyStops(s) == \A c \in Stoppers : srv[s].sd[c] = "idle"

(* A server by itself: Bind, Serve and Shutdown are called in this order,  *)
(* the goroutines of the calls run in any.  A server may be destroyed      *)
(* without having been bound or served.                                    *)
UseBind(s) == NobodyStops(s) /\ BindServer(s)
UseServe(s) == NobodyStops(s) /\ srv[s].bind = "ok" /\ ServeCall(s)

(* Both Shutdown calls have returned and nothing runs any more.            *)
AtRest ==
    /\ \A s \in Servers :
          /\ \A c \in Stoppers : srv[s].sd[c] = "returned"
          /\ srv[s].serve \in {"idle", "returned"}
          /\ srv[s].req # "running"
    /\ UNCHANGED serverVars

ServersNext ==
    \/ \E s \in Servers :
          \/ UseBind(s) \/ UseServe(s) \/ (\E c \in Stoppers : ShutdownCall(s, c))
          \/ Serving(s) \/ ServeFault(s) \/ Stopping(s) \/ Request(s)
    \/ AtRest

ServersSpec == ServersInit /\ [][ServersNext]_serverVars

(* As long as a goroutine in a server can run, or a timer of it fire, one  *)
(* does.  Handlers may hang, and nobody is obliged to call anything.       *)
ServersFairness ==
    \A s \in Servers : WF_serverVars(Serving(s) \/ Stopping(s))

ServersFairSpec == ServersSpec /\ ServersFairness

-----------------------------------------------------------------------------
ServersTypeOK ==
    /\ kind \in [Servers -> Kinds]
    /\ srv \in [Servers -> Server]

(* Whoever returns from Shutdown, also a second caller that ran nothing    *)
(* (Destroy: "safe to call twice"), finds the port free, even if Serve had *)
(* not reached the library when Shutdown ran.                              *)
ShutdownFreesPort ==
    \A s \in Servers : \A c \in Stoppers :
        srv[s].sd[c] = "returned" => srv[s].listener # "open"

(* No request is accepted by a server whose library was told to stop:      *)
(* neither before nor after the slow Serve goroutine gets to run.          *)
StoppedAcceptsNothing ==
    [][\A s \in Servers :
          srv[s].shut \in {"draining", "stopping", "libStopped", "done"}
              => ~(srv[s].req = "none" /\ srv'[s].req = "running")]_serverVars

(* A gRPC call that was running at shutdown is cut only after it had       *)
(* gracefulShutdownTimeout to finish.                                      *)
GrpcCutOnlyAfterTimeout ==
    \A s \in Servers :
        kind[s] = "grpc" /\ srv[s].req = "aborted" => srv[s].timedOut

(* Whatever the handlers do, a Shutdown call ends, and so does the Serve   *)
(* of the server, even one that had not started when Shutdown ran.         *)
ShutdownEnds ==
    \A s \in Servers :
        /\ \A c \in Stoppers : (srv[s].sd[c] = "called") ~> (srv[s].sd[c] = "returned")
        /\ (srv[s].shut # "fresh" /\ srv[s].serve # "idle") ~> (srv[s].serve = "returned")

-----------------------------------------------------------------------------
(* examples/vue_server/README.md: "gracefully shuts the HTTP server down": *)
(* a request that is running is not cut by Shutdown.                       *)
HttpRequestsFinish ==
    \A s \in Servers : kind[s] = "http" => srv[s].req # "aborted"
=============================================================================
