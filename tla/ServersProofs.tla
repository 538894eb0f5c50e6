--------------------------- MODULE ServersProofs ----------------------------
(***************************************************************************)
(* Proofs about Servers.tla for any servers, kinds and faults.  Servers do *)
(* not share state, so the invariant is one of a single record, and a step *)
(* of a server is shown to lead from a sound record to a sound record.     *)
(* The lemmas are about single actions: LifecycleProofs uses them too.     *)
(***************************************************************************)
EXTENDS Servers, TLAPS

(* The body of shutdownOnce runs because somebody called Shutdown; nobody  *)
(* returns before it is done.                                              *)
BodyHasCaller(r) ==
    /\ r.shut # "fresh" => \E c \in Stoppers : r.sd[c] # "idle"
    /\ \A c \in Stoppers : r.sd[c] = "returned" => r.shut = "done"

(* How far the body has come determines what is left of the library ...    *)
LibraryFollowsBody(r) ==
    /\ r.shut = "fresh" => r.lib \in {"fresh", "serving"}
    /\ r.lib = "serving" => r.serve \in {"running", "returned"}
    /\ r.shut \in {"draining", "stopping", "libStopped", "done"}
          => r.lib \in {"draining", "stopped"} \/ r.listener = "none"

(* ... and of the socket, which only a successful Bind leaves open (or one *)
(* of a value-rpc server that failed half-way).  net/http and grpc close   *)
(* it themselves when Serve returns.                                       *)
SocketFollowsBody(k, r) ==
    /\ r.shut = "done" => r.listener # "open"
    /\ r.bind = "no" => r.listener = "none"
    /\ r.bind = "ok" => r.listener # "none"
    /\ k # "vrpc" /\ r.bind # "ok" => r.listener = "none"
    /\ k # "vrpc" /\ r.serve = "returned" => r.listener # "open"

(* Only what is bound is served.  Serve has a result when it has returned, *)
(* and a nil one not before Shutdown, unless a listener that went away by  *)
(* itself is taken for one.                                                *)
ResultFollowsServe(r) ==
    /\ r.bind # "ok" => r.serve = "idle"
    /\ r.serve = "returned" <=> r.result # "none"
    /\ "acceptClosed" \notin Faults /\ r.serve = "returned" /\ r.shut = "fresh"
          => r.result = "error"

(* A running gRPC call is cut only by Stop.                                *)
CutByStop(k, r) == k = "grpc" /\ r.req = "aborted" => r.timedOut

Sound(k, r) ==
    /\ BodyHasCaller(r)
    /\ LibraryFollowsBody(r)
    /\ SocketFollowsBody(k, r)
    /\ ResultFollowsServe(r)
    /\ CutByStop(k, r)

ServersInv == ServersTypeOK /\ \A s \in Servers : Sound(kind[s], srv[s])

-----------------------------------------------------------------------------
(* A step that makes r of one server and leaves the others alone.          *)
Becomes(s, r) == srv' = [srv EXCEPT ![s] = r] /\ UNCHANGED kind

(* It is enough to look at the server that moves.                          *)
LEMMA OneServer ==
  ASSUME ServersInv, NEW s \in Servers, NEW r \in Server, Becomes(s, r),
         Sound(kind[s], r)
  PROVE  ServersInv'
<1>1. /\ srv' \in [Servers -> Server]
      /\ srv'[s] = r
      /\ \A t \in Servers : t # s => srv'[t] = srv[t]
  BY DEF ServersInv, ServersTypeOK, Becomes
<1>2. kind' = kind
  BY DEF Becomes
<1>3. \A t \in Servers : Sound(kind'[t], srv'[t])
  BY <1>1, <1>2 DEF ServersInv
<1> QED
  BY <1>1, <1>2, <1>3 DEF ServersInv, ServersTypeOK

(* No server has been bound yet.                                           *)
LEMMA ServersInvInit == ServersInit => ServersInv
<1> SUFFICES ASSUME ServersInit PROVE ServersInv
  OBVIOUS
<1>1. NewServer \in Server
  BY DEF NewServer, Server, Stoppers
<1>2. \A k : Sound(k, NewServer)
  BY DEF NewServer, Sound, BodyHasCaller, LibraryFollowsBody, SocketFollowsBody,
         ResultFollowsServe, CutByStop
<1> QED
  BY <1>1, <1>2 DEF ServersInit, ServersInv, ServersTypeOK

(* Bind, before anybody has called Shutdown.                               *)
LEMMA BindInv ==
  ASSUME ServersInv, NEW s \in Servers, NobodyStops(s), BindServer(s)
  PROVE  ServersInv'
<1> DEFINE r == srv[s]
<1>0. r \in Server /\ Sound(kind[s], r)
  BY DEF ServersInv, ServersTypeOK
<1> USE DEF Sound, BodyHasCaller, LibraryFollowsBody, SocketFollowsBody,
            ResultFollowsServe, CutByStop
<1>1. CASE BindOk(s)
  <2> DEFINE n == [r EXCEPT !.bind = "ok", !.listener = "open"]
  <2>1. Becomes(s, n)
    BY <1>1 DEF Becomes, BindOk, NobodyStops
  <2>2. n \in Server
    BY <1>0 DEF Server
  <2>3. Sound(kind[s], n)
    BY <1>0, <1>1 DEF Server, BindOk, NobodyStops
  <2> QED
    BY <2>1, <2>2, <2>3, OneServer
<1>2. CASE BindFail(s)
  <2> DEFINE n == [r EXCEPT !.bind = "failed", !.listener = "none"]
  <2>1. Becomes(s, n)
    BY <1>2 DEF Becomes, BindFail, NobodyStops
  <2>2. n \in Server
    BY <1>0 DEF Server
  <2>3. Sound(kind[s], n)
    BY <1>0, <1>2 DEF Server, BindFail, NobodyStops
  <2> QED
    BY <2>1, <2>2, <2>3, OneServer
<1>3. CASE BindHalf(s)
  <2> DEFINE n == [r EXCEPT !.bind = "failed", !.listener = "open"]
  <2>1. Becomes(s, n)
    BY <1>3 DEF Becomes, BindHalf, NobodyStops
  <2>2. n \in Server
    BY <1>0 DEF Server
  <2>3. Sound(kind[s], n)
    BY <1>0, <1>3 DEF Server, BindHalf, NobodyStops
  <2> QED
    BY <2>1, <2>2, <2>3, OneServer
<1> QED
  BY <1>1, <1>2, <1>3 DEF BindServer

(* What the helpers yield is what the fields hold.                         *)
LEMMA HelperTypes ==
  ASSUME ServersInv, NEW s \in Servers
  PROVE  /\ Closed(s) \in {"none", "open", "closed"}
         /\ LibClosed(s) \in {"none", "open", "closed"}
         /\ FailedListener(s) \in {"none", "open", "closed"}
         /\ Cut(s) \in {"none", "running", "done", "aborted"}
         /\ LateResult(s) \in {"none", "nil", "error"}
<1>1. srv[s] \in Server
  BY DEF ServersInv, ServersTypeOK
<1> QED
  BY <1>1 DEF Server, Closed, LibClosed, FailedListener, Cut, LateResult

(* A field that takes a value of its type.                                 *)
LEMMA SetReq ==
  ASSUME NEW r \in Server, NEW q \in {"none", "running", "done", "aborted"}
  PROVE  [r EXCEPT !.req = q] \in Server
  BY DEF Server

(* The field that names who runs the body keeps its type.                  *)
LEMMA SetRunner ==
  ASSUME NEW r \in Server, NEW c \in Stoppers
  PROVE  [r EXCEPT !.runner = c] \in Server
  BY DEF Server

(* Serve, of a server that is bound, and what may happen to it.            *)
LEMMA ServeInv ==
  ASSUME ServersInv, NEW s \in Servers, ServeCall(s) => srv[s].bind = "ok",
         ServeCall(s) \/ Serving(s) \/ ServeFault(s)
  PROVE  ServersInv'
<1> DEFINE r == srv[s]
<1>0. r \in Server /\ Sound(kind[s], r)
  BY DEF ServersInv, ServersTypeOK
<1> USE DEF Sound, BodyHasCaller, LibraryFollowsBody, SocketFollowsBody,
            ResultFollowsServe, CutByStop
<1>1. CASE ServeCall(s)
  <2> DEFINE n == [r EXCEPT !.serve = "called"]
  <2>1. Becomes(s, n)
    BY <1>1 DEF Becomes, ServeCall
  <2>2. n \in Server
    BY <1>0 DEF Server
  <2>3. Sound(kind[s], n)
    BY <1>0, <1>1 DEF Server, ServeCall
  <2> QED
    BY <2>1, <2>2, <2>3, OneServer
<1>2. CASE ServeEnter(s)
  <2> DEFINE n == [r EXCEPT !.serve = "entered", !.alive = TRUE]
  <2>1. Becomes(s, n)
    BY <1>2 DEF Becomes, ServeEnter
  <2>2. n \in Server
    BY <1>0 DEF Server
  <2>3. Sound(kind[s], n)
    BY <1>0, <1>2 DEF Server, ServeEnter
  <2> QED
    BY <2>1, <2>2, <2>3, OneServer
<1>3. CASE ServeRun(s)
  <2> DEFINE n == [r EXCEPT !.serve = "running", !.lib = "serving"]
  <2>1. Becomes(s, n)
    BY <1>3 DEF Becomes, ServeRun
  <2>2. n \in Server
    BY <1>0 DEF Server
  <2>3. Sound(kind[s], n)
    BY <1>0, <1>3 DEF Server, ServeRun
  <2> QED
    BY <2>1, <2>2, <2>3, OneServer
<1>4. CASE ServeTooLate(s)
  <2> DEFINE n == [r EXCEPT !.serve = "returned", !.result = LateResult(s),
                            !.alive = FALSE, !.listener = Closed(s)]
  <2>1. Becomes(s, n)
    BY <1>4 DEF Becomes, ServeTooLate, ServeLeave, LateResult, Closed
  <2>2. n \in Server
    BY <1>0, HelperTypes DEF Server
  <2>3. Sound(kind[s], n)
    BY <1>0, <1>4 DEF Server, ServeTooLate, ServeLeave, LateResult, Closed
  <2> QED
    BY <2>1, <2>2, <2>3, OneServer
<1>5. CASE ServeStopped(s)
  <2> DEFINE n == [r EXCEPT !.serve = "returned", !.result = "nil",
                            !.alive = FALSE, !.listener = Closed(s)]
  <2>1. Becomes(s, n)
    BY <1>5 DEF Becomes, ServeStopped, ServeLeave, Closed
  <2>2. n \in Server
    BY <1>0, HelperTypes DEF Server
  <2>3. Sound(kind[s], n)
    BY <1>0, <1>5 DEF Server, ServeStopped, ServeLeave, Closed
  <2> QED
    BY <2>1, <2>2, <2>3, OneServer
<1>6. CASE ServeCrash(s)
  <2> DEFINE n == [r EXCEPT !.serve = "returned", !.result = "error",
                            !.alive = FALSE, !.listener = FailedListener(s)]
  <2>1. Becomes(s, n)
    BY <1>6 DEF Becomes, ServeCrash, ServeLeave, FailedListener, Accepting
  <2>2. n \in Server
    BY <1>0, HelperTypes DEF Server
  <2>3. Sound(kind[s], n)
    BY <1>0, <1>6 DEF Server, ServeCrash, ServeLeave, FailedListener, Accepting
  <2> QED
    BY <2>1, <2>2, <2>3, OneServer
<1>7. CASE ServeClosed(s)
  <2> DEFINE n == [r EXCEPT !.serve = "returned", !.result = "nil",
                            !.alive = FALSE, !.listener = FailedListener(s)]
  <2>1. Becomes(s, n)
    BY <1>7 DEF Becomes, ServeClosed, ServeLeave, FailedListener, Accepting
  <2>2. n \in Server
    BY <1>0, HelperTypes DEF Server
  <2>3. Sound(kind[s], n)
    BY <1>0, <1>7 DEF Server, ServeClosed, ServeLeave, FailedListener, Accepting
  <2> QED
    BY <2>1, <2>2, <2>3, OneServer
<1>8. CASE ServePanic(s)
  <2> DEFINE n == [r EXCEPT !.serve = "returned", !.result = "error",
                            !.listener = FailedListener(s)]
  <2>1. Becomes(s, n)
    BY <1>8 DEF Becomes, ServePanic, FailedListener, Accepting
  <2>2. n \in Server
    BY <1>0, HelperTypes DEF Server
  <2>3. Sound(kind[s], n)
    BY <1>0, <1>8 DEF Server, ServePanic, FailedListener, Accepting
  <2> QED
    BY <2>1, <2>2, <2>3, OneServer
<1> QED
  BY <1>1, <1>2, <1>3, <1>4, <1>5, <1>6, <1>7, <1>8 DEF Serving, ServeFault

(* Requests.                                                               *)
LEMMA RequestInv ==
  ASSUME ServersInv, NEW s \in Servers, Request(s)
  PROVE  ServersInv'
<1> DEFINE r == srv[s]
<1>0. r \in Server /\ Sound(kind[s], r)
  BY DEF ServersInv, ServersTypeOK
<1> USE DEF Sound, BodyHasCaller, LibraryFollowsBody, SocketFollowsBody,
            ResultFollowsServe, CutByStop
<1>1. CASE ReqStart(s)
  <2> DEFINE n == [r EXCEPT !.req = "running"]
  <2>1. Becomes(s, n)
    BY <1>1 DEF Becomes, ReqStart, Accepting
  <2>2. n \in Server
    BY <1>0 DEF Server
  <2>3. Sound(kind[s], n)
    BY <1>0, <1>1 DEF Server, ReqStart, Accepting
  <2> QED
    BY <2>1, <2>2, <2>3, OneServer
<1>2. CASE ReqDone(s)
  <2> DEFINE n == [r EXCEPT !.req = "done"]
  <2>1. Becomes(s, n)
    BY <1>2 DEF Becomes, ReqDone
  <2>2. n \in Server
    BY <1>0 DEF Server
  <2>3. Sound(kind[s], n)
    BY <1>0, <1>2 DEF Server, ReqDone
  <2> QED
    BY <2>1, <2>2, <2>3, OneServer
<1> QED
  BY <1>1, <1>2 DEF Request

(* Callers of Shutdown come, run the body, and return.                     *)
LEMMA StoppersInv ==
  ASSUME ServersInv, NEW s \in Servers, NEW c \in Stoppers,
         ShutdownCall(s, c) \/ ShutdownEnter(s, c) \/ ShutdownReturn(s, c)
  PROVE  ServersInv'
<1> DEFINE r == srv[s]
<1>0. r \in Server /\ Sound(kind[s], r)
  BY DEF ServersInv, ServersTypeOK
<1> USE DEF Sound, BodyHasCaller, LibraryFollowsBody, SocketFollowsBody,
            ResultFollowsServe, CutByStop
<1>1. CASE ShutdownCall(s, c)
  <2> DEFINE sd == [r.sd EXCEPT ![c] = "called"]
             n == [r EXCEPT !.sd = sd]
  <2>0. sd \in [Stoppers -> {"idle", "called", "returned"}]
    BY <1>0 DEF Server
  <2>1. Becomes(s, n)
    BY <1>1 DEF Becomes, ShutdownCall
  <2>2. n \in Server
    BY <1>0, <2>0 DEF Server
  <2>3. Sound(kind[s], n)
    BY <1>0, <1>1 DEF Server, ShutdownCall
  <2> QED
    BY <2>1, <2>2, <2>3, OneServer
<1>2. CASE ShutdownEnter(s, c)
  <2> DEFINE m == [r EXCEPT !.shut = "entered"]
             n == [m EXCEPT !.runner = c]
  <2>0. m \in Server
    BY <1>0 DEF Server
  <2>1. Becomes(s, n)
    BY <1>2 DEF Becomes, ShutdownEnter
  <2>2. n \in Server
    BY <2>0, SetRunner
  <2>3. Sound(kind[s], n)
    BY <1>0, <1>2 DEF Server, ShutdownEnter
  <2> QED
    BY <2>1, <2>2, <2>3, OneServer
<1>3. CASE ShutdownReturn(s, c)
  <2> DEFINE sd == [r.sd EXCEPT ![c] = "returned"]
             n == [r EXCEPT !.sd = sd]
  <2>0. sd \in [Stoppers -> {"idle", "called", "returned"}]
    BY <1>0 DEF Server
  <2>1. Becomes(s, n)
    BY <1>3 DEF Becomes, ShutdownReturn, MayReturn
  <2>2. n \in Server
    BY <1>0, <2>0 DEF Server
  <2>3. Sound(kind[s], n)
    BY <1>0, <1>3 DEF Server, ShutdownReturn, MayReturn
  <2> QED
    BY <2>1, <2>2, <2>3, OneServer
<1> QED
  BY <1>1, <1>2, <1>3

(* The steps of the body of shutdownOnce, in each of the wrappers.         *)
ShutdownBody(s) ==
    \/ HttpClose(s) \/ VrpcClose(s) \/ VrpcNil(s)
    \/ GrpcGracefulStop(s) \/ GrpcDrained(s) \/ GrpcGraceful(s)
    \/ GrpcTimeout(s) \/ GrpcStop(s) \/ GrpcStopReturn(s)
    \/ CloseListener(s)

(* They keep the invariant.                                                *)
LEMMA BodyInv ==
  ASSUME ServersInv, NEW s \in Servers, ShutdownBody(s)
  PROVE  ServersInv'
<1> DEFINE r == srv[s]
<1>0. r \in Server /\ Sound(kind[s], r)
  BY DEF ServersInv, ServersTypeOK
<1> USE DEF Sound, BodyHasCaller, LibraryFollowsBody, SocketFollowsBody,
            ResultFollowsServe, CutByStop
<1>1. CASE HttpClose(s)
  <2> DEFINE m == [r EXCEPT !.lib = "stopped", !.listener = LibClosed(s),
                            !.shut = "libStopped"]
             n == [m EXCEPT !.req = Cut(s)]
  <2>1. Becomes(s, n)
    BY <1>1 DEF Becomes, HttpClose, HttpClosed, LibClosed, Cut
  <2>2. n \in Server
    <3>1. m \in Server
      BY <1>0, HelperTypes DEF Server
    <3> QED
      BY <3>1, HelperTypes, SetReq
  <2>3. Sound(kind[s], n)
    BY <1>0, <1>1 DEF Server, HttpClose, HttpClosed, LibClosed, Cut
  <2> QED
    BY <2>1, <2>2, <2>3, OneServer
<1>2. CASE VrpcNil(s)
  <2> DEFINE n == [r EXCEPT !.shut = "done"]
  <2>1. Becomes(s, n)
    BY <1>2 DEF Becomes, VrpcNil
  <2>2. n \in Server
    BY <1>0 DEF Server
  <2>3. Sound(kind[s], n)
    BY <1>0, <1>2 DEF Server, VrpcNil
  <2> QED
    BY <2>1, <2>2, <2>3, OneServer
<1>3. CASE GrpcGracefulStop(s)
  <2> DEFINE n == [r EXCEPT !.lib = "draining", !.listener = LibClosed(s),
                            !.shut = "draining"]
  <2>1. Becomes(s, n)
    BY <1>3 DEF Becomes, GrpcGracefulStop, LibClosed
  <2>2. n \in Server
    BY <1>0, HelperTypes DEF Server
  <2>3. Sound(kind[s], n)
    BY <1>0, <1>3 DEF Server, GrpcGracefulStop, LibClosed
  <2> QED
    BY <2>1, <2>2, <2>3, OneServer
<1>4. CASE GrpcDrained(s)
  <2> DEFINE m == [r EXCEPT !.lib = "stopped"]
             n == [m EXCEPT !.req = Cut(s)]
  <2>1. Becomes(s, n)
    BY <1>4 DEF Becomes, GrpcDrained, Drained, Cut
  <2>2. n \in Server
    <3>1. m \in Server
      BY <1>0, HelperTypes DEF Server
    <3> QED
      BY <3>1, HelperTypes, SetReq
  <2>3. Sound(kind[s], n)
    BY <1>0, <1>4 DEF Server, GrpcDrained, Drained, Cut
  <2> QED
    BY <2>1, <2>2, <2>3, OneServer
<1>5. CASE GrpcGraceful(s)
  <2> DEFINE n == [r EXCEPT !.shut = "libStopped"]
  <2>1. Becomes(s, n)
    BY <1>5 DEF Becomes, GrpcGraceful
  <2>2. n \in Server
    BY <1>0 DEF Server
  <2>3. Sound(kind[s], n)
    BY <1>0, <1>5 DEF Server, GrpcGraceful
  <2> QED
    BY <2>1, <2>2, <2>3, OneServer
<1>6. CASE GrpcTimeout(s)
  <2> DEFINE n == [r EXCEPT !.shut = "stopping", !.timedOut = TRUE]
  <2>1. Becomes(s, n)
    BY <1>6 DEF Becomes, GrpcTimeout, TimerRuns
  <2>2. n \in Server
    BY <1>0 DEF Server
  <2>3. Sound(kind[s], n)
    BY <1>0, <1>6 DEF Server, GrpcTimeout, TimerRuns
  <2> QED
    BY <2>1, <2>2, <2>3, OneServer
<1>7. CASE GrpcStop(s)
  <2> DEFINE m == [r EXCEPT !.lib = "stopped"]
             n == [m EXCEPT !.req = Cut(s)]
  <2>1. Becomes(s, n)
    BY <1>7 DEF Becomes, GrpcStop, StopRuns, Cut
  <2>2. n \in Server
    <3>1. m \in Server
      BY <1>0, HelperTypes DEF Server
    <3> QED
      BY <3>1, HelperTypes, SetReq
  <2>3. Sound(kind[s], n)
    BY <1>0, <1>7 DEF Server, GrpcStop, StopRuns, Cut
  <2> QED
    BY <2>1, <2>2, <2>3, OneServer
<1>8. CASE GrpcStopReturn(s)
  <2> DEFINE n == [r EXCEPT !.shut = "libStopped"]
  <2>1. Becomes(s, n)
    BY <1>8 DEF Becomes, GrpcStopReturn
  <2>2. n \in Server
    BY <1>0 DEF Server
  <2>3. Sound(kind[s], n)
    BY <1>0, <1>8 DEF Server, GrpcStopReturn
  <2> QED
    BY <2>1, <2>2, <2>3, OneServer
<1>9. CASE CloseListener(s)
  <2> DEFINE n == [r EXCEPT !.shut = "done", !.listener = Closed(s)]
  <2>1. Becomes(s, n)
    BY <1>9 DEF Becomes, CloseListener, Closed
  <2>2. n \in Server
    BY <1>0, HelperTypes DEF Server
  <2>3. Sound(kind[s], n)
    BY <1>0, <1>9 DEF Server, CloseListener, Closed
  <2> QED
    BY <2>1, <2>2, <2>3, OneServer
<1>10. CASE VrpcClose(s)
  <2> DEFINE m(e) == [r EXCEPT !.lib = "stopped", !.listener = "closed",
                               !.sdErr = e, !.shut = "done"]
             n(e) == [m(e) EXCEPT !.req = Cut(s)]
  <2>0. PICK e \in BOOLEAN :
             srv' = [srv EXCEPT ![s].lib = "stopped", ![s].listener = "closed",
                                ![s].req = Cut(s), ![s].sdErr = e, ![s].shut = "done"]
    BY <1>10 DEF VrpcClose
  <2>1. Becomes(s, n(e))
    <3>1. UNCHANGED kind
      BY <1>10 DEF VrpcClose
    <3>2. srv' = [srv EXCEPT ![s] = [r EXCEPT !.lib = "stopped", !.listener = "closed",
                                     !.req = Cut(s), !.sdErr = e, !.shut = "done"]]
      BY <2>0
    <3>3. [r EXCEPT !.lib = "stopped", !.listener = "closed",
                    !.req = Cut(s), !.sdErr = e, !.shut = "done"] = n(e)
      BY <1>0 DEF Server
    <3> QED
      BY <3>1, <3>2, <3>3 DEF Becomes
  <2>2. n(e) \in Server
    <3>1. m(e) \in Server
      BY <1>0 DEF Server
    <3> QED
      BY <3>1, HelperTypes, SetReq
  <2>3. Sound(kind[s], n(e))
    BY <1>0, <1>10 DEF Server, VrpcClose, Cut
  <2> QED
    BY <2>1, <2>2, <2>3, OneServer
<1> QED
  BY <1>1, <1>2, <1>3, <1>4, <1>5, <1>6, <1>7, <1>8, <1>9, <1>10 DEF ShutdownBody

(* Everything that happens inside Shutdown.                                *)
LEMMA StoppingInv ==
  ASSUME ServersInv, NEW s \in Servers, Stopping(s)
  PROVE  ServersInv'
  BY StoppersInv, BodyInv DEF Stopping, ShutdownBody

(* A step that changes nothing.                                            *)
LEMMA ServersStutter ==
  ASSUME ServersInv, UNCHANGED serverVars
  PROVE  ServersInv'
  BY DEF ServersInv, ServersTypeOK, serverVars

(* The invariant is inductive.                                             *)
LEMMA ServersStep == ServersInv /\ [ServersNext]_serverVars => ServersInv'
<1> SUFFICES ASSUME ServersInv, [ServersNext]_serverVars
             PROVE  ServersInv'
  OBVIOUS
<1>1. ASSUME NEW s \in Servers, UseBind(s)
      PROVE  ServersInv'
  BY <1>1, BindInv DEF UseBind
<1>2. ASSUME NEW s \in Servers, UseServe(s) \/ Serving(s) \/ ServeFault(s)
      PROVE  ServersInv'
  BY <1>2, ServeInv DEF UseServe, Serving, ServeFault, ServeCall, ServeEnter, ServeRun,
     ServeTooLate, ServeStopped, ServeCrash, ServeClosed, ServePanic, Accepting
<1>3. ASSUME NEW s \in Servers, (\E c \in Stoppers : ShutdownCall(s, c)) \/ Stopping(s)
      PROVE  ServersInv'
  BY <1>3, StoppersInv, StoppingInv
<1>4. ASSUME NEW s \in Servers, Request(s)
      PROVE  ServersInv'
  BY <1>4, RequestInv
<1>5. CASE AtRest \/ UNCHANGED serverVars
  BY <1>5, ServersStutter DEF AtRest
<1> QED
  BY <1>1, <1>2, <1>3, <1>4, <1>5 DEF ServersNext

(* The invariant of the wrappers, whatever the order in which Bind, Serve  *)
(* and Shutdown run.                                                       *)
THEOREM ServersInvariant == ServersSpec => []ServersInv
  BY ServersInvInit, ServersStep, PTL DEF ServersSpec

-----------------------------------------------------------------------------
(* The fields of the wrappers keep their types.                            *)
THEOREM ServersTypeCorrect == ServersSpec => []ServersTypeOK
  BY ServersInvariant, PTL DEF ServersInv

(* Whoever returns from Shutdown, also a second caller that ran nothing,   *)
(* finds the port free.                                                    *)
THEOREM PortFreed == ServersSpec => []ShutdownFreesPort
<1>1. ServersInv => ShutdownFreesPort
  BY DEF ServersInv, Sound, BodyHasCaller, SocketFollowsBody, ShutdownFreesPort
<1> QED
  BY <1>1, ServersInvariant, PTL

(* GracefulStop gets its time: no gRPC call is cut before the timeout.     *)
THEOREM CutAfterTimeout == ServersSpec => []GrpcCutOnlyAfterTimeout
<1>1. ServersInv => GrpcCutOnlyAfterTimeout
  BY DEF ServersInv, Sound, CutByStop, GrpcCutOnlyAfterTimeout
<1> QED
  BY <1>1, ServersInvariant, PTL

(* Only ReqStart starts a request.                                         *)
LEMMA OnlyReqStartStarts ==
  ASSUME ServersInv, [ServersNext]_serverVars, NEW s \in Servers,
         srv[s].req = "none", srv'[s].req = "running"
  PROVE  ReqStart(s)
<1>0. srv \in [Servers -> Server]
  BY DEF ServersInv, ServersTypeOK
<1> USE <1>0 DEF Server, Cut
<1>1. ASSUME NEW t \in Servers, UseBind(t) \/ UseServe(t)
      PROVE  FALSE
  <2>1. CASE BindOk(t)
    BY <2>1 DEF BindOk
  <2>2. CASE BindFail(t)
    BY <2>2 DEF BindFail
  <2>3. CASE BindHalf(t)
    BY <2>3 DEF BindHalf
  <2>4. CASE ServeCall(t)
    BY <2>4 DEF ServeCall
  <2> QED
    BY <1>1, <2>1, <2>2, <2>3, <2>4 DEF UseBind, UseServe, BindServer
<1>2. ASSUME NEW t \in Servers, Serving(t) \/ ServeFault(t)
      PROVE  FALSE
  BY <1>2 DEF Serving, ServeFault, ServeEnter, ServeRun, ServeTooLate, ServeStopped,
              ServeCrash, ServeClosed, ServePanic, ServeLeave
<1>3. ASSUME NEW t \in Servers, NEW c \in Stoppers,
             ShutdownCall(t, c) \/ ShutdownEnter(t, c) \/ ShutdownReturn(t, c)
      PROVE  FALSE
  <2>1. CASE ShutdownCall(t, c)
    BY <2>1 DEF ShutdownCall
  <2>2. CASE ShutdownEnter(t, c)
    BY <2>2 DEF ShutdownEnter
  <2>3. CASE ShutdownReturn(t, c)
    BY <2>3 DEF ShutdownReturn
  <2> QED
    BY <1>3, <2>1, <2>2, <2>3
<1>4. ASSUME NEW t \in Servers, ShutdownBody(t)
      PROVE  FALSE
  <2>1. CASE HttpClose(t)
    BY <2>1 DEF HttpClose
  <2>2. CASE VrpcClose(t)
    BY <2>2 DEF VrpcClose
  <2>3. CASE VrpcNil(t)
    BY <2>3 DEF VrpcNil
  <2>4. CASE GrpcGracefulStop(t)
    BY <2>4 DEF GrpcGracefulStop
  <2>5. CASE GrpcDrained(t)
    BY <2>5 DEF GrpcDrained
  <2>6. CASE GrpcGraceful(t)
    BY <2>6 DEF GrpcGraceful
  <2>7. CASE GrpcTimeout(t)
    BY <2>7 DEF GrpcTimeout
  <2>8. CASE GrpcStop(t)
    BY <2>8 DEF GrpcStop
  <2>9. CASE GrpcStopReturn(t)
    BY <2>9 DEF GrpcStopReturn
  <2>10. CASE CloseListener(t)
    BY <2>10 DEF CloseListener
  <2> QED
    BY <1>4, <2>1, <2>2, <2>3, <2>4, <2>5, <2>6, <2>7, <2>8, <2>9, <2>10 DEF ShutdownBody
<1>5. ASSUME NEW t \in Servers, Request(t), ~ReqStart(s)
      PROVE  FALSE
  BY <1>5 DEF Request, ReqStart, ReqDone
<1>6. CASE UNCHANGED serverVars
  BY <1>6 DEF serverVars
<1> QED
  BY <1>1, <1>2, <1>3, <1>4, <1>5, <1>6
  DEF ServersNext, Stopping, ShutdownBody, AtRest

(* Once the library was told to stop, no request starts, also when the     *)
(* Serve goroutine gets to run only then.                                  *)
THEOREM NothingAccepted == ServersSpec => StoppedAcceptsNothing
<1>1. ServersInv /\ [ServersNext]_serverVars
        => [\A s \in Servers :
               srv[s].shut \in {"draining", "stopping", "libStopped", "done"}
                   => ~(srv[s].req = "none" /\ srv'[s].req = "running")]_serverVars
  <2> SUFFICES ASSUME ServersInv, [ServersNext]_serverVars, NEW s \in Servers,
                      srv[s].shut \in {"draining", "stopping", "libStopped", "done"},
                      srv[s].req = "none", srv'[s].req = "running"
               PROVE  FALSE
    OBVIOUS
  <2>1. srv[s].lib = "serving" /\ srv[s].listener = "open"
    BY OnlyReqStartStarts DEF ReqStart, Accepting
  <2> QED
    BY <2>1 DEF ServersInv, Sound, LibraryFollowsBody
<1> QED
  BY <1>1, ServersInvariant, PTL DEF ServersSpec, StoppedAcceptsNothing
=============================================================================
