------------------------------ MODULE ValueRpc -------------------------------
(***************************************************************************)
(* A value-rpc server and a client of it, from Bind to the calls: the      *)
(* wiring of ValueTransport, then the calls of Governance, answered by the *)
(* services the server has collected.  A server may be slow for ever.      *)
(***************************************************************************)
EXTENDS Governance, ValueTransport

CONSTANTS Deployments       \* see ValueTransport

ASSUME DeploymentAssumption ==
    \A d \in Deployments :
        /\ d.server.bind \in Address
        /\ {"name", "connect", "binds", "transport", "obfs", "policy"} \subseteq DOMAIN d.client

VARIABLES
    dep,        \* the deployment
    phase,      \* "bind", "client", "connect", "calling", "failed"
    listening,  \* the stack of the listener, <<>> while there is none
    dialer,     \* the stack the client was built with
    registered, \* the services registered with the server
    served      \* requests the server has executed, modulo 3

wiring == <<dep, phase, listening, dialer, registered>>
vars == <<governance, wiring, served>>

Init ==
    /\ dep \in Deployments
    /\ phase = "bind"
    /\ listening = <<>> /\ dialer = <<>> /\ registered = {}
    /\ chain = <<>> /\ tokens = 0
    /\ calls = [c \in Callers |-> NewCall(0)]
    /\ breaker = [state |-> "closed", fails |-> 0]
    /\ served = 0

-----------------------------------------------------------------------------
(* implValueServer.Bind: no address, a listener that cannot be had, or a   *)
(* service that cannot register, and the server does not come up.          *)
Bind ==
    /\ phase = "bind"
    /\ LET s == dep.server
           ok == s.bind # NoAddress /\ ServerStack(s) # Rejected
           failing == \E v \in Collected(s) : ~v.registers
       IN  /\ listening' = IF ok THEN ServerStack(s) ELSE <<>>
           /\ registered' = IF ok /\ ~failing THEN Collected(s) ELSE {}
           /\ phase' = IF ok /\ ~failing THEN "client" ELSE "failed"
    /\ UNCHANGED <<governance, dep, dialer, served>>

(* Properties may name the address of the bound listener (port 0).         *)
Client ==
    IF dep.client.connect = Bound
    THEN [dep.client EXCEPT !.connect = ListenAddress(dep.server)] ELSE dep.client

Policy(p) ==
    CASE p.kind = "properties" -> Interceptors(p.props)
      [] p.kind = "static" -> p.chain
      [] OTHER -> <<>>

(* implValueClientFactory.Object.                                          *)
NewClient ==
    /\ phase = "client"
    /\ IF ConnectAddress(Client) = NoAddress \/ ClientStack(Client) = Rejected
       THEN phase' = "failed" /\ UNCHANGED <<dialer, chain, tokens>>
       ELSE /\ phase' = "connect"
            /\ dialer' = ClientStack(Client)
            /\ chain' = Policy(Client.policy)
            /\ tokens' = Burst(chain')
    /\ UNCHANGED <<calls, breaker, dep, listening, registered, served>>

(* Mutation: Bind does not install the Authenticator.                      *)
WithoutAuthenticator(s) == s.guards \ {"authenticator"}

(* SetConnectAuthorizer and SetAuthenticator, for the beans that exist.    *)
Guards(s) == s.guards

(* Client.Connect: the dial, the layers' handshakes, then the guards.      *)
Connect ==
    /\ phase = "connect"
    /\ phase' = IF /\ Reaches(ConnectAddress(Client), ListenAddress(dep.server))
                   /\ dialer = listening
                   /\ Guards(dep.server) \subseteq dep.client.passes
                THEN "calling" ELSE "failed"
    /\ UNCHANGED <<governance, dep, listening, dialer, registered, served>>

-----------------------------------------------------------------------------
(* What a service makes of a request.                                      *)
Behaviour(v, n) ==
    CASE v.behaviour = "greets" -> {"ok"}
      [] v.behaviour = "flaky" -> IF n % 3 # 0 THEN {"unavailable"} ELSE {"ok"}
      [] OTHER -> {"ok", "unavailable", "error"}

Call(c) == phase = "calling" /\ Invoke(c) /\ UNCHANGED <<wiring, served>>

(* The server executes the request and its answer arrives, unless the      *)
(* attempt was given up before; a function nobody registered is not found. *)
Execute(c) ==
    /\ LET found == {v \in registered : v.function = dep.client.calls}
       IN  IF found = {} THEN Returns(c, "notFound") /\ UNCHANGED served
           ELSE \E v \in found : \E r \in Behaviour(v, served + 1) :
                   Returns(c, r) /\ served' = (served + 1) % 3
    /\ UNCHANGED wiring

(* cli.SetTimeout, which bounds every request of the client.               *)
ClientTimeout(c) ==
    /\ dep.client.timeout > 0
    /\ Returns(c, "deadline")
    /\ UNCHANGED <<wiring, served>>

InCall(c) == Proceed(c) /\ UNCHANGED <<wiring, served>>

Passing == (Refill \/ Cooldown) /\ UNCHANGED <<wiring, served>>

Idle ==
    /\ \/ phase = "failed"
       \/ phase = "calling" /\ \A c \in Callers : calls[c].way = "idle" /\ calls[c].ops = MaxOps
    /\ UNCHANGED vars

Next ==
    \/ Bind \/ NewClient \/ Connect \/ Passing \/ Idle
    \/ \E c \in Callers : Call(c) \/ InCall(c) \/ Execute(c) \/ ClientTimeout(c)

Spec == Init /\ [][Next]_vars

(* Goroutines and timers go on; whether the server answers is open.        *)
Fairness == \A c \in Callers : WF_vars(InCall(c)) /\ WF_vars(ClientTimeout(c))

FairSpec == Spec /\ Fairness

-----------------------------------------------------------------------------
(* The client was given what its server has: the same beans, no address or *)
(* that of the listener, and the guards' consent.                          *)
Matching ==
    /\ dep.client.transport = dep.server.transport
    /\ dep.client.obfs = dep.server.obfs
    /\ dep.server.guards \subseteq dep.client.passes
    /\ \/ dep.client.connect = Bound
       \/ /\ dep.client.connect = NoAddress
          /\ dep.server.bind.port # 0
          /\ dep.server.name = ServerBean(dep.client.name)
          /\ BindAddress(dep.client, dep.server.name) = dep.server.bind

(* "a client co-located with its server needs no extra configuration": the *)
(* two factories come to the same address and the same stack of layers, so *)
(* that a matching client connects to every server that could be bound.    *)
MatchingClientConnects ==
    Matching /\ listening # <<>> /\ registered = Collected(dep.server) => phase # "failed"

(* Nobody is served who was not let in by every guard bean of the server,  *)
(* or over a stack other than the one the server was configured for: not   *)
(* over plain TCP where shaping was asked for.                             *)
ServedAsConfigured ==
    phase = "calling" =>
        /\ dep.server.guards \subseteq dep.client.passes
        /\ dep.server.transport # NoTransport => dialer = dep.server.transport.listener
        /\ dep.server.transport = NoTransport /\ dep.server.obfs # NoProfile
              => dialer = <<dep.server.bind.network, dep.server.obfs>>

(* A call ends, even if the server never answers, when a timeout is set    *)
(* for the client or for the attempts: retries do not go on for ever.      *)
CallsEnd ==
    \A c \in Callers :
        (calls[c].way # "idle" /\ (dep.client.timeout > 0
             \/ (dep.client.policy.kind = "properties"
                    /\ GetInt(dep.client.policy.props, "timeout-ms", 0) > 0)))
            ~> (calls[c].way = "idle")
=============================================================================
