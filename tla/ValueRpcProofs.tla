--------------------------- MODULE ValueRpcProofs ----------------------------
(***************************************************************************)
(* Proofs about ValueRpc.tla for any deployments, any number of concurrent *)
(* callers and any number of calls.  Two invariants: what the two ends     *)
(* have agreed on by the time the client connects, and where in the chain  *)
(* of interceptors a call can be for what has happened to it so far.       *)
(***************************************************************************)
EXTENDS ValueRpc, TLAPS

-----------------------------------------------------------------------------
(* Wiring.                                                                 *)

(* After Bind the listener has the stack that the server is configured     *)
(* for; Connect lets nobody in over another one or past a guard.           *)
WiringInv ==
    /\ dep \in Deployments
    /\ phase \in {"bind", "client", "connect", "calling", "failed"}
    /\ phase \in {"client", "connect", "calling"} =>
          /\ dep.server.bind # NoAddress
          /\ listening = ServerStack(dep.server) /\ listening # Rejected
    /\ phase = "connect" => dialer = ClientStack(Client)
    /\ phase = "calling" =>
          /\ dialer = listening
          /\ dep.server.guards \subseteq dep.client.passes

(* A Transport bean's listener and dialer are layered alike.               *)
TransportsMatch == \A d \in Deployments : d.server.transport.dialer = d.server.transport.listener

(* No step of a call, no passing of time changes the wiring.               *)
LEMMA WiringFrame ==
  ASSUME WiringInv, UNCHANGED <<dep, phase, listening, dialer, registered>>
  PROVE  WiringInv'
<1>1. ServerStack(dep.server)' = ServerStack(dep.server)
  BY DEF ServerStack, TransportListener, ObfsStack, StreamNetwork
<1>2. ClientStack(Client)' = ClientStack(Client)
  BY DEF ClientStack, Client, TransportDialer, ObfsStack, StreamNetwork, ConnectAddress,
         BindAddress, ServerBean, LocalizeAddr, ListenAddress
<1> QED
  BY <1>1, <1>2 DEF WiringInv

(* The three steps of the wiring keep its invariant.                       *)
LEMMA BindWires == ASSUME WiringInv, Bind PROVE WiringInv'
  BY DEF WiringInv, Bind, ServerStack, TransportListener, ObfsStack, StreamNetwork

(* Object: the dialer is what the client is configured for.                *)
LEMMA NewClientWires == ASSUME WiringInv, NewClient PROVE WiringInv'
<1>1. dep' = dep /\ listening' = listening /\ phase = "client"
  BY DEF NewClient
<1>2. ServerStack(dep.server)' = ServerStack(dep.server) /\ ClientStack(Client)' = ClientStack(Client)
  BY <1>1 DEF ServerStack, ClientStack, Client, TransportListener, TransportDialer,
         ObfsStack, StreamNetwork, ConnectAddress, BindAddress, ServerBean, LocalizeAddr,
         ListenAddress
<1> QED
  BY <1>1, <1>2 DEF WiringInv, NewClient

(* Connect: the stacks are compared, and the guards asked.                 *)
LEMMA ConnectWires == ASSUME WiringInv, Connect PROVE WiringInv'
<1>1. dep' = dep /\ listening' = listening /\ dialer' = dialer /\ phase = "connect"
  BY DEF Connect
<1>2. ServerStack(dep.server)' = ServerStack(dep.server)
  BY <1>1 DEF ServerStack, TransportListener, ObfsStack, StreamNetwork
<1> QED
  BY <1>1, <1>2 DEF WiringInv, Connect, Guards

(* Every step keeps the wiring.                                            *)
LEMMA WiringStep == ASSUME WiringInv, [Next]_vars PROVE WiringInv'
<1>1. CASE Bind
  BY <1>1, BindWires
<1>2. CASE NewClient
  BY <1>2, NewClientWires
<1>3. CASE Connect
  BY <1>3, ConnectWires
<1>4. CASE Passing \/ Idle \/ UNCHANGED vars
  BY <1>4, WiringFrame DEF Passing, Idle, vars, wiring
<1>5. ASSUME NEW c \in Callers, Call(c) \/ InCall(c) \/ Execute(c) \/ ClientTimeout(c)
      PROVE  WiringInv'
  BY <1>5, WiringFrame DEF Call, InCall, Execute, ClientTimeout, wiring
<1> QED
  BY <1>1, <1>2, <1>3, <1>4, <1>5 DEF Next

(* The invariant of the wiring.                                            *)
THEOREM WiringInvariant == Spec => []WiringInv
<1>1. Init => WiringInv
  BY DEF Init, WiringInv
<1> QED
  BY <1>1, WiringStep, PTL DEF Spec

(* Nobody is served past a guard bean, or over another stack than the      *)
(* server's Bind has chosen: value_server.go, Bind, and what the client's  *)
(* Connect meets there, for every deployment.                              *)
THEOREM ServedOnlyAsConfigured == Spec => []ServedAsConfigured
<1>1. WiringInv => ServedAsConfigured
  BY DEF WiringInv, ServedAsConfigured, ServerStack, TransportListener, ObfsStack
<1> QED
  BY <1>1, WiringInvariant, PTL

-----------------------------------------------------------------------------
(* What the factories of a matching pair come to.                          *)

(* localizeAddr changes the host only, and to one that is no wildcard.     *)
LEMMA Localized ==
  ASSUME NEW a \in Address
  PROVE  /\ LocalizeAddr(a).scheme = a.scheme
         /\ LocalizeAddr(a).network = a.network
         /\ LocalizeAddr(a).port = a.port
         /\ LocalizeAddr(a).host = a.host \/ a.host \in {"0.0.0.0", ""}
         /\ a # NoAddress => LocalizeAddr(a) # NoAddress
  BY DEF Address, LocalizeAddr, NoAddress

(* The address that a listener reports differs in the port, if it was 0.   *)
LEMMA Listened ==
  ASSUME NEW s, s.bind \in Address
  PROVE  /\ ListenAddress(s) \in Address
         /\ ListenAddress(s).scheme = s.bind.scheme
         /\ ListenAddress(s).network = s.bind.network
         /\ s.bind # NoAddress => ListenAddress(s) # NoAddress
         /\ s.bind.port # 0 => ListenAddress(s) = s.bind
<1>1. CASE s.bind.port # 0
  BY <1>1 DEF ListenAddress
<1>2. ASSUME NEW a \in Address
      PROVE  LET b == [a EXCEPT !.port = 49152]
             IN  /\ b \in Address /\ b # NoAddress
                 /\ b.scheme = a.scheme /\ b.network = a.network
  <2> DEFINE b == [a EXCEPT !.port = 49152]
  <2>1. b \in Address /\ b.scheme = a.scheme /\ b.network = a.network /\ b.port = 49152
    BY DEF Address
  <2>2. NoAddress.port = 0
    BY DEF NoAddress
  <2> HIDE DEF b
  <2>3. b # NoAddress
    BY <2>1, <2>2
  <2> QED
    BY <2>1, <2>3 DEF b
<1>3. CASE s.bind.port = 0
  BY <1>2, <1>3 DEF ListenAddress
<1> QED
  BY <1>1, <1>3

(* Client names the listener, or nothing: its address reaches the server.  *)
LEMMA AddressFound ==
  ASSUME dep \in Deployments, Matching, dep.server.bind # NoAddress
  PROVE  /\ ConnectAddress(Client) # NoAddress
         /\ ConnectAddress(Client).scheme = dep.server.bind.scheme
         /\ ConnectAddress(Client).network = dep.server.bind.network
         /\ Reaches(ConnectAddress(Client), ListenAddress(dep.server))
         /\ Client.transport = dep.client.transport
         /\ Client.obfs = dep.client.obfs
<1>1. /\ dep.server.bind \in Address
      /\ {"name", "connect", "binds", "transport", "obfs", "policy"} \subseteq DOMAIN dep.client
  BY DeploymentAssumption
<1> DEFINE l == ListenAddress(dep.server)
<1>2. /\ l \in Address /\ l.scheme = dep.server.bind.scheme
      /\ l.network = dep.server.bind.network /\ l # NoAddress
      /\ dep.server.bind.port # 0 => l = dep.server.bind
  BY <1>1, Listened
<1> HIDE DEF l
<1>3. CASE dep.client.connect = Bound
  <2>1. /\ Client.connect = l /\ Client.transport = dep.client.transport
        /\ Client.obfs = dep.client.obfs
    BY <1>1, <1>3 DEF Client, l
  <2>2. ConnectAddress(Client) = l
    BY <1>2, <2>1 DEF ConnectAddress
  <2> QED
    BY <1>2, <2>1, <2>2 DEF Reaches, l
<1>4. CASE dep.client.connect # Bound
  <2>1. /\ dep.client.connect = NoAddress /\ dep.server.bind.port # 0
        /\ dep.server.name = ServerBean(dep.client.name)
        /\ BindAddress(dep.client, dep.server.name) = dep.server.bind
    BY <1>4 DEF Matching
  <2>2. Client = dep.client
    BY <1>4 DEF Client
  <2>3. ConnectAddress(Client) = LocalizeAddr(dep.server.bind)
    BY <2>1, <2>2 DEF ConnectAddress
  <2>4. /\ LocalizeAddr(dep.server.bind).scheme = dep.server.bind.scheme
        /\ LocalizeAddr(dep.server.bind).network = dep.server.bind.network
        /\ LocalizeAddr(dep.server.bind).port = dep.server.bind.port
        /\ \/ LocalizeAddr(dep.server.bind).host = dep.server.bind.host
           \/ dep.server.bind.host \in {"0.0.0.0", ""}
        /\ LocalizeAddr(dep.server.bind) # NoAddress
    BY <1>1, Localized
  <2>5. Reaches(LocalizeAddr(dep.server.bind), l)
    BY <1>2, <2>1, <2>4 DEF Reaches
  <2> QED
    BY <2>2, <2>3, <2>4, <2>5 DEF l
<1> QED
  BY <1>3, <1>4

(* Both factories decide for the same layers.                              *)
LEMMA SameStack ==
  ASSUME dep \in Deployments, Matching, dep.server.bind # NoAddress, TransportsMatch
  PROVE  ClientStack(Client) = ServerStack(dep.server)
<1>1. /\ Client.transport = dep.server.transport /\ Client.obfs = dep.server.obfs
      /\ ConnectAddress(Client).scheme = dep.server.bind.scheme
      /\ ConnectAddress(Client).network = dep.server.bind.network
      /\ dep.server.transport.dialer = dep.server.transport.listener
  BY AddressFound DEF Matching, TransportsMatch
<1>2. TransportDialer(Client.transport, ConnectAddress(Client))
        = TransportListener(dep.server.transport, dep.server.bind)
  BY <1>1 DEF TransportDialer, TransportListener
<1>3. ObfsStack(ConnectAddress(Client), Client.obfs) = ObfsStack(dep.server.bind, dep.server.obfs)
  BY <1>1 DEF ObfsStack, StreamNetwork
<1> QED
  BY <1>1, <1>2, <1>3 DEF ClientStack, ServerStack

(* A failed start of a matching pair is the server's: it has no listener,  *)
(* or not all its services.                                                *)
LEMMA MatchingStep ==
  ASSUME WiringInv, MatchingClientConnects, [Next]_vars, TransportsMatch
  PROVE  MatchingClientConnects'
<1>1. CASE Bind
  <2>1. CASE phase' = "failed"
    BY <1>1, <2>1 DEF Bind, MatchingClientConnects, Collected
  <2> QED
    BY <1>1, <2>1 DEF Bind, MatchingClientConnects
<1>2. CASE NewClient
  <2>1. /\ dep' = dep /\ phase = "client" /\ dep.server.bind # NoAddress /\ dep \in Deployments
        /\ listening = ServerStack(dep.server) /\ listening # Rejected
    BY <1>2 DEF NewClient, WiringInv
  <2>2. Matching => ConnectAddress(Client) # NoAddress /\ ClientStack(Client) # Rejected
    BY <2>1, AddressFound, SameStack
  <2>3. Matching' = Matching
    BY <2>1 DEF Matching, BindAddress, ServerBean
  <2>4. Matching => phase' # "failed"
    BY <1>2, <2>2 DEF NewClient
  <2> QED
    BY <2>3, <2>4 DEF MatchingClientConnects
<1>3. CASE Connect
  <2>1. /\ dep' = dep /\ phase = "connect" /\ dep.server.bind # NoAddress /\ dep \in Deployments
        /\ listening = ServerStack(dep.server) /\ dialer = ClientStack(Client)
    BY <1>3 DEF Connect, WiringInv
  <2>2. Matching => /\ Reaches(ConnectAddress(Client), ListenAddress(dep.server))
                    /\ dialer = listening /\ Guards(dep.server) \subseteq dep.client.passes
    BY <2>1, AddressFound, SameStack DEF Matching, Guards
  <2>3. Matching' = Matching
    BY <2>1 DEF Matching, BindAddress, ServerBean
  <2>4. Matching => phase' # "failed"
    BY <1>3, <2>2 DEF Connect
  <2> QED
    BY <2>3, <2>4 DEF MatchingClientConnects
<1>4. CASE UNCHANGED <<dep, phase, listening, dialer, registered>>
  BY <1>4 DEF MatchingClientConnects, Matching, BindAddress, ServerBean, Collected
<1>5. ASSUME NEW c \in Callers, Call(c) \/ InCall(c) \/ Execute(c) \/ ClientTimeout(c)
      PROVE  UNCHANGED <<dep, phase, listening, dialer, registered>>
  BY <1>5 DEF Call, InCall, Execute, ClientTimeout, wiring
<1>6. CASE Passing \/ Idle \/ UNCHANGED vars
  BY <1>4, <1>6 DEF Passing, Idle, vars, wiring
<1> QED
  BY <1>1, <1>2, <1>3, <1>4, <1>5, <1>6 DEF Next

(* A client with the beans of its server, and no address or the bound one, *)
(* connects: value_server.go and value_client_factory.go come to the same  *)
(* address and layers although each decides for itself, whatever the       *)
(* address, for Transport beans whose two ends are layered alike.          *)
THEOREM MatchingPairConnects ==
  ASSUME TransportsMatch
  PROVE  Spec => []MatchingClientConnects
<1>1. Init => MatchingClientConnects
  BY DEF Init, MatchingClientConnects
<1> QED
  BY <1>1, WiringInvariant, MatchingStep, TransportsMatch, PTL DEF Spec

-----------------------------------------------------------------------------
(* The chain of interceptors.                                              *)

Rank == [rateLimit |-> 1, bulkhead |-> 2, breaker |-> 3, retry |-> 4, timeout |-> 5]
Kinds == {"rateLimit", "bulkhead", "breaker", "retry", "timeout"}

(* The interceptors of s are in the order of their ranks, none of a kind   *)
(* twice, and all ranks are from low to high.                              *)
InOrder(s, low, high) ==
    /\ \A i \in 1..Len(s) : s[i].kind \in Kinds /\ Rank[s[i].kind] \in low..high
    /\ \A i, j \in 1..Len(s) : i < j => Rank[s[i].kind] < Rank[s[j].kind]

Interceptor(N) == [kind : Kinds, n : N]

(* An optional interceptor is a chain in order.                            *)
LEMMA OneInOrder ==
  ASSUME NEW N, NEW n \in N, NEW kind \in Kinds, NEW enabled
  PROVE  /\ When(enabled, kind, n) \in Seq(Interceptor(N))
         /\ InOrder(When(enabled, kind, n), Rank[kind], Rank[kind])
<1>1. Rank[kind] \in Nat
  BY DEF Rank, Kinds
<1>2. CASE enabled
  BY <1>1, <1>2 DEF When, Interceptor, InOrder
<1>3. CASE ~enabled
  BY <1>3 DEF When, Interceptor, InOrder
<1> QED
  BY <1>2, <1>3

(* Two chains in order, the second of higher ranks, make one.              *)
LEMMA JoinInOrder ==
  ASSUME NEW N, NEW s \in Seq(Interceptor(N)), NEW t \in Seq(Interceptor(N)),
         NEW k \in Nat, NEW m \in Nat, k < m, 1 <= m, InOrder(s, 1, k), InOrder(t, m, m)
  PROVE  /\ s \o t \in Seq(Interceptor(N))
         /\ InOrder(s \o t, 1, m)
<1> DEFINE u == s \o t
<1>1. /\ u \in Seq(Interceptor(N)) /\ Len(u) = Len(s) + Len(t)
      /\ Len(s) \in Nat /\ Len(t) \in Nat
      /\ \A i \in 1..Len(s) : u[i] = s[i]
      /\ \A i \in 1..Len(u) : i > Len(s) => u[i] = t[i - Len(s)]
  OBVIOUS
<1> HIDE DEF u
<1>2. \A i \in 1..Len(u) : i \in 1..Len(s) \/ (i > Len(s) /\ i - Len(s) \in 1..Len(t))
  BY <1>1
<1>3. ASSUME NEW i \in 1..Len(u)
      PROVE  /\ u[i].kind \in Kinds
             /\ i \in 1..Len(s) => Rank[u[i].kind] \in 1..k
             /\ i > Len(s) => Rank[u[i].kind] \in m..m
  <2>1. CASE i \in 1..Len(s)
    BY <1>1, <2>1 DEF InOrder
  <2>2. CASE i > Len(s)
    <3>1. i - Len(s) \in 1..Len(t) /\ u[i] = t[i - Len(s)]
      BY <1>1, <1>2, <2>2
    <3>2. t[i - Len(s)].kind \in Kinds /\ Rank[t[i - Len(s)].kind] \in m..m
      BY <3>1 DEF InOrder
    <3> QED
      BY <1>1, <2>2, <3>1, <3>2
  <2> QED
    BY <1>2, <2>1, <2>2
<1>4. ASSUME NEW i \in 1..Len(u), NEW j \in 1..Len(u), i < j
      PROVE  Rank[u[i].kind] < Rank[u[j].kind]
  <2>1. CASE j \in 1..Len(s)
    <3>1. i \in 1..Len(s)
      BY <1>1, <1>4, <2>1
    <3> QED
      BY <1>1, <1>4, <2>1, <3>1 DEF InOrder
  <2>2. CASE j > Len(s) /\ i \in 1..Len(s)
    BY <1>3, <2>2
  <2>3. CASE j > Len(s) /\ i > Len(s)
    <3>1. i - Len(s) \in 1..Len(t) /\ j - Len(s) \in 1..Len(t) /\ i - Len(s) < j - Len(s)
      BY <1>1, <1>4, <2>3
    <3> QED
      BY <1>1, <2>3, <3>1 DEF InOrder
  <2> QED
    BY <1>2, <2>1, <2>2, <2>3
<1>5. \A i \in 1..Len(u) : u[i].kind \in Kinds /\ Rank[u[i].kind] \in 1..m
  BY <1>2, <1>3
<1> QED
  BY <1>1, <1>4, <1>5 DEF u, InOrder

(* ResiliencePolicyFactory.Object puts what is configured in this order,   *)
(* whatever the properties.                                                *)
LEMMA FactoryOrder ==
  ASSUME NEW props
  PROVE  /\ Len(Interceptors(props)) \in Nat
         /\ DOMAIN Interceptors(props) = 1..Len(Interceptors(props))
         /\ InOrder(Interceptors(props), 1, 5)
<1> DEFINE N == {GetInt(props, "rate-limit.burst", 1), GetInt(props, "bulkhead.max-concurrent", 0),
                 GetInt(props, "circuit-breaker.threshold", 0),
                 GetInt(props, "retry.max-attempts", 0), GetInt(props, "timeout-ms", 0)}
           T == Seq(Interceptor(N))
<1>1. /\ RateLimit(props) \in T /\ InOrder(RateLimit(props), 1, 1)
      /\ Bulkhead(props) \in T /\ InOrder(Bulkhead(props), 2, 2)
      /\ CircuitBreaker(props) \in T /\ InOrder(CircuitBreaker(props), 3, 3)
      /\ Retry(props) \in T /\ InOrder(Retry(props), 4, 4)
      /\ Timeout(props) \in T /\ InOrder(Timeout(props), 5, 5)
  <2>1. /\ Rank["rateLimit"] = 1 /\ Rank["bulkhead"] = 2 /\ Rank["breaker"] = 3
        /\ Rank["retry"] = 4 /\ Rank["timeout"] = 5
    BY DEF Rank
  <2>2. \A k \in {"rateLimit", "bulkhead", "breaker", "retry", "timeout"} : k \in Kinds
    BY DEF Kinds
  <2>3. \A e : \A n \in N : \A k \in Kinds :
           When(e, k, n) \in T /\ InOrder(When(e, k, n), Rank[k], Rank[k])
    BY OneInOrder
  <2> QED
    BY <2>1, <2>2, <2>3 DEF RateLimit, Bulkhead, CircuitBreaker, Retry, Timeout
<1> HIDE DEF N
<1> DEFINE two == RateLimit(props) \o Bulkhead(props)
           three == two \o CircuitBreaker(props)
           four == three \o Retry(props)
           five == four \o Timeout(props)
<1>2. two \in T /\ InOrder(two, 1, 2)
  BY <1>1, JoinInOrder
<1> HIDE DEF two
<1>3. three \in T /\ InOrder(three, 1, 3)
  BY <1>1, <1>2, JoinInOrder
<1> HIDE DEF three
<1>4. four \in T /\ InOrder(four, 1, 4)
  BY <1>1, <1>3, JoinInOrder
<1> HIDE DEF four
<1>5. five \in T /\ InOrder(five, 1, 5)
  BY <1>1, <1>4, JoinInOrder
<1>6. five = Interceptors(props)
  BY DEF five, four, three, two, Interceptors
<1> HIDE DEF five
<1>7. Len(five) \in Nat /\ DOMAIN five = 1..Len(five)
  BY <1>5
<1> QED
  BY <1>5, <1>6, <1>7

-----------------------------------------------------------------------------
(* The calls.                                                              *)

Results == {"none", "refused", "ok", "unavailable", "error", "notFound", "deadline"}

CallRecord ==
    [at : Nat, way : {"idle", "down", "wire", "up"}, result : Results, ops : Nat,
     tries : Nat, timer : Nat, sent : Nat, counted : Nat]

(* Where a call r in the chain s can be.  Once it has reached the server   *)
(* it goes down again below Retry only; the breaker counts it on its way   *)
(* out, when nothing that could repeat or count it is left; on the way     *)
(* down from Timeout the deadline is that of the next attempt.             *)
Untouched(r, s) ==
    /\ r.way = "down" => r.result = "none"
    /\ r.way = "down" /\ r.sent # 0 => \E i \in 1..Len(s) : i < r.at /\ s[i].kind = "retry"
    /\ r.result = "refused" => r.sent = 0

CountedOnce(r, s) ==
    \/ r.counted = 0
    \/ /\ r.counted = 1
       /\ r.way \in {"up", "idle"}
       /\ \A i \in 1..Len(s) : i <= r.at => s[i].kind \notin {"breaker", "retry"}

OwnTimeout(r, s) ==
    /\ r.way = "wire" => r.at = Len(s) + 1
    /\ \A i \in 1..Len(s) : s[i].kind = "timeout" =>
          /\ r.way = "down" /\ i < r.at => r.timer = r.sent + 1
          /\ r.way = "wire" => r.timer = r.sent

CallOK(r, s) == r \in CallRecord /\ Untouched(r, s) /\ CountedOnce(r, s) /\ OwnTimeout(r, s)

(* For the chains that the factory makes of properties (or none at all).   *)
CallsInv ==
    dep.client.policy.kind # "static" =>
        /\ Len(chain) \in Nat /\ DOMAIN chain = 1..Len(chain) /\ InOrder(chain, 1, 5)
        /\ calls = [c \in Callers |-> calls[c]]
        /\ phase # "calling" => \A c \in Callers : calls[c] = NewCall(0)
        /\ \A c \in Callers : CallOK(calls[c], chain)

(* A call that has not begun is all right in every chain.                  *)
LEMMA NewCallOK ==
  ASSUME NEW n \in Nat, NEW s
  PROVE  CallOK(NewCall(n), s)
  BY DEF CallOK, NewCall, CallRecord, Results, Untouched, CountedOnce, OwnTimeout

(* The order of the chain, by kinds: what a kind has before it.            *)
LEMMA ChainOrder ==
  ASSUME NEW s, InOrder(s, 1, 5), NEW i \in 1..Len(s), NEW j \in 1..Len(s), i < j
  PROVE  /\ s[i].kind = "retry" => s[j].kind \notin {"rateLimit", "bulkhead", "breaker", "retry"}
         /\ s[i].kind = "breaker" => s[j].kind # "breaker"
         /\ s[i].kind = "timeout" => s[j].kind \notin Kinds
         /\ s[j].kind = "breaker" => s[i].kind \notin {"breaker", "retry"}
<1>1. Rank[s[i].kind] < Rank[s[j].kind]
  BY DEF InOrder
<1> QED
  BY <1>1 DEF Rank, Kinds

(* A step of one call: the others stay as they are.                        *)
LEMMA OneMoves ==
  ASSUME CallsInv, NEW c \in Callers, NEW r, Moved(c, r),
         dep.client.policy.kind # "static" => phase = "calling" /\ CallOK(r, chain),
         UNCHANGED <<dep, phase, chain>>
  PROVE  CallsInv'
<1> SUFFICES ASSUME dep.client.policy.kind # "static"
             PROVE  CallsInv'
  BY DEF CallsInv
<1>1. /\ calls = [x \in Callers |-> calls[x]] /\ \A x \in Callers : CallOK(calls[x], chain)
      /\ Len(chain) \in Nat /\ DOMAIN chain = 1..Len(chain) /\ InOrder(chain, 1, 5)
  BY DEF CallsInv
<1>2. calls' = [x \in Callers |-> IF x = c THEN r ELSE calls[x]]
  BY <1>1 DEF Moved
<1>3. \A x \in Callers : CallOK(calls'[x], chain)
  BY <1>1, <1>2
<1> HIDE DEF CallsInv
<1> QED
  BY <1>1, <1>2, <1>3 DEF CallsInv

(* Where a call stands, and what its interceptor is.                       *)
LEMMA Standing ==
  ASSUME CallsInv, dep.client.policy.kind # "static", NEW c \in Callers, NEW kind \in Kinds,
         Kind(c) = kind
  PROVE  /\ calls[c].at \in 1..Len(chain) /\ chain[calls[c].at].kind = kind
         /\ CallOK(calls[c], chain) /\ InOrder(chain, 1, 5) /\ Len(chain) \in Nat
  BY DEF CallsInv, Kind, Kinds

(* Fields keep their types.                                                *)
LEMMA StillRecord ==
  ASSUME NEW r \in CallRecord
  PROVE  /\ [r EXCEPT !.at = @ + 1] \in CallRecord
         /\ r.at # 0 => [r EXCEPT !.way = "up", !.at = @ - 1] \in CallRecord
         /\ \A v \in Results : [r EXCEPT !.result = v] \in CallRecord
         /\ \A n \in Nat : [r EXCEPT !.tries = n] \in CallRecord
         /\ \A n \in Nat : [r EXCEPT !.timer = n] \in CallRecord
         /\ [r EXCEPT !.counted = @ + 1] \in CallRecord
         /\ [r EXCEPT !.way = "wire", !.sent = @ + 1] \in CallRecord
         /\ [r EXCEPT !.way = "idle"] \in CallRecord
         /\ [r EXCEPT !.way = "down", !.at = @ + 1, !.tries = @ + 1, !.result = "none"] \in CallRecord
         /\ r.ops + 1 \in Nat /\ r.sent + 1 \in Nat
<1>1. r.at + 1 \in Nat /\ (r.at # 0 => r.at - 1 \in Nat) /\ r.sent + 1 \in Nat
      /\ r.tries + 1 \in Nat /\ r.counted + 1 \in Nat /\ r.ops + 1 \in Nat
  BY DEF CallRecord
<1>2. "none" \in Results
  BY DEF Results
<1> QED
  BY <1>1, <1>2 DEF CallRecord

(* Limiter, bulkhead and breaker pass a call on ...                        *)
LEMMA OkDown ==
  ASSUME NEW r, NEW s, CallOK(r, s), InOrder(s, 1, 5), Len(s) \in Nat,
         r.way = "down", r.at \in 1..Len(s), s[r.at].kind \in {"rateLimit", "bulkhead", "breaker"}
  PROVE  CallOK([r EXCEPT !.at = @ + 1], s)
<1> DEFINE q == [r EXCEPT !.at = @ + 1]
<1>1. r \in CallRecord /\ Untouched(r, s) /\ CountedOnce(r, s) /\ OwnTimeout(r, s)
  BY DEF CallOK
<1>2. q \in CallRecord
  BY <1>1, StillRecord
<1>3. Untouched(q, s)
  BY <1>1, ChainOrder DEF CallRecord, Results, Untouched
<1>4. CountedOnce(q, s)
  BY <1>1, ChainOrder DEF CallRecord, CountedOnce
<1>5. OwnTimeout(q, s)
  BY <1>1, ChainOrder DEF CallRecord, OwnTimeout, Kinds
<1> QED
  BY <1>2, <1>3, <1>4, <1>5 DEF CallOK

(* ... or turn it away.                                                    *)
LEMMA OkRefused ==
  ASSUME NEW r, NEW s, CallOK(r, s), InOrder(s, 1, 5), Len(s) \in Nat,
         r.way = "down", r.at \in 1..Len(s), s[r.at].kind \in {"rateLimit", "bulkhead", "breaker"}
  PROVE  CallOK([[r EXCEPT !.way = "up", !.at = @ - 1] EXCEPT !.result = "refused"], s)
<1> DEFINE q == [[r EXCEPT !.way = "up", !.at = @ - 1] EXCEPT !.result = "refused"]
<1>1. r \in CallRecord /\ Untouched(r, s) /\ CountedOnce(r, s) /\ OwnTimeout(r, s)
  BY DEF CallOK
<1>2. q \in CallRecord
  <2>1. r.at # 0
    OBVIOUS
  <2>2. [r EXCEPT !.way = "up", !.at = @ - 1] \in CallRecord
    BY <1>1, <2>1, StillRecord
  <2> QED
    BY <2>2, StillRecord DEF Results
<1>3. Untouched(q, s)
  BY <1>1, ChainOrder DEF CallRecord, Results, Untouched
<1>4. CountedOnce(q, s)
  BY <1>1, ChainOrder DEF CallRecord, CountedOnce
<1>5. OwnTimeout(q, s)
  BY <1>1, ChainOrder DEF CallRecord, OwnTimeout, Kinds
<1> QED
  BY <1>2, <1>3, <1>4, <1>5 DEF CallOK

(* Retry begins to count.                                                  *)
LEMMA OkRetryDown ==
  ASSUME NEW r, NEW s, CallOK(r, s), InOrder(s, 1, 5), Len(s) \in Nat,
         r.way = "down", r.at \in 1..Len(s), s[r.at].kind = "retry"
  PROVE  CallOK([[r EXCEPT !.at = @ + 1] EXCEPT !.tries = 1], s)
<1> DEFINE q == [[r EXCEPT !.at = @ + 1] EXCEPT !.tries = 1]
<1>1. r \in CallRecord /\ Untouched(r, s) /\ CountedOnce(r, s) /\ OwnTimeout(r, s)
  BY DEF CallOK
<1>2. q \in CallRecord
  <2>1. [r EXCEPT !.at = @ + 1] \in CallRecord /\ r.sent + 1 \in Nat
    BY <1>1, StillRecord
  <2> QED
    BY <2>1, StillRecord
<1>3. Untouched(q, s)
  BY <1>1, ChainOrder DEF CallRecord, Results, Untouched
<1>4. CountedOnce(q, s)
  BY <1>1, ChainOrder DEF CallRecord, CountedOnce
<1>5. OwnTimeout(q, s)
  BY <1>1, ChainOrder DEF CallRecord, OwnTimeout, Kinds
<1> QED
  BY <1>2, <1>3, <1>4, <1>5 DEF CallOK

(* Timeout sets the deadline of the next attempt.                          *)
LEMMA OkTimeoutDown ==
  ASSUME NEW r, NEW s, CallOK(r, s), InOrder(s, 1, 5), Len(s) \in Nat,
         r.way = "down", r.at \in 1..Len(s), s[r.at].kind = "timeout"
  PROVE  CallOK([[r EXCEPT !.at = @ + 1] EXCEPT !.timer = r.sent + 1], s)
<1> DEFINE q == [[r EXCEPT !.at = @ + 1] EXCEPT !.timer = r.sent + 1]
<1>1. r \in CallRecord /\ Untouched(r, s) /\ CountedOnce(r, s) /\ OwnTimeout(r, s)
  BY DEF CallOK
<1>2. q \in CallRecord
  <2>1. [r EXCEPT !.at = @ + 1] \in CallRecord /\ r.sent + 1 \in Nat
    BY <1>1, StillRecord
  <2> QED
    BY <2>1, StillRecord
<1>3. Untouched(q, s)
  BY <1>1, ChainOrder DEF CallRecord, Results, Untouched
<1>4. CountedOnce(q, s)
  BY <1>1, ChainOrder DEF CallRecord, CountedOnce
<1>5. OwnTimeout(q, s)
  BY <1>1, ChainOrder DEF CallRecord, OwnTimeout, Kinds
<1> QED
  BY <1>2, <1>3, <1>4, <1>5 DEF CallOK

(* The client sends the request ...                                        *)
LEMMA OkSend ==
  ASSUME NEW r, NEW s, CallOK(r, s), InOrder(s, 1, 5), Len(s) \in Nat,
         r.way = "down", r.at = Len(s) + 1
  PROVE  CallOK([r EXCEPT !.way = "wire", !.sent = @ + 1], s)
<1> DEFINE q == [r EXCEPT !.way = "wire", !.sent = @ + 1]
<1>1. r \in CallRecord /\ Untouched(r, s) /\ CountedOnce(r, s) /\ OwnTimeout(r, s)
  BY DEF CallOK
<1>2. q \in CallRecord
  BY <1>1, StillRecord
<1>3. Untouched(q, s)
  BY <1>1, ChainOrder DEF CallRecord, Results, Untouched
<1>4. CountedOnce(q, s)
  BY <1>1, ChainOrder DEF CallRecord, CountedOnce
<1>5. OwnTimeout(q, s)
  BY <1>1, ChainOrder DEF CallRecord, OwnTimeout, Kinds
<1> QED
  BY <1>2, <1>3, <1>4, <1>5 DEF CallOK

(* ... and has an answer, or gives up.                                     *)
LEMMA OkReturns ==
  ASSUME NEW r, NEW s, CallOK(r, s), InOrder(s, 1, 5), Len(s) \in Nat,
         r.way = "wire", NEW v \in Results \ {"refused"}
  PROVE  CallOK([[r EXCEPT !.way = "up", !.at = @ - 1] EXCEPT !.result = v], s)
<1> DEFINE q == [[r EXCEPT !.way = "up", !.at = @ - 1] EXCEPT !.result = v]
<1>1. r \in CallRecord /\ Untouched(r, s) /\ CountedOnce(r, s) /\ OwnTimeout(r, s)
  BY DEF CallOK
<1>2. q \in CallRecord
  <2>1. r.at # 0
    BY <1>1 DEF OwnTimeout
  <2>2. [r EXCEPT !.way = "up", !.at = @ - 1] \in CallRecord
    BY <1>1, <2>1, StillRecord
  <2> QED
    BY <2>2, StillRecord
<1>3. Untouched(q, s)
  BY <1>1, ChainOrder DEF CallRecord, Results, Untouched
<1>4. CountedOnce(q, s)
  BY <1>1, ChainOrder DEF CallRecord, CountedOnce
<1>5. OwnTimeout(q, s)
  BY <1>1, ChainOrder DEF CallRecord, OwnTimeout, Kinds
<1> QED
  BY <1>2, <1>3, <1>4, <1>5 DEF CallOK

(* An interceptor passes the answer on.                                    *)
LEMMA OkUp ==
  ASSUME NEW r, NEW s, CallOK(r, s), InOrder(s, 1, 5), Len(s) \in Nat,
         r.way = "up", r.at \in 1..Len(s)
  PROVE  CallOK([r EXCEPT !.way = "up", !.at = @ - 1], s)
<1> DEFINE q == [r EXCEPT !.way = "up", !.at = @ - 1]
<1>1. r \in CallRecord /\ Untouched(r, s) /\ CountedOnce(r, s) /\ OwnTimeout(r, s)
  BY DEF CallOK
<1>2. q \in CallRecord
  <2>1. r.at # 0
    OBVIOUS
  <2> QED
    BY <1>1, <2>1, StillRecord
<1>3. Untouched(q, s)
  BY <1>1, ChainOrder DEF CallRecord, Results, Untouched
<1>4. CountedOnce(q, s)
  BY <1>1, ChainOrder DEF CallRecord, CountedOnce
<1>5. OwnTimeout(q, s)
  BY <1>1, ChainOrder DEF CallRecord, OwnTimeout, Kinds
<1> QED
  BY <1>2, <1>3, <1>4, <1>5 DEF CallOK

(* Timeout drops the deadline.                                             *)
LEMMA OkTimeoutUp ==
  ASSUME NEW r, NEW s, CallOK(r, s), InOrder(s, 1, 5), Len(s) \in Nat,
         r.way = "up", r.at \in 1..Len(s)
  PROVE  CallOK([[r EXCEPT !.way = "up", !.at = @ - 1] EXCEPT !.timer = 0], s)
<1> DEFINE q == [[r EXCEPT !.way = "up", !.at = @ - 1] EXCEPT !.timer = 0]
<1>1. r \in CallRecord /\ Untouched(r, s) /\ CountedOnce(r, s) /\ OwnTimeout(r, s)
  BY DEF CallOK
<1>2. q \in CallRecord
  <2>1. r.at # 0
    OBVIOUS
  <2>2. [r EXCEPT !.way = "up", !.at = @ - 1] \in CallRecord
    BY <1>1, <2>1, StillRecord
  <2> QED
    BY <2>2, StillRecord
<1>3. Untouched(q, s)
  BY <1>1, ChainOrder DEF CallRecord, Results, Untouched
<1>4. CountedOnce(q, s)
  BY <1>1, ChainOrder DEF CallRecord, CountedOnce
<1>5. OwnTimeout(q, s)
  BY <1>1, ChainOrder DEF CallRecord, OwnTimeout, Kinds
<1> QED
  BY <1>2, <1>3, <1>4, <1>5 DEF CallOK

(* Retry sends a call down once more.                                      *)
LEMMA OkRetryAgain ==
  ASSUME NEW r, NEW s, CallOK(r, s), InOrder(s, 1, 5), Len(s) \in Nat,
         r.way = "up", r.at \in 1..Len(s), s[r.at].kind = "retry"
  PROVE  CallOK([r EXCEPT !.way = "down", !.at = @ + 1, !.tries = @ + 1,
                           !.result = "none"], s)
<1> DEFINE q == [r EXCEPT !.way = "down", !.at = @ + 1, !.tries = @ + 1,
                           !.result = "none"]
<1>1. r \in CallRecord /\ Untouched(r, s) /\ CountedOnce(r, s) /\ OwnTimeout(r, s)
  BY DEF CallOK
<1>2. q \in CallRecord
  BY <1>1, StillRecord
<1>3. Untouched(q, s)
  BY <1>1, ChainOrder DEF CallRecord, Results, Untouched
<1>4. CountedOnce(q, s)
  BY <1>1, ChainOrder DEF CallRecord, CountedOnce
<1>5. OwnTimeout(q, s)
  BY <1>1, ChainOrder DEF CallRecord, OwnTimeout, Kinds
<1> QED
  BY <1>2, <1>3, <1>4, <1>5 DEF CallOK

(* The breaker counts a call.                                              *)
LEMMA OkBreakerUp ==
  ASSUME NEW r, NEW s, CallOK(r, s), InOrder(s, 1, 5), Len(s) \in Nat,
         r.way = "up", r.at \in 1..Len(s), s[r.at].kind = "breaker"
  PROVE  CallOK([[r EXCEPT !.way = "up", !.at = @ - 1] EXCEPT !.counted = @ + 1], s)
<1> DEFINE q == [[r EXCEPT !.way = "up", !.at = @ - 1] EXCEPT !.counted = @ + 1]
<1>1. r \in CallRecord /\ Untouched(r, s) /\ CountedOnce(r, s) /\ OwnTimeout(r, s)
  BY DEF CallOK
<1>2. q \in CallRecord
  <2>1. r.at # 0
    OBVIOUS
  <2>2. [r EXCEPT !.way = "up", !.at = @ - 1] \in CallRecord
    BY <1>1, <2>1, StillRecord
  <2> QED
    BY <1>1, <2>2, StillRecord
<1>3. Untouched(q, s)
  BY <1>1, ChainOrder DEF CallRecord, Results, Untouched
<1>4. CountedOnce(q, s)
  BY <1>1, ChainOrder DEF CallRecord, CountedOnce
<1>5. OwnTimeout(q, s)
  BY <1>1, ChainOrder DEF CallRecord, OwnTimeout, Kinds
<1> QED
  BY <1>2, <1>3, <1>4, <1>5 DEF CallOK

(* The call returns to the application.                                    *)
LEMMA OkFinish ==
  ASSUME NEW r, NEW s, CallOK(r, s), InOrder(s, 1, 5), Len(s) \in Nat,
         r.way = "up", r.at = 0
  PROVE  CallOK([r EXCEPT !.way = "idle"], s)
<1> DEFINE q == [r EXCEPT !.way = "idle"]
<1>1. r \in CallRecord /\ Untouched(r, s) /\ CountedOnce(r, s) /\ OwnTimeout(r, s)
  BY DEF CallOK
<1>2. q \in CallRecord
  BY <1>1, StillRecord
<1>3. Untouched(q, s)
  BY <1>1, ChainOrder DEF CallRecord, Results, Untouched
<1>4. CountedOnce(q, s)
  BY <1>1, ChainOrder DEF CallRecord, CountedOnce
<1>5. OwnTimeout(q, s)
  BY <1>1, ChainOrder DEF CallRecord, OwnTimeout, Kinds
<1> QED
  BY <1>2, <1>3, <1>4, <1>5 DEF CallOK

(* The next call begins.                                                   *)
LEMMA OkInvoke ==
  ASSUME NEW r, NEW s, CallOK(r, s), InOrder(s, 1, 5), Len(s) \in Nat,
         r.way = "idle"
  PROVE  CallOK([NewCall(r.ops + 1) EXCEPT !.at = 1, !.way = "down"], s)
<1> DEFINE q == [NewCall(r.ops + 1) EXCEPT !.at = 1, !.way = "down"]
<1>1. r \in CallRecord /\ Untouched(r, s) /\ CountedOnce(r, s) /\ OwnTimeout(r, s)
  BY DEF CallOK
<1>2. r.ops + 1 \in Nat
  BY <1>1, StillRecord
<1>3. q \in CallRecord /\ Untouched(q, s) /\ CountedOnce(q, s)
  BY <1>2 DEF NewCall, CallRecord, Results, Untouched, CountedOnce
<1>4. OwnTimeout(q, s)
  BY DEF NewCall, OwnTimeout
<1> QED
  BY <1>3, <1>4 DEF CallOK

-----------------------------------------------------------------------------
(* A call under way means that the client is connected.                    *)
LEMMA UnderWay ==
  ASSUME CallsInv, dep.client.policy.kind # "static", NEW c \in Callers, calls[c].way # "idle"
  PROVE  /\ phase = "calling"
         /\ CallOK(calls[c], chain) /\ InOrder(chain, 1, 5) /\ Len(chain) \in Nat
  BY DEF CallsInv, NewCall

(* What the goroutine of a call does on its way down ...                   *)
LEMMA DescentKept ==
  ASSUME CallsInv, UNCHANGED <<dep, phase>>, NEW c \in Callers,
         \/ RateLimitDown(c) \/ BulkheadDown(c) \/ BreakerDown(c) \/ RetryDown(c)
         \/ TimeoutDown(c) \/ Send(c)
  PROVE  CallsInv'
<1> DEFINE r == calls[c]
<1>1. CASE RateLimitDown(c) \/ BulkheadDown(c) \/ BreakerDown(c)
  <2>1. Moved(c, Down(c)) \/ Moved(c, Refused(c))
    BY <1>1 DEF RateLimitDown, BulkheadDown, BreakerDown
  <2>2. ASSUME dep.client.policy.kind # "static"
        PROVE  phase = "calling" /\ CallOK(Down(c), chain) /\ CallOK(Refused(c), chain)
    <3>1. r.way = "down" /\ \E k \in {"rateLimit", "bulkhead", "breaker"} : Kind(c) = k
      BY <1>1 DEF RateLimitDown, BulkheadDown, BreakerDown, Descending
    <3>2. /\ r.at \in 1..Len(chain)
          /\ chain[r.at].kind \in {"rateLimit", "bulkhead", "breaker"}
          /\ CallOK(r, chain) /\ InOrder(chain, 1, 5) /\ Len(chain) \in Nat
      BY <2>2, <3>1, Standing DEF Kinds
    <3>3. phase = "calling"
      BY <2>2, <3>1, UnderWay
    <3> QED
      BY <3>1, <3>2, <3>3, OkDown, OkRefused DEF Down, Refused, Up
  <2> QED
    BY <1>1, <2>1, <2>2, OneMoves DEF RateLimitDown, BulkheadDown, BreakerDown
<1>2. CASE RetryDown(c)
  <2>1. ASSUME dep.client.policy.kind # "static"
        PROVE  phase = "calling" /\ CallOK([Down(c) EXCEPT !.tries = 1], chain)
    <3>1. r.way = "down" /\ Kind(c) = "retry" /\ "retry" \in Kinds
      BY <1>2 DEF RetryDown, Descending, Kinds
    <3>2. /\ r.at \in 1..Len(chain) /\ chain[r.at].kind = "retry"
          /\ CallOK(r, chain) /\ InOrder(chain, 1, 5) /\ Len(chain) \in Nat
      BY <2>1, <3>1, Standing
    <3>3. phase = "calling"
      BY <2>1, <3>1, UnderWay
    <3> QED
      BY <3>1, <3>2, <3>3, OkRetryDown DEF Down
  <2> QED
    BY <1>2, <2>1, OneMoves DEF RetryDown
<1>3. CASE TimeoutDown(c)
  <2>1. ASSUME dep.client.policy.kind # "static"
        PROVE  phase = "calling" /\ CallOK([Down(c) EXCEPT !.timer = calls[c].sent + 1], chain)
    <3>1. r.way = "down" /\ Kind(c) = "timeout" /\ "timeout" \in Kinds
      BY <1>3 DEF TimeoutDown, Descending, Kinds
    <3>2. /\ r.at \in 1..Len(chain) /\ chain[r.at].kind = "timeout"
          /\ CallOK(r, chain) /\ InOrder(chain, 1, 5) /\ Len(chain) \in Nat
      BY <2>1, <3>1, Standing
    <3>3. phase = "calling"
      BY <2>1, <3>1, UnderWay
    <3> QED
      BY <3>1, <3>2, <3>3, OkTimeoutDown DEF Down
  <2> QED
    BY <1>3, <2>1, OneMoves DEF TimeoutDown
<1>4. CASE Send(c)
  <2>1. ASSUME dep.client.policy.kind # "static"
        PROVE  phase = "calling" /\ CallOK([calls[c] EXCEPT !.way = "wire", !.sent = @ + 1], chain)
    <3>1. r.way = "down" /\ r.at = Len(chain) + 1
      BY <1>4 DEF Send
    <3>2. phase = "calling" /\ CallOK(r, chain) /\ InOrder(chain, 1, 5) /\ Len(chain) \in Nat
      BY <2>1, <3>1, UnderWay
    <3> QED
      BY <3>1, <3>2, OkSend
  <2> QED
    BY <1>4, <2>1, OneMoves DEF Send
<1> QED
  BY <1>1, <1>2, <1>3, <1>4

(* ... when an attempt ends ...                                            *)
LEMMA ReturnKept ==
  ASSUME CallsInv, UNCHANGED <<dep, phase>>, NEW c \in Callers,
         NEW v \in Results \ {"refused"}, Returns(c, v)
  PROVE  CallsInv'
<1>1. ASSUME dep.client.policy.kind # "static"
      PROVE  phase = "calling" /\ CallOK([Up(c) EXCEPT !.result = v], chain)
  <2>1. calls[c].way = "wire"
    BY DEF Returns
  <2>2. phase = "calling" /\ CallOK(calls[c], chain) /\ InOrder(chain, 1, 5) /\ Len(chain) \in Nat
    BY <1>1, <2>1, UnderWay
  <2> QED
    BY <2>1, <2>2, OkReturns DEF Up
<1> QED
  BY <1>1, OneMoves DEF Returns

(* ... and on its way up.                                                  *)
LEMMA AscentKept ==
  ASSUME CallsInv, UNCHANGED <<dep, phase>>, NEW c \in Callers,
         PassUp(c) \/ TimeoutUp(c) \/ RetryUp(c) \/ BreakerUp(c) \/ Finish(c)
  PROVE  CallsInv'
<1> DEFINE r == calls[c]
<1>1. ASSUME dep.client.policy.kind # "static", NEW k \in Kinds, Ascending(c, k)
      PROVE  /\ r.way = "up" /\ r.at \in 1..Len(chain) /\ chain[r.at].kind = k
             /\ CallOK(r, chain) /\ InOrder(chain, 1, 5) /\ Len(chain) \in Nat
             /\ phase = "calling"
  BY <1>1, Standing, UnderWay DEF Ascending
<1>2. CASE PassUp(c)
  <2>1. ASSUME dep.client.policy.kind # "static"
        PROVE  phase = "calling" /\ CallOK(Up(c), chain)
    <3>1. PICK k \in Kinds : Ascending(c, k)
      BY <1>2 DEF PassUp, Kinds
    <3> QED
      BY <1>1, <2>1, <3>1, OkUp DEF Up
  <2> QED
    BY <1>2, <2>1, OneMoves DEF PassUp
<1>3. CASE TimeoutUp(c)
  <2>1. ASSUME dep.client.policy.kind # "static"
        PROVE  phase = "calling" /\ CallOK([Up(c) EXCEPT !.timer = 0], chain)
    <3>1. "timeout" \in Kinds /\ Ascending(c, "timeout")
      BY <1>3 DEF TimeoutUp, Kinds
    <3> QED
      BY <1>1, <2>1, <3>1, OkTimeoutUp DEF Up
  <2> QED
    BY <1>3, <2>1, OneMoves DEF TimeoutUp
<1>4. CASE RetryUp(c)
  <2> DEFINE again == [calls[c] EXCEPT !.way = "down", !.at = @ + 1, !.tries = @ + 1,
                                       !.result = "none"]
  <2>1. ASSUME dep.client.policy.kind # "static"
        PROVE  phase = "calling" /\ CallOK(Up(c), chain) /\ CallOK(again, chain)
    <3>1. "retry" \in Kinds /\ Ascending(c, "retry")
      BY <1>4 DEF RetryUp, Kinds
    <3> QED
      BY <1>1, <2>1, <3>1, OkUp, OkRetryAgain DEF Up
  <2>2. Moved(c, again) \/ Moved(c, Up(c))
    BY <1>4 DEF RetryUp
  <2> QED
    BY <1>4, <2>1, <2>2, OneMoves DEF RetryUp
<1>5. CASE BreakerUp(c)
  <2>1. ASSUME dep.client.policy.kind # "static"
        PROVE  phase = "calling" /\ CallOK([Up(c) EXCEPT !.counted = @ + 1], chain)
    <3>1. "breaker" \in Kinds /\ Ascending(c, "breaker")
      BY <1>5 DEF BreakerUp, Kinds
    <3> QED
      BY <1>1, <2>1, <3>1, OkBreakerUp DEF Up
  <2> QED
    BY <1>5, <2>1, OneMoves DEF BreakerUp
<1>6. CASE Finish(c)
  <2>1. ASSUME dep.client.policy.kind # "static"
        PROVE  phase = "calling" /\ CallOK([calls[c] EXCEPT !.way = "idle"], chain)
    <3>1. r.way = "up" /\ r.at = 0
      BY <1>6 DEF Finish
    <3>2. phase = "calling" /\ CallOK(r, chain) /\ InOrder(chain, 1, 5) /\ Len(chain) \in Nat
      BY <2>1, <3>1, UnderWay
    <3> QED
      BY <3>1, <3>2, OkFinish
  <2> QED
    BY <1>6, <2>1, OneMoves DEF Finish
<1> QED
  BY <1>2, <1>3, <1>4, <1>5, <1>6

(* A goroutine calls.                                                      *)
LEMMA InvokeKept ==
  ASSUME CallsInv, UNCHANGED <<dep, phase>>, NEW c \in Callers, phase = "calling", Invoke(c)
  PROVE  CallsInv'
<1>1. ASSUME dep.client.policy.kind # "static"
      PROVE  CallOK([NewCall(calls[c].ops + 1) EXCEPT !.at = 1, !.way = "down"], chain)
  <2>1. calls[c].way = "idle" /\ CallOK(calls[c], chain) /\ InOrder(chain, 1, 5) /\ Len(chain) \in Nat
    BY <1>1 DEF CallsInv, Invoke
  <2> QED
    BY <2>1, OkInvoke
<1> QED
  BY <1>1, OneMoves DEF Invoke

(* Object installs the chain before any call.                              *)
LEMMA ChainInstalled ==
  ASSUME CallsInv, WiringInv, NewClient
  PROVE  CallsInv'
<1> SUFFICES ASSUME dep.client.policy.kind # "static"
             PROVE  CallsInv'
  BY DEF CallsInv, NewClient
<1>1. /\ phase = "client" /\ dep' = dep /\ calls' = calls /\ phase' # "calling"
      /\ chain' = chain \/ chain' = Policy(Client.policy)
  BY DEF NewClient
<1>2. /\ calls = [c \in Callers |-> calls[c]] /\ \A c \in Callers : calls[c] = NewCall(0)
      /\ Len(chain) \in Nat /\ DOMAIN chain = 1..Len(chain) /\ InOrder(chain, 1, 5)
  BY <1>1 DEF CallsInv
<1>3. Client.policy = dep.client.policy
  BY DeploymentAssumption DEF WiringInv, Client
<1>4. \/ Policy(Client.policy) = Interceptors(Client.policy.props)
      \/ Policy(Client.policy) = <<>>
  BY <1>3 DEF Policy
<1>5. Len(<<>>) \in Nat /\ DOMAIN <<>> = 1..Len(<<>>) /\ InOrder(<<>>, 1, 5)
  BY DEF InOrder
<1>6. Len(chain') \in Nat /\ DOMAIN chain' = 1..Len(chain') /\ InOrder(chain', 1, 5)
  BY <1>1, <1>2, <1>4, <1>5, FactoryOrder
<1>7. \A c \in Callers : CallOK(NewCall(0), chain')
  BY NewCallOK
<1> HIDE DEF CallsInv
<1> QED
  BY <1>1, <1>2, <1>6, <1>7 DEF CallsInv

(* Every step keeps the invariant of the calls.                            *)
LEMMA CallsStep == ASSUME CallsInv, WiringInv, [Next]_vars PROVE CallsInv'
<1>1. CASE UNCHANGED <<dep, chain, calls>> /\ (phase' # "calling" => phase # "calling")
  BY <1>1 DEF CallsInv
<1>2. CASE Bind \/ Connect
  BY <1>1, <1>2 DEF Bind, Connect, governance
<1>3. CASE NewClient
  BY <1>3, ChainInstalled
<1>4. CASE Passing \/ Idle \/ UNCHANGED vars
  BY <1>1, <1>4 DEF Passing, Idle, Refill, Cooldown, vars, wiring, governance
<1>5. ASSUME NEW c \in Callers, Call(c) \/ InCall(c) \/ Execute(c) \/ ClientTimeout(c)
      PROVE  CallsInv'
  <2>1. UNCHANGED <<dep, phase>>
    BY <1>5 DEF Call, InCall, Execute, ClientTimeout, wiring
  <2>2. CASE Call(c)
    BY <2>1, <2>2, InvokeKept DEF Call
  <2>3. CASE Expire(c) \/ ClientTimeout(c)
    BY <2>1, <2>3, ReturnKept DEF Expire, ClientTimeout, Results
  <2>4. CASE Execute(c)
    <3>1. PICK v \in Results \ {"refused"} : Returns(c, v)
      BY <2>4 DEF Execute, Behaviour, Results
    <3> QED
      BY <2>1, <3>1, ReturnKept
  <2>5. CASE InCall(c)
    BY <2>1, <2>3, <2>5, DescentKept, AscentKept DEF InCall, Proceed
  <2> QED
    BY <1>5, <2>2, <2>3, <2>4, <2>5
<1> QED
  BY <1>2, <1>3, <1>4, <1>5 DEF Next

(* The invariant of the calls, for any number of callers, deployments and  *)
(* attempts.                                                               *)
THEOREM CallsInvariant == Spec => []CallsInv
<1>1. Init => CallsInv
  <2> SUFFICES ASSUME Init PROVE CallsInv
    OBVIOUS
  <2>1. Len(chain) \in Nat /\ DOMAIN chain = 1..Len(chain) /\ InOrder(chain, 1, 5)
    BY DEF Init, InOrder
  <2>2. /\ calls = [c \in Callers |-> calls[c]]
        /\ \A c \in Callers : calls[c] = NewCall(0)
    BY DEF Init
  <2>3. CallOK(NewCall(0), chain)
    BY NewCallOK
  <2> QED
    BY <2>1, <2>2, <2>3 DEF CallsInv
<1> QED
  BY <1>1, CallsStep, WiringInvariant, PTL DEF Spec

(* A call that the limiter, the bulkhead or the breaker of a client turns  *)
(* away has not reached the server: in the order of resilience.go, Object, *)
(* whatever is configured and however the callers interleave.  A chain     *)
(* that the application puts together itself ("static") may be any.        *)
THEOREM RefusedNeverSent ==
  Spec => [](dep.client.policy.kind # "static" => RefusedUntouched)
<1>1. CallsInv => (dep.client.policy.kind # "static" => RefusedUntouched)
  BY DEF CallsInv, CallOK, Untouched, RefusedUntouched
<1> QED
  BY <1>1, CallsInvariant, PTL

(* The breaker takes note of a call at most once, after its last attempt:  *)
(* resilience.go puts it outside Retry.                                    *)
THEOREM OperationsCountedOnce ==
  Spec => [](dep.client.policy.kind # "static" => BreakerCountsOperations)
<1>1. CallsInv => (dep.client.policy.kind # "static" => BreakerCountsOperations)
  BY DEF CallsInv, CallOK, CountedOnce, BreakerCountsOperations
<1> QED
  BY <1>1, CallsInvariant, PTL

(* Every attempt on the wire runs against a deadline set for itself:       *)
(* resilience.go puts Timeout innermost.                                   *)
THEOREM EachAttemptTimed ==
  Spec => [](dep.client.policy.kind # "static" => AttemptsHaveOwnTimeout)
<1>1. CallsInv => (dep.client.policy.kind # "static" => AttemptsHaveOwnTimeout)
  BY DEF CallsInv, CallOK, OwnTimeout, AttemptsHaveOwnTimeout, Has
<1> QED
  BY <1>1, CallsInvariant, PTL
=============================================================================
