----------------------------- MODULE GrpcFactory -----------------------------
(***************************************************************************)
(* The gRPC side of a deployment: the server that grpc_server_factory.go   *)
(* builds from the beans of its container, the client connection of        *)
(* grpc_client_factory.go, and what a call of one meets in the other.  The *)
(* routing and the transport of grpc-go are external.                      *)
(*                                                                         *)
(* Settings g: tls, bind (see Address), interceptors (in the order of      *)
(* their injection, [name, order, unary, stream]: whether they supply one),*)
(* services, options, exempt; client: tls, name, connect, binds.           *)
(* A method is <<"/", service, method>>.                                   *)
(***************************************************************************)
EXTENDS Auth, SequencesExt

Address(host, port) == [host |-> host, port |-> port]
NoAddress == Address("", 0)

-----------------------------------------------------------------------------
(* unaryInterceptors, streamInterceptors: sort.SliceStable by BeanOrder,   *)
(* and what supplies no function is left out.                              *)
Before(list, i, j) ==
    list[i].order < list[j].order \/ (list[i].order = list[j].order /\ i < j)

(* The one sequence of these numbers of list in that order (as a set).     *)
Sorted(list, numbers) ==
    {s \in SetToSeqs(numbers) : \A i, j \in DOMAIN s : i < j => Before(list, s[i], s[j])}

UnaryInterceptors(g) ==
    Sorted(g.interceptors, {i \in DOMAIN g.interceptors : g.interceptors[i].unary})
StreamInterceptors(g) ==
    Sorted(g.interceptors, {i \in DOMAIN g.interceptors : g.interceptors[i].stream})

(* The interceptors of a call, by their numbers.                           *)
Interceptors(g, kind) ==
    IF kind = "stream" THEN StreamInterceptors(g) ELSE UnaryInterceptors(g)

(* Object: the services of the beans, then the built-in ones.              *)
RegisteredServices(g) ==
    g.services \cup (IF "health" \in g.options THEN {"health"} ELSE {})
               \cup (IF "reflection" \in g.options THEN {"reflection"} ELSE {})

(* registerHealth: the server and every service registered before it.      *)
HealthStatus(g, service) ==
    IF service \in g.services \cup {""} THEN "SERVING" ELSE "NotFound"

(* grpc-go looks the service up with or without the leading slash.         *)
ServiceOf(method) == IF method[1] = "/" THEN method[2] ELSE method[1]

-----------------------------------------------------------------------------
(* The auth interceptor.                                                   *)

(* Mutation: the property replaces the defaults.                           *)
ExemptReplaced(g) == g.exempt

(* PostConstruct: health and reflection, and the ones of grpc.auth.exempt. *)
ExemptPrefixes(g) == {<<"/", "health">>, <<"/", "reflection">>} \cup g.exempt

IsExempt(g, method) == \E p \in ExemptPrefixes(g) : IsPrefix(p, method)

(* authenticate: a malformed name, then the exempt methods, then the token.*)
RpcAuthenticate(g, a, method, cred) ==
    CASE method[1] # "/" -> "Unimplemented"
      [] method[1] = "/" /\ IsExempt(g, method) -> "exempt"
      [] OTHER -> LET v == GrpcVerdict(a, cred) IN IF v = "ok" THEN "ok" ELSE GrpcRefusal[v]

-----------------------------------------------------------------------------
(* GrpcClientFactory: its own address, or that of the server bean.         *)

ServerBean(name) == [i \in DOMAIN name |-> IF name[i] = "client" THEN "server" ELSE name[i]]

LocalizeAddr(addr) ==
    IF addr.host \in {"0.0.0.0", ""} THEN [addr EXCEPT !.host = "127.0.0.1"] ELSE addr

ConnectAddress(c) ==
    IF c.connect # NoAddress THEN c.connect
    ELSE IF ServerBean(c.name) \in DOMAIN c.binds THEN LocalizeAddr(c.binds[ServerBean(c.name)])
         ELSE NoAddress

(* dial: TLS if there is a *tls.Config; tokenAuth asks for it then only.   *)
TransportCreds(c) == IF c.tls THEN "tls" ELSE "insecure"
RequireTransportSecurity(c) == c.tls

(* Dial succeeds; the connection is made with the first call.              *)
Dials(c, cred) ==
    /\ ConnectAddress(c) # NoAddress
    /\ cred.header # "absent" /\ RequireTransportSecurity(c) => TransportCreds(c) = "tls"

Reaches(g) ==
    /\ ConnectAddress(g.client).port = g.bind.port
    /\ ConnectAddress(g.client).host = g.bind.host \/ g.bind.host \in {"0.0.0.0", ""}
    /\ g.client.tls = g.tls
=============================================================================
