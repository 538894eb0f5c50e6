--------------------------- MODULE RequestExamples ---------------------------
(* The servers of examples/auth and grpc/examples/echo, as RequestPath     *)
(* takes them.  Each is a program of its own; here they share a process.   *)
EXTENDS HttpFactory, GrpcFactory

(* Public: no middleware matches it.                                       *)
StatusHandler == [pattern |-> <<"/", "status">>, kind |-> "app"]

(* Answers with the identity it finds in the context.                      *)
MeHandler == [pattern |-> <<"/", "api", "/me">>, kind |-> "app"]

HealthHandler == [pattern |-> <<"/", "healthz">>, kind |-> "healthz"]

(* No interceptor: everybody may call, as "anonymous".                     *)
EchoServer == [tls |-> FALSE, bind |-> Address("0.0.0.0", 9090), services |-> {"echo"},
               options |-> {"health", "reflection"}, exempt |-> {}, interceptors |-> <<>>]

EchoClient == [tls |-> FALSE, name |-> <<"grpc", "client">>, binds |-> <<>>,
               connect |-> Address("127.0.0.1", 9090)]

Echo == [client |-> EchoClient] @@ EchoServer

AuthServer ==
    [address |-> TRUE, options |-> {"handlers"},
     handlers |-> <<StatusHandler, MeHandler, HealthHandler>>,
     order |-> [auth |-> 10], prefixes |-> [auth |-> {<<"/", "api">>}],
     resources |-> <<>>, exclude |-> {}, allow |-> {},
     auth |-> [provider |-> "jwt", keys |-> {"HMAC"}, key |-> "ours", parses |-> TRUE,
               issuer |-> "", audience |-> "", backend |-> "ok"],
     grpc |-> Echo]
=============================================================================
