---------------------------- MODULE ValueExamples ----------------------------
(***************************************************************************)
(* The deployments that vrpc/examples ship, as ValueRpc takes them.  Their *)
(* Transport beans are written by hand, listener and dialer separately;    *)
(* keys and certificates are made in main and shared by both ends.         *)
(***************************************************************************)
EXTENDS ValueTransport, TLC

Tcp(host, port) == [scheme |-> FALSE, network |-> "tcp", host |-> host, port |-> port]

Service(method, function, behaviour) ==
    [methods |-> {method}, function |-> function, behaviour |-> behaviour, registers |-> TRUE]

NoPolicy == [kind |-> "none"]

ServerAt(bind, services) ==
    [name |-> <<"value", "server">>, bind |-> bind, transport |-> NoTransport,
     obfs |-> NoProfile, guards |-> {}, services |-> services]

ClientOf(connect, function) ==
    [name |-> <<"value", "client">>, connect |-> connect, binds |-> <<>>,
     transport |-> NoTransport, obfs |-> NoProfile, passes |-> {}, timeout |-> 0,
     policy |-> NoPolicy, calls |-> function]

-----------------------------------------------------------------------------
(* Server and client are separate programs.                                *)

GreeterServer ==
    ServerAt(Tcp("0.0.0.0", 9100), {Service("RegisterFunctions", "greet", "greets")})

GreeterClient == ClientOf(Tcp("127.0.0.1", 9100), "greet")

(* Morpher mode: a SizeSampler is set.                                     *)
ObfsPolicy == "morpher"

ObfsServer ==
    [ServerAt(Tcp("0.0.0.0", 9200), {Service("RegisterFunctions", "greet", "greets")})
        EXCEPT !.obfs = ObfsPolicy]

ObfsClient == [ClientOf(Tcp("127.0.0.1", 9200), "greet") EXCEPT !.obfs = "morpher"]

FlakyServer ==
    ServerAt(Tcp("0.0.0.0", 9100), {Service("RegisterFunctions", "fetch", "flaky")})

ResilienceClient ==
    [ClientOf(Tcp("127.0.0.1", 9100), "fetch") EXCEPT
        !.policy = [kind |-> "properties",
                    props |-> "retry.max-attempts" :> 5 @@ "retry.backoff-ms" :> 20
                              @@ "retry.max-backoff-ms" :> 500
                              @@ "circuit-breaker.threshold" :> 10 @@ "timeout-ms" :> 2000]]

-----------------------------------------------------------------------------
(* One program: bind, serve, take the listener's address, connect, greet.  *)
Tunnel(t, service) ==
    [server |-> [ServerAt(Tcp("127.0.0.1", 0), {service}) EXCEPT !.transport = t],
     client |-> [ClientOf(Bound, "greet") EXCEPT !.transport = t]]

QuicTransport == [listener |-> <<"quic">>, dialer |-> <<"quic">>]
Quic == Tunnel(QuicTransport, Service("RegisterValue", "greet", "greets"))

(* An ordinary TLS server; only the looks of the client's hello differ.    *)
TlscamoTransport == [listener |-> <<"tcp", "tls">>, dialer |-> <<"tcp", "tls">>]
Tlscamo == Tunnel(TlscamoTransport, Service("RegisterValue", "greet", "greets"))

RealityTransport == [listener |-> <<"tcp", "reality">>, dialer |-> <<"tcp", "reality">>]
Reality == Tunnel(RealityTransport, Service("RegisterValue", "greet", "greets"))

(* Both ends shape the traffic inside the tunnel.                          *)
XrealityTransport ==
    [listener |-> <<"tcp", "xreality", "cells">>, dialer |-> <<"tcp", "xreality", "cells">>]
Xreality == Tunnel(XrealityTransport, Service("RegisterValue", "greet", "greets"))

XrayTransport == [listener |-> <<"tcp", "xrayreality">>, dialer |-> <<"tcp", "xrayreality">>]
Xray == Tunnel(XrayTransport, Service("RegisterValue", "greet", "greets"))

Examples ==
    {[server |-> GreeterServer, client |-> GreeterClient],
     [server |-> ObfsServer, client |-> ObfsClient],
     [server |-> FlakyServer, client |-> ResilienceClient],
     Quic, Tlscamo, Reality, Xreality, Xray}
=============================================================================
