----------------------------- MODULE MCValueRpc ------------------------------
(* The deployments of the value-rpc runs.                                  *)
EXTENDS ValueRpc, ValueExamples

Unix == [scheme |-> TRUE, network |-> "unix", host |-> "/app.sock", port |-> 1]
Ws == [scheme |-> TRUE, network |-> "ws", host |-> "0.0.0.0", port |-> 9000]
BareTcp == {Tcp("0.0.0.0", 9000), Tcp("", 9000), Tcp("10.0.0.1", 9000)}

Fickle == Service("RegisterFunctions", "greet", "fickle")
Refusing == [Fickle EXCEPT !.registers = FALSE]

Camouflage == TlscamoTransport

(* A client beside its server, each with every choice of optional beans.   *)
CoLocated ==
    {[server |-> [ServerAt(a, {v}) EXCEPT !.transport = st, !.obfs = so, !.guards = g],
      client |-> [ClientOf(NoAddress, "greet") EXCEPT
                     !.binds = (<<"value", "server">> :> a), !.transport = ct, !.obfs = co,
                     !.passes = p]] :
        a \in BareTcp \cup {Unix, Ws, NoAddress}, v \in {Fickle, Refusing},
        st \in {NoTransport, Camouflage}, ct \in {NoTransport, Camouflage},
        so \in {NoProfile, ObfsPolicy}, co \in {NoProfile, ObfsPolicy},
        g \in SUBSET {"authorizer", "authenticator"},
        p \in {{}, {"authorizer"}, {"authorizer", "authenticator"}}}

Elsewhere ==
    {[server |-> ServerAt(Tcp("0.0.0.0", 9000), {Fickle}), client |-> ClientOf(a, "greet")] :
        a \in {Tcp("127.0.0.1", 9000), Tcp("127.0.0.1", 9001), Unix}}

-----------------------------------------------------------------------------
Properties(props) == [kind |-> "properties", props |-> props]

Governed(policy, timeout) ==
    [server |-> ServerAt(Tcp("127.0.0.1", 9000), {Fickle}),
     client |-> [ClientOf(Tcp("127.0.0.1", 9000), "greet")
                    EXCEPT !.policy = policy, !.timeout = timeout]]

Every == "rate-limit.per-second" :> 10 @@ "rate-limit.burst" :> 2
         @@ "bulkhead.max-concurrent" :> 1 @@ "circuit-breaker.threshold" :> 1
         @@ "retry.max-attempts" :> 2 @@ "timeout-ms" :> 500

Breaking == "circuit-breaker.threshold" :> 2 @@ "retry.max-attempts" :> 3 @@ "timeout-ms" :> 500

Policies ==
    {Properties(Every), Properties(Breaking),
     Properties("rate-limit.per-second" :> 10), Properties("timeout-ms" :> 500),
     Properties("retry.max-attempts" :> 1), Properties("retry.max-attempts" :> 3),
     [kind |-> "static", chain |-> <<[kind |-> "retry", n |-> 2]>>]}

MCDeployments ==
    CoLocated \cup Elsewhere \cup Examples
        \cup {Governed(p, 0) : p \in Policies}
        \cup {Governed(p, 500) : p \in {NoPolicy, Properties("retry.max-attempts" :> 3)}}
=============================================================================
