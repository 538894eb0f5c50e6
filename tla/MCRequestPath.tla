---------------------------- MODULE MCRequestPath ----------------------------
(* Deployments and requests for RequestPath.                               *)
EXTENDS RequestPath, RequestExamples

MCExtensions == {".js", ".html"}

Root == <<"/">>
Api == <<"/", "api">>
Users == <<"/", "api", "/users">>
Public == <<"/", "public">>
Health == <<"/", "healthz">>
Images == <<"/", "images", "/list">>
Index == <<"/", "index", ".html">>
Script == <<"/", "app", ".js">>
Deep == <<"/", "profile">>
Lost == <<"/", "api", "/lost">>
NoFile == <<"/", "lost", ".js">>

-----------------------------------------------------------------------------
Tokens == [provider |-> "tokens", keys |-> {}, key |-> "", parses |-> TRUE,
           issuer |-> "", audience |-> "", backend |-> "ok"]

Jwt(keys, parses, issuer, audience) ==
    [provider |-> "jwt", keys |-> keys, key |-> "ours", parses |-> parses,
     issuer |-> issuer, audience |-> audience, backend |-> "ok"]

Custom(answer) == [Tokens EXCEPT !.provider = "custom", !.backend = answer]

BeanPrefixes == [m \in {"cors", "requestid", "ratelimit", "accesslog", "metrics"} |-> {Root}]
                @@ [auth |-> {Api}, gzip |-> {<<"/", "images">>}]

Handlers == <<[pattern |-> Users, kind |-> "app"], [pattern |-> Public, kind |-> "app"],
              [pattern |-> Users, kind |-> "healthz"], [pattern |-> Health, kind |-> "healthz"],
              [pattern |-> Images, kind |-> "app"], [pattern |-> Script, kind |-> "app"]>>

Plain(names) == [assets |-> TRUE, gzip |-> FALSE, names |-> names]
Packed(names) == [assets |-> TRUE, gzip |-> TRUE, names |-> names]

Resources == <<Plain({IndexName, <<"app", ".js">>}), Packed({IndexName, <<"min", ".js">>}),
               Plain({<<"app", ".js">>}),
               [assets |-> FALSE, gzip |-> FALSE, names |-> {<<"app", ".js">>}]>>

Bean(name, order, unary, stream) ==
    [name |-> name, order |-> order, unary |-> unary, stream |-> stream]

AuthBean(order) == Bean("auth", order, TRUE, TRUE)

Wildcard == Address("0.0.0.0", 9090)

GrpcClient == [tls |-> FALSE, name |-> <<"grpc", "client">>, connect |-> NoAddress,
               binds |-> <<"grpc", "server">> :> Wildcard]

Grpc == [tls |-> FALSE, bind |-> Wildcard, client |-> GrpcClient, services |-> {"echo"},
         options |-> {"health", "reflection"}, exempt |-> {},
         interceptors |-> <<Bean("audit", 10, TRUE, FALSE), AuthBean(10), Bean("trace", 5, TRUE, TRUE)>>]

(* Other beans and properties on the gRPC side.                            *)
Grpcs ==
    {[Grpc EXCEPT !.interceptors = <<Bean("audit", 20, TRUE, TRUE), AuthBean(10)>>,
                  !.exempt = {<<"/", "echo", "Public">>}, !.options = {"health"}],
     [Grpc EXCEPT !.tls = TRUE, !.client.tls = TRUE, !.bind = Address("10.0.0.1", 9090),
                  !.client.binds = <<"grpc", "server">> :> Address("10.0.0.1", 9090)],
     [Grpc EXCEPT !.tls = TRUE, !.options = {}],
     [Grpc EXCEPT !.client.connect = Address("127.0.0.1", 9091)],
     [Grpc EXCEPT !.client.binds = <<>>],
     [Grpc EXCEPT !.interceptors = <<>>, !.bind = Address("", 9090),
                  !.client.binds = <<"grpc", "server">> :> Address("", 9090)]}

Server(order, auth) ==
    [address |-> TRUE, options |-> {"handlers"}, handlers |-> Handlers, order |-> order,
     prefixes |-> BeanPrefixes, resources |-> <<>>, exclude |-> {Api}, allow |-> {"app"}, auth |-> auth,
     grpc |-> Grpc]

Site(options, resources) ==
    [Server(<<>>, Tokens) EXCEPT !.options = options, !.resources = resources, !.allow = {"*"}]

Tied(beans) == [m \in beans |-> 1]

Documented == [cors |-> 10, requestid |-> 20, auth |-> 30, ratelimit |-> 40,
               metrics |-> 50, accesslog |-> 60, gzip |-> 70]

MCDeployments ==
    {Server(Tied({"cors", "requestid", "auth", "accesslog", "gzip"}), Tokens),
     Server(Documented, Jwt({"HMAC"}, TRUE, "us", "app")),
     Server(Tied({"auth", "ratelimit", "metrics", "cors"}), Custom("unavailable")),
     Server(Tied({"auth", "accesslog"}), Custom("failure")),
     Server(Tied({"auth", "gzip"}), Jwt({"ECDSA"}, TRUE, "", "")),
     Server(Tied({"auth"}), Jwt(Families, TRUE, "", "")),
     Server(Tied({"auth"}), Jwt({"ECDSA"}, FALSE, "", "")),
     [Server(Tied({"auth"}), Tokens) EXCEPT !.address = FALSE],
     AuthServer}
    \cup {[Server(Tied({"auth"}), Jwt({"HMAC"}, TRUE, "", "")) EXCEPT !.grpc = g] : g \in Grpcs}
    \cup {Site(options, resources) :
            options \in SUBSET {"handlers", "assets", "spa"},
            resources \in {Resources, Tail(Resources), <<>>}}

-----------------------------------------------------------------------------
NoAnswers == [method |-> "", key |-> "", subject |-> <<>>, issuer |-> "", audience |-> "",
             roles |-> <<>>, scopes |-> <<>>, attrs |-> <<>>, expiry |-> [unit |-> "", n |-> 0]]

Flags == [privateKey |-> NoKey, secret |-> "ours", subject |-> <<"alice">>, issuer |-> "us",
          audience |-> "app", roles |-> <<<<"admin">>, <<>>, <<"power", "user">>>>,
          scopes |-> <<<<"read">>, <<"write">>>>, attrs |-> <<>>, interactive |-> FALSE,
          expiry |-> [unit |-> "h", n |-> 1], answers |-> NoAnswers]

Attr(k, v) == [key |-> k, value |-> v]

Runs ==
    {Flags,
     [Flags EXCEPT !.secret = NoKey, !.privateKey = KeyPair("ours").private],
     [Flags EXCEPT !.secret = NoKey, !.privateKey = "unparsable"],
     [Flags EXCEPT !.privateKey = "ours"], [Flags EXCEPT !.secret = NoKey],
     [Flags EXCEPT !.secret = "theirs"], [Flags EXCEPT !.subject = <<>>],
     [Flags EXCEPT !.scopes = <<>>, !.roles = <<>>, !.issuer = ""],
     [Flags EXCEPT !.attrs = <<Attr("email", <<"a@b">>)>>],
     [Flags EXCEPT !.attrs = <<Attr("", <<>>)>>],
     [Flags EXCEPT !.attrs = <<Attr("roles", <<"admin", "user">>), Attr("exp", <<"never">>)>>],
     [Flags EXCEPT !.interactive = TRUE, !.secret = NoKey, !.roles = <<>>, !.subject = <<>>,
                   !.answers = [NoAnswers EXCEPT !.method = "hmac", !.key = "ours",
                        !.subject = <<"bob">>, !.roles = <<<<"user">>>>,
                        !.expiry = [unit |-> "d", n |-> 365]]],
     [Flags EXCEPT !.interactive = TRUE, !.secret = NoKey,
                   !.answers = [NoAnswers EXCEPT !.key = "ours"]]}
    \cup {[Flags EXCEPT !.expiry = [unit |-> u, n |-> n]] :
            u \in {"d", "m"}, n \in {-7, 0, 7, 106751, 106752, 213504}}
    \cup {[Flags EXCEPT !.expiry = [unit |-> "h", n |-> n]] : n \in {2562047, 2562048}}
    \cup {[Flags EXCEPT !.expiry = [unit |-> "week", n |-> 1]]}

Good == [Signed(Flags) EXCEPT !.name = "alice", !.listed = TRUE,
            !.roles = [form |-> "list", items |-> <<<<"admin">>, NotText, <<"user">>>>]]

MCTokens ==
    {Good, [Good EXCEPT !.listed = FALSE, !.exp = [form |-> "date", minutes |-> -5]],
     [Good EXCEPT !.exp = Absent],
     [Good EXCEPT !.alg = "ECDSA", !.sub = Absent, !.roles = Text(<<"admin", "user">>),
                  !.scope = [form |-> "list", items |-> <<<<"read">>>>]],
     [Good EXCEPT !.listed = FALSE, !.key = "theirs"], [Good EXCEPT !.iss = Absent],
     [Good EXCEPT !.aud = Text(<<"other">>)], [Good EXCEPT !.nbf = Text(<<"soon">>)],
     [Good EXCEPT !.nbf = [form |-> "date", minutes |-> -5],
                  !.aud = [form |-> "list", items |-> <<<<"other">>, <<"app">>>>]],
     [Good EXCEPT !.aud = [form |-> "list", items |-> <<<<"app">>, NotText>>]],
     [Good EXCEPT !.nbf = [form |-> "date", minutes |-> 5]]}

Bearer(t) == [header |-> "bearer", token |-> t]

Credentials == {[header |-> "absent", token |-> Good], [header |-> "malformed", token |-> Good]}
               \cup {Bearer(t) : t \in MCTokens}

NoCredential == [header |-> "absent", token |-> Good]

(* What a run of the tool leaves its user with.                            *)
ToolCredential(asked) ==
    IF Fatal(Prompted(asked)) THEN NoCredential ELSE Bearer(Signed(Prompted(asked)))

Say == <<"/", "echo", "Say">>

Get(path) == [path |-> path, method |-> "GET", origin |-> "", cred |-> Bearer(Good),
              accept |-> TRUE, body |-> "plain", id |-> "", rpc |-> "none", rpcMethod |-> Say,
              probe |-> "", asked |-> {}]

MCRequests ==
    (* who may pass, over both transports *)
    {[Get(Users) EXCEPT !.method = m, !.origin = "app", !.cred = c, !.body = "gzip",
                        !.rpc = "stream"] :
        m \in {"GET", "OPTIONS"}, c \in Credentials}
    \cup {[Get(Users) EXCEPT !.cred = c, !.rpc = k, !.rpcMethod = r, !.probe = p] :
        c \in {Bearer(Good), NoCredential}, k \in {"unary", "stream"}, p \in {"", "reflection"},
        r \in {Say, Tail(Say), <<"/", "echo", "Public">>, <<"/", "health", "Check">>,
               <<"/", "reflection", "List">>, <<"/", "other", "Do">>}}
    (* tokens of the tool *)
    \cup {[Get(p) EXCEPT !.cred = ToolCredential(f), !.asked = {f}, !.rpc = "unary"] :
        p \in {Users, MeHandler.pattern, StatusHandler.pattern}, f \in Runs}
    (* what becomes of status and id *)
    \cup {[Get(Users) EXCEPT !.method = m, !.accept = a, !.body = b, !.id = i] :
        m \in {"GET", "HEAD"}, a \in BOOLEAN, b \in {"plain", "gzip", "broken"}, i \in {"", "given"}}
    (* which route *)
    \cup {[Get(p) EXCEPT !.method = m, !.origin = o, !.accept = a] :
        p \in {Public, Health, Images, Root, Index, Script, <<"/", "min", ".js">>, Deep, Lost, NoFile},
        m \in {"GET", "POST"}, o \in {"", "foreign"}, a \in BOOLEAN}

MCAnswers == {<<>>, <<404>>, <<200, 500>>}
=============================================================================
