----------------------------- MODULE RequestPath -----------------------------
(***************************************************************************)
(* One HTTP request through the server that HttpFactory builds: down the   *)
(* middlewares its route was wrapped with, to the handler, and up again.   *)
(* Each middleware may answer by itself, change the context or wrap the    *)
(* ResponseWriter.  Afterwards the same credential is presented once more  *)
(* in a gRPC call, to the interceptor with the same Authenticator.  The    *)
(* token may be one that jwttool has made.                                 *)
(***************************************************************************)
EXTENDS JwtTool, HttpFactory, GrpcFactory

CONSTANTS
    Deployments,    \* settings (see HttpFactory), with auth (see Auth), grpc
                    \* (see GrpcFactory) and allow, the origins CORS allows
    Requests,       \* records: path, method, origin ("" is none), cred,
                    \* accept, body, id ("" is none), rpc, rpcMethod, probe
                    \* (the service a health check is about), asked (the
                    \* flags jwttool made the token from, or none)
    Answers         \* codes a handler may pass to WriteHeader, in order

(* The middleware beans of servion.                                        *)
Middlewares == {"cors", "requestid", "auth", "ratelimit", "accesslog", "metrics", "gzip"}

ASSUME DeploymentAssumption ==
    \A d \in Deployments :
        /\ DOMAIN d.order \subseteq Middlewares
        /\ \A m \in DOMAIN d.order : d.order[m] \in Int
        /\ d.auth.backend \in {"ok", "unauthorized", "unavailable", "failure"}
        /\ d.handlers \in Seq([pattern : Seq(STRING), kind : {"app", "healthz"}])
        /\ d.resources \in Seq([assets : BOOLEAN, gzip : BOOLEAN, names : SUBSET Seq(STRING)])
        /\ \A i \in DOMAIN d.resources : IsFiniteSet(d.resources[i].names)

(* A name stands for one interceptor bean; the one of auth_interceptor.go  *)
(* supplies both functions.                                                *)
ASSUME GrpcAssumption ==
    \A d \in Deployments :
        LET beans == d.grpc.interceptors
        IN  /\ beans \in Seq([name : STRING, order : Int, unary : BOOLEAN, stream : BOOLEAN])
            /\ \A i, j \in DOMAIN beans : beans[i].name = beans[j].name => i = j
            /\ \A i \in DOMAIN beans : beans[i].name = "auth" => beans[i].unary /\ beans[i].stream
            /\ d.grpc.bind \in [host : STRING, port : Nat]

ASSUME RequestAssumption ==
    \A r \in Requests : r.rpcMethod \in Seq(STRING) /\ Len(r.rpcMethod) >= 2

(* A request that tells how jwttool was asked for its token presents the   *)
(* one that was printed.                                                   *)
ASSUME ToolAssumption ==
    \A r \in Requests : \A asked \in r.asked :
        LET f == Prompted(asked)
        IN  /\ ~Fatal(f) => r.cred = [header |-> "bearer", token |-> Signed(f)]
            /\ f.roles \in Seq(Texts) /\ f.scopes \in Seq(Texts)
            /\ f.expiry.n \in Int

ASSUME AnswersAssumption == Answers \subseteq Seq(Nat \ {0})

VARIABLES
    conf, chain, req,   \* the deployment, t.Middlewares sorted, the request
    phase,      \* "construct", "wrap", "route", "down", "up", "aborted", "answered",
                \* "failed" (no server), "closed"
    links, at,  \* the middlewares around the handler, the one whose turn it is
    ctx,        \* r.Context(): [auth, id]
    holding,    \* gzip has wrapped the ResponseWriter
    held,       \* adaptiveGzipWriter.status
    rec,        \* the recorders' statusWriter and the request they were given
    codes,      \* what reached net/http's WriteHeader
    header,     \* response headers: [cors, id, encoding]
    log,        \* what the recorders wrote
    visited,    \* history: the middlewares that ran, in order
    verdict,    \* history: what the auth middleware did
    ran,        \* history: what answered, and the context it saw
    rpc         \* the gRPC call: [status, auth, visited, handled]

place == <<conf, chain, req>>
response == <<holding, held, rec, codes, header, log>>
history == <<visited, verdict, ran>>
vars == <<place, phase, links, at, ctx, response, history, rpc>>

Recorders == {"accesslog", "metrics"}

(* statusWriter and metricsStatusWriter start with http.StatusOK.          *)
InitialStatus == 200

NoContext == [auth |-> Nobody, id |-> ""]

Init ==
    /\ conf \in Deployments
    /\ chain \in SortedMiddlewares(conf)
    /\ req \in Requests
    /\ phase = "construct"
    /\ links = <<>> /\ at = 0
    /\ ctx = NoContext
    /\ holding = FALSE /\ held = 0
    /\ rec = [k \in Recorders |-> [status |-> InitialStatus, id |-> ""]]
    /\ codes = <<>>
    /\ header = [cors |-> FALSE, id |-> "", encoding |-> "identity"]
    /\ log = [k \in Recorders |-> <<>>]
    /\ visited = <<>> /\ verdict = "none"
    /\ ran = [what |-> "nothing", number |-> 0, ctx |-> NoContext, wrote |-> <<>>]
    /\ rpc = [status |-> "none", auth |-> Nobody, visited |-> <<>>, handled |-> FALSE]

(* The status the client sees.                                             *)
Sent == IF codes = <<>> THEN 200 ELSE Head(codes)

-----------------------------------------------------------------------------
(* Writing the header from position pos: every wrapper above it hears the  *)
(* codes, up to the gzip writer, which keeps the first and sends nothing.  *)

Holds(i) == links[i] = "gzip" /\ holding

Hears(i, pos) == i < pos /\ \A j \in (i + 1)..(pos - 1) : ~Holds(j)

(* Mutation: the wrapper does not override WriteHeader.                    *)
NotRecorded(k, cs) == rec[k].status

Recorded(k, cs) == IF cs = <<>> THEN rec[k].status ELSE Last(cs)

WriteHeader(pos, cs) ==
    LET heard == {links[i] : i \in {j \in DOMAIN links : Hears(j, pos)}}
        kept == holding /\ "gzip" \in heard
    IN  /\ rec' = [k \in Recorders |->
                      IF k \in heard THEN [rec[k] EXCEPT !.status = Recorded(k, cs)]
                                     ELSE rec[k]]
        /\ held' = IF kept /\ held = 0 /\ cs # <<>> THEN Head(cs) ELSE held
        /\ codes' = IF kept THEN codes ELSE codes \o cs

-----------------------------------------------------------------------------
(* The container creates the beans; a provider that is not ready, or a     *)
(* server without an address, fails it.  Object then wraps every handler,  *)
(* the one of the request's path among them.                               *)
Construct ==
    /\ phase = "construct"
    /\ phase' = IF conf.address /\ ProviderReady(conf.auth) THEN "wrap" ELSE "failed"
    /\ at' = IF HandlerAt(conf, req.path) # 0 THEN Len(chain) ELSE 0
    /\ UNCHANGED <<place, links, ctx, response, history, rpc>>

(* for i := len(t.Middlewares) - 1; i >= 0; i--                            *)
Wrap ==
    /\ phase = "wrap"
    /\ at > 0
    /\ links' = Wrapped(conf, chain[at], req.path, links)
    /\ at' = at - 1
    /\ UNCHANGED <<place, phase, ctx, response, history, rpc>>

Listen ==
    /\ phase = "wrap"
    /\ at = 0
    /\ phase' = "route"
    /\ UNCHANGED <<place, links, at, ctx, response, history, rpc>>

(* mux routes the request to a handler, with its middlewares ...           *)
RouteHandler(to) ==
    /\ phase = "route"
    /\ to = "handler"
    /\ at' = 1
    /\ phase' = "down"
    /\ UNCHANGED <<place, links, ctx, response, history, rpc>>

(* ... an asset, which no middleware wraps; the fallback serves the index  *)
(* as "/" ...                                                              *)
ServeAsset(what, path) ==
    /\ codes' = <<AssetCode(conf, path, req.accept)>>
    /\ header' = [header EXCEPT !.encoding = AssetEncoding(conf, path, req.accept)]
    /\ ran' = [ran EXCEPT !.what = what, !.number = AssetServed(conf, path, req.accept)]
    /\ phase' = "answered"
    /\ UNCHANGED <<place, links, at, ctx, holding, held, rec, log, visited, verdict, rpc>>

RouteAsset(to) ==
    /\ phase = "route"
    /\ \/ to = "asset" /\ ServeAsset(to, req.path)
       \/ to = "index" /\ ServeAsset(to, <<"/">>)

(* ... or nothing.                                                         *)
RouteNotFound(to) ==
    /\ phase = "route"
    /\ to = "notFound"
    /\ codes' = <<404>>
    /\ phase' = "answered"
    /\ UNCHANGED <<place, links, at, ctx, holding, held, rec, header, log, history, rpc>>

-----------------------------------------------------------------------------
(* A middleware's turn: it passes the request on, or answers itself.       *)

Turn(kinds) ==
    /\ phase = "down"
    /\ at <= Len(links)
    /\ links[at] \in kinds
    /\ visited' = Append(visited, links[at])

PassOn ==
    /\ at' = at + 1
    /\ UNCHANGED <<place, phase, links, log, ran, rpc>>

Answer(code) ==
    /\ WriteHeader(at, <<code>>)
    /\ phase' = "up"
    /\ at' = at - 1
    /\ UNCHANGED <<place, links, ctx, holding, log, ran, rpc>>

(* isOriginAllowed                                                         *)
OriginAllowed == req.origin # "" /\ (req.origin \in conf.allow \/ "*" \in conf.allow)

CorsPass ==
    /\ Turn({"cors"})
    /\ ~(OriginAllowed /\ req.method = "OPTIONS")
    /\ header' = [header EXCEPT !.cors = OriginAllowed]
    /\ PassOn
    /\ UNCHANGED <<ctx, holding, held, rec, codes, verdict>>

CorsPreflight ==
    /\ Turn({"cors"})
    /\ OriginAllowed /\ req.method = "OPTIONS"
    /\ header' = [header EXCEPT !.cors = TRUE]
    /\ Answer(204)
    /\ UNCHANGED verdict

RequestId ==
    /\ Turn({"requestid"})
    /\ LET id == IF req.id = "" THEN "generated" ELSE req.id
       IN  /\ ctx' = [ctx EXCEPT !.id = id]
           /\ header' = [header EXCEPT !.id = id]
    /\ PassOn
    /\ UNCHANGED <<holding, held, rec, codes, verdict>>

AuthSkips == req.method = "OPTIONS"

AuthPass ==
    /\ Turn({"auth"})
    /\ \/ AuthSkips /\ UNCHANGED <<ctx, verdict>>
       \/ /\ ~AuthSkips
          /\ HttpVerdict(conf.auth, req.cred) = "ok"
          /\ ctx' = [ctx EXCEPT !.auth = Identity(conf.auth, req.cred.token)]
          /\ verdict' = "ok"
    /\ PassOn
    /\ UNCHANGED <<holding, held, rec, codes, header>>

AuthRefuse ==
    /\ Turn({"auth"})
    /\ ~AuthSkips
    /\ HttpVerdict(conf.auth, req.cred) # "ok"
    /\ verdict' = HttpVerdict(conf.auth, req.cred)
    /\ Answer(HttpRefusal[HttpVerdict(conf.auth, req.cred)])
    /\ UNCHANGED header

(* The rate limiter (see RateLimiter.tla) counts no OPTIONS request; of    *)
(* the others any may be one too many.                                     *)
RatePass ==
    /\ Turn({"ratelimit"})
    /\ PassOn
    /\ UNCHANGED <<ctx, holding, held, rec, codes, header, verdict>>

RateRefuse ==
    /\ Turn({"ratelimit"})
    /\ req.method # "OPTIONS"
    /\ Answer(429)
    /\ UNCHANGED <<header, verdict>>

(* Access log and metrics wrap the ResponseWriter and remember their       *)
(* request, whose context the middlewares below do not change.             *)
RecorderEnter ==
    /\ Turn(Recorders)
    /\ rec' = [rec EXCEPT ![links[at]] = [status |-> InitialStatus, id |-> ctx.id]]
    /\ PassOn
    /\ UNCHANGED <<ctx, holding, held, codes, header, verdict>>

(* r.Clone(r.Context())                                                    *)
DecompressedContext == ctx

(* Gzip: a compressed request is replaced by a decompressed one, and the   *)
(* ResponseWriter wrapped if the client accepts gzip.                      *)
GzipPass ==
    /\ Turn({"gzip"})
    /\ req.body # "broken"
    /\ ctx' = IF req.body = "gzip" THEN DecompressedContext ELSE ctx
    /\ holding' = (req.accept /\ req.method # "HEAD")
    /\ PassOn
    /\ UNCHANGED <<held, rec, codes, header, verdict>>

GzipRefuse ==
    /\ Turn({"gzip"})
    /\ req.body = "broken"
    /\ Answer(400)
    /\ UNCHANGED <<header, verdict>>

-----------------------------------------------------------------------------
(* The handler.                                                            *)

AtHandler == phase = "down" /\ at = Len(links) + 1

Handler == conf.handlers[HandlerAt(conf, req.path)]

Run(what, cs) ==
    /\ WriteHeader(at, cs)
    /\ ran' = [what |-> what, number |-> HandlerAt(conf, req.path), ctx |-> ctx, wrote |-> cs]
    /\ phase' = "up"
    /\ at' = at - 1
    /\ UNCHANGED <<place, links, ctx, holding, header, log, visited, verdict, rpc>>

HandlerAnswers ==
    /\ AtHandler
    /\ Handler.kind = "app"
    /\ \E cs \in Answers : Run("app", cs)

(* healthz_handler.go: DOWN once the runtime is not active.                *)
Healthz ==
    /\ AtHandler
    /\ Handler.kind = "healthz"
    /\ \E active \in BOOLEAN :
          Run("healthz", <<IF ~Reads(req.method) THEN 405 ELSE IF active THEN 200 ELSE 503>>)

(* A panic unwinds every middleware, none of which recovers: net/http      *)
(* closes the connection.                                                  *)
HandlerPanics ==
    /\ AtHandler
    /\ Handler.kind = "app"
    /\ phase' = "aborted"
    /\ UNCHANGED <<place, links, at, ctx, response, history, rpc>>

-----------------------------------------------------------------------------
(* On the way up only the recorders and gzip have something left to do.    *)

Up(kinds) ==
    /\ phase = "up"
    /\ at > 0
    /\ links[at] \in kinds
    /\ at' = at - 1
    /\ UNCHANGED <<place, phase, links, ctx, history, rpc>>

(* Only the access log names the request id of the context.                *)
RecorderLeave ==
    /\ Up(Recorders)
    /\ LET k == links[at]
           id == IF k = "accesslog" THEN rec[k].id ELSE ""
       IN  log' = [log EXCEPT ![k] = Append(@, [status |-> rec[k].status, id |-> id])]
    /\ UNCHANGED <<holding, held, rec, codes, header>>

(* The gzip writer sends the code it kept (what it makes of the body is    *)
(* the subject of GzipWriter.tla).                                         *)
GzipLeave ==
    /\ Up({"gzip"})
    /\ IF holding
       THEN WriteHeader(at, <<IF held = 0 THEN 200 ELSE held>>)
       ELSE UNCHANGED <<rec, held, codes>>
    /\ holding' = FALSE
    /\ UNCHANGED <<header, log>>

OtherLeave ==
    /\ Up({"cors", "requestid", "auth", "ratelimit"})
    /\ UNCHANGED response

Respond ==
    /\ phase = "up"
    /\ at = 0
    /\ phase' = "answered"
    /\ UNCHANGED <<place, links, at, ctx, response, history, rpc>>

-----------------------------------------------------------------------------
(* The same credential in a gRPC call.                                     *)

(* Mutation: the stream is passed on as it is.                             *)
StreamUnwrapped(auth) == Nobody

(* authServerStream.Context                                                *)
StreamContext(auth) == auth

RpcEnds(status, passed) ==
    [status |-> status, auth |-> Nobody, visited |-> passed, handled |-> FALSE]

RpcHandler(auth, passed) ==
    [status |-> IF ServiceOf(req.rpcMethod) = "health" /\ HealthStatus(conf.grpc, req.probe) # "SERVING"
                THEN "NotFound" ELSE "OK",
     auth |-> IF req.rpc = "stream" THEN StreamContext(auth) ELSE auth,
     visited |-> passed, handled |-> TRUE]

(* Where the auth interceptor is, 0 for nowhere.                           *)
AuthAt(names) == SelectInSeq(names, LAMBDA name : name = "auth")

(* A call of the client connection: without an address there is none, the  *)
(* server may not be where it looks, nor know the service.  Then the       *)
(* interceptors, of which the application's pass every call on.            *)
RpcOutcome(numbers) ==
    LET g == conf.grpc
        names == [i \in DOMAIN numbers |-> g.interceptors[numbers[i]].name]
        answer == IF AuthAt(names) = 0 THEN "exempt"
                  ELSE RpcAuthenticate(g, conf.auth, req.rpcMethod, req.cred)
    IN  IF ~Dials(g.client, req.cred) THEN RpcEnds("noClient", <<>>)
        ELSE IF ~Reaches(g) THEN RpcEnds("unreachable", <<>>)
        ELSE IF ServiceOf(req.rpcMethod) \notin RegisteredServices(g)
             THEN RpcEnds("Unimplemented", <<>>)
        ELSE CASE answer = "ok" -> RpcHandler(Identity(conf.auth, req.cred.token), names)
               [] answer = "exempt" -> RpcHandler(Nobody, names)
               [] OTHER -> RpcEnds(answer, SubSeq(names, 1, AuthAt(names)))

RpcCall ==
    /\ phase = "answered"
    /\ req.rpc # "none"
    /\ \E numbers \in Interceptors(conf.grpc, req.rpc) : rpc' = RpcOutcome(numbers)
    /\ phase' = "closed"
    /\ UNCHANGED <<place, links, at, ctx, response, history>>

-----------------------------------------------------------------------------
Finished ==
    /\ phase \in {"failed", "aborted", "closed"} \/ (phase = "answered" /\ req.rpc = "none")
    /\ UNCHANGED vars

(* The order of registration is chosen where it is first looked at.        *)
Routing ==
    /\ phase = "route"
    /\ \E routes \in Registrations(conf) :
          LET to == Route(conf, routes, req.path, req.method)
          IN  RouteHandler(to) \/ RouteAsset(to) \/ RouteNotFound(to)

Down ==
    \/ CorsPass \/ CorsPreflight \/ RequestId \/ AuthPass \/ AuthRefuse
    \/ RatePass \/ RateRefuse \/ RecorderEnter \/ GzipPass \/ GzipRefuse
    \/ HandlerAnswers \/ Healthz \/ HandlerPanics

Leaving == RecorderLeave \/ GzipLeave \/ OtherLeave \/ Respond

Next == Construct \/ Wrap \/ Listen \/ Routing \/ Down \/ Leaving \/ RpcCall \/ Finished

Spec == Init /\ [][Next]_vars

-----------------------------------------------------------------------------
HasAnswered == phase \in {"answered", "closed"}

(* The bean of a name.                                                     *)
BeanNumber(beans, name) == SelectInSeq(beans, LAMBDA b : b.name = name)

(* A request passes the middlewares in the order of their BeanOrder, none  *)
(* twice, and reaches the handler only through every one whose prefixes    *)
(* match its pattern: the loop of Object wraps in reverse.  A gRPC call    *)
(* passes the interceptors the same way, those of equal order as they were *)
(* injected, and reaches the handler only through every one of its kind.   *)
ChainInOrder ==
    /\ \A i, j \in DOMAIN visited :
          i < j => /\ visited[i] # visited[j]
                   /\ conf.order[visited[i]] <= conf.order[visited[j]]
    /\ ran.what \in {"app", "healthz"} =>
          {m \in DOMAIN conf.order : Match(conf, m, req.path)} = ToSet(visited)
    /\ LET beans == conf.grpc.interceptors
       IN  /\ \A i, j \in DOMAIN rpc.visited :
                 i < j => Before(beans, BeanNumber(beans, rpc.visited[i]),
                                      BeanNumber(beans, rpc.visited[j]))
           /\ rpc.handled => ToSet(rpc.visited) =
                 {beans[i].name : i \in {k \in DOMAIN beans :
                                           IF req.rpc = "stream" THEN beans[k].stream ELSE beans[k].unary}}

(* The handler of a protected path runs only for a token the Authenticator *)
(* accepted and finds its identity in the context, wherever the other      *)
(* middlewares stand; so does the handler of a gRPC call or stream.        *)
HandlerSeesIdentity ==
    LET allowed == req.cred.header = "bearer" /\ Authenticate(conf.auth, req.cred.token) = "ok"
        identity == Identity(conf.auth, req.cred.token)
    IN  /\ ran.what = "app" /\ "auth" \in ToSet(links) /\ req.method # "OPTIONS"
              => allowed /\ ran.ctx.auth = identity
        /\ ran.what = "app" /\ "auth" \notin ToSet(links) => ~ran.ctx.auth.known
        /\ rpc.handled /\ "auth" \in ToSet(rpc.visited) /\ ~IsExempt(conf.grpc, req.rpcMethod)
              => allowed /\ rpc.auth = identity

(* What cannot carry a token needs none.  A browser's preflight gets its   *)
(* 204 and the CORS headers whether CORS stands before or after            *)
(* authentication and rate limiting, and never reaches the handler; a      *)
(* gRPC health probe of the server or of a service it has is answered,     *)
(* whatever the deployment adds to grpc.auth.exempt.                       *)
ProbesNeedNoToken ==
    /\ HasAnswered /\ req.method = "OPTIONS" /\ OriginAllowed /\ "cors" \in ToSet(links)
        /\ req.body # "broken"
        => Sent = 204 /\ header.cors /\ ran.what = "nothing"
    /\ rpc.status \notin {"none", "noClient", "unreachable"} /\ "health" \in conf.grpc.options
        /\ req.rpcMethod = <<"/", "health", "Check">> /\ req.probe \in conf.grpc.services \cup {""}
        => rpc.status = "OK"

(* Access log and metrics write one entry per request they let through,    *)
(* with the status the client got, although gzip delays the header and     *)
(* others answer early (for a handler that sets the status at most once);  *)
(* an id in the entry is the one the client and the handler got.           *)
LogAgreesWithClient ==
    HasAnswered /\ Len(ran.wrote) <= 1 =>
        \A k \in Recorders :
            /\ Len(log[k]) = IF k \in ToSet(visited) THEN 1 ELSE 0
            /\ \A i \in DOMAIN log[k] :
                  /\ log[k][i].status = Sent
                  /\ log[k][i].id \in {"", header.id}
                  /\ log[k][i].id # "" /\ ran.what = "app" => ran.ctx.id = log[k][i].id

(* HTTP and gRPC make the same of the same credential: accepted by both or *)
(* refused by both, for corresponding reasons (README: one-to-one).  The   *)
(* call of a client beside its server, without an address of its own,      *)
(* always gets that far.                                                   *)
SameVerdict ==
    LET g == conf.grpc
        beside == /\ g.client.connect = NoAddress
                  /\ g.client.tls = g.tls
                  /\ [bean \in {ServerBean(g.client.name)} |-> g.bind] = g.client.binds
    IN  rpc.status # "none" /\ ServiceOf(req.rpcMethod) \in g.services /\ req.rpcMethod[1] = "/"
        /\ verdict # "none" /\ beside /\ ~IsExempt(g, req.rpcMethod)
        /\ (\E i \in DOMAIN g.interceptors : g.interceptors[i].name = "auth")
        => <<verdict, rpc.status>> \in
              {<<"ok", "OK">>, <<"unauthorized", "Unauthenticated">>,
               <<"unavailable", "Unavailable">>, <<"failure", "Internal">>}

(* A token jwttool makes for the server's key, issuer and audience, no     *)
(* registered claim overridden by --attr, is accepted by JwtAuthProvider   *)
(* if its expiry lies ahead and is less than 106752 days, and refused if   *)
(* it does not lie ahead, as int64 has it: whoever asks for more days may  *)
(* get a token that has expired.  The handler finds the subject, roles and *)
(* scopes that were asked for (scopes of one word).                        *)
ToolTokenHonoured ==
    \A asked \in req.asked :
        LET f == Prompted(asked)
        IN  MadeFor(conf.auth, f) /\ (\A i \in DOMAIN f.scopes : Len(f.scopes[i]) <= 1)
            => /\ InRange(f.expiry) => verdict \in {"none", "ok"}
               /\ Minutes(f.expiry) <= 0 => verdict \in {"none", "unauthorized"}
               /\ ran.what = "app" /\ verdict = "ok" =>
                     ran.ctx.auth = [subject |-> f.subject, roles |-> SplitTrim(f.roles),
                                     scopes |-> SplitTrim(f.scopes), known |-> TRUE]

(* What answers is what the settings name: the first handler of a pattern, *)
(* before any asset; the last asset of a variant the client accepts; the   *)
(* index only for reading a path that is no file, not excluded and not     *)
(* found otherwise.  No client gets an encoding it did not ask for.        *)
RoutedAsConfigured ==
    /\ ran.what \in {"app", "healthz"} =>
          /\ conf.handlers[ran.number].pattern = req.path
          /\ \A i \in 1..(ran.number - 1) : conf.handlers[i].pattern # req.path
    /\ ran.what \in {"asset", "index"} =>
          /\ "handlers" \in conf.options => \A i \in DOMAIN conf.handlers : conf.handlers[i].pattern # req.path
          /\ header.encoding = "gzip" => req.accept /\ conf.resources[ran.number].gzip
          /\ ran.number # 0 => \A i \in (ran.number + 1)..Len(conf.resources) :
                conf.resources[i].assets /\ conf.resources[i].gzip = conf.resources[ran.number].gzip
                    => (IF ran.what = "index" THEN <<"/">> ELSE req.path) \notin Patterns(conf.resources[i])
    /\ ran.what = "index" =>
          /\ req.method \in {"GET", "HEAD"} /\ ~HasExt(req.path)
          /\ ~\E p \in conf.exclude : IsPrefix(p, req.path)
          /\ "assets" \in conf.options => ~IsAsset(conf, req.path)
=============================================================================
