# A TLA+ model of servion

servion is a Go framework for server applications: beans in a dependency-injection container
become HTTP, gRPC and value-rpc servers that one `run` command binds, serves, restarts and shuts
down. This directory models the parts of it where the order of steps, a race or a failure decides
whether it works, checks them with TLC and proves the central results with TLAPS. `PROJECT.json`
relates every definition to the lines it models, lists the runs, the mutants each property was
tried against, the hazards of the code and the theorems.

## 1. Inventory of the system

| Part | State it keeps | Operations | What is hard | What makes it correct |
|---|---|---|---|---|
| Runtime (`runtime.go`) | four atomics, a channel, a `sync.Once` | `Shutdown`, `Active`, `Restarting`, `Done`, `Err` | callers race; readers take no lock; it is a parent of contexts | one decision, visible in a safe order |
| Server wrappers (`http_server.go`, `grpc/grpc_server.go`, `vrpc/value_server.go`) | listener, alive flag, `shutdownOnce` | `Bind`, `Serve`, `Shutdown`, `Destroy` | `Shutdown` before, during or after `Serve`, twice; calls that never end | the port is free, nothing is accepted late, every call returns |
| Run command (`run_command.go`, `utils.go`) | containers, errgroup, watcher and signal goroutines | `Run`, `doWithServers`, `bindServers`, `runServers` | partial failures, failing servers, signals at any time, restart | the result is truthful, containers are closed after use, shutdown ends, a restart finds its ports |
| Rate limiter (`ratelimit_middleware.go`) | a bucket per client, a cleaner goroutine | `Middleware`, `cleanerLoop`, `Destroy` | lazy reset against cleaner, window boundaries | a bound on what passes, no growth, `Destroy` returns |
| Gzip middleware (`gzip_middleware.go`) | buffer, gzip stream, delayed status | `WriteHeader`, `Write`, `Close` | threshold, delayed header, panic | body, status and length reach the client intact |
| HTTP server factory (`http_server_factory.go`) | routes, sorted middlewares, grouped assets | `PostConstruct`, `Object`, asset handlers | order of wrapping, unstable sort, precedence of routes | what answers is what the settings name |
| Authentication (`auth_*.go`, `jwt_auth_provider.go`, `grpc/auth_interceptor.go`) | keys, allowed hashes | `PostConstruct`, `Authenticate`, middleware, interceptors | two transports, wrapped requests and streams, claims of several forms | no handler without identity, same verdict on both |
| CORS, request id, access log, metrics | writers around the response | `Middleware` | their order is free, some answer early | preflights pass, logs tell what the client got |
| gRPC factories (`grpc/grpc_server_factory.go`, `grpc/grpc_client_factory.go`, `grpc/health.go`, `grpc/token_auth.go`) | interceptor chains, registered services, exempt prefixes | `Object`, `dial`, `registerHealth` | unary and stream calls pass different chains; client and server are configured apart | authenticated calls see their identity, probes need no token |
| value-rpc factories and transports (`vrpc/value_server.go`, `vrpc/value_client_factory.go`, `vrpc/obfs.go`) | listener, client, optional beans | `Bind`, `Object` | two ends choose address and transport separately | a matching client connects, and only over the configured stack |
| Resilience (`vrpc/resilience.go`) | the chain of governance interceptors | `Object`, every call | the order of the chain, concurrent callers, a silent server | refused calls have cost nothing, the breaker sees operations, attempts have their own deadline, calls end |
| `jwttool` (`cmd/jwttool/main.go`) | – | `generate-keys`, `generate-token` | int64 durations, claims the provider must understand | a token it prints is honoured by a server with its key |
| Health handler (`healthz_handler.go`) | – | `ServeHTTP` | – | part of the request path |
| Examples (`examples`, `grpc/examples`, `vrpc/examples`) | – | – | hand-written pairs of servers and clients | their clients reach their services |
| Scanners, logger factory, interfaces | – | – | see section 7 | – |

The parts meet in few places. `Run` creates the runtime and the containers; `runServers` puts
every `Serve` into an errgroup whose context is derived from the runtime; a watcher goroutine
waits for that context and adds every `Shutdown` to the same group; a signal goroutine shuts the
runtime down. Containers are closed when the group has drained, which destroys the gRPC and
value-rpc servers a second time. An HTTP request passes the middlewares the factory has wrapped
around its handler; the middlewares share the request's context and the response writer. A client
bean and its server bean share nothing but properties: the address is derived from the name of
the bean, the transport from the optional beans of either context.

## 2. Modules

    ShutdownLatch   what the runtime promises: fires once, with one restart decision
    Runtime         runtime.go, store by store            implements ShutdownLatch
    RuntimeProofs   theorems about Runtime
    Servers         Bind, Serve, Shutdown of the three server wrappers
    ServersProofs   theorems about Servers
    Lifecycle       run command and supervision           extends Servers, uses ShutdownLatch
    MCLifecycle     symmetry of the servers
    LifecycleProofs theorems about Lifecycle              extends ServersProofs
    FixedWindow     what the limiter does: a fixed window per client, less than
                    the sliding one its documentation promises
    RateLimiter     ratelimit_middleware.go               implements FixedWindow
    RateLimiterProofs  theorems about RateLimiter
    GzipWriter      adaptiveGzipWriter, byte by byte
    GzipProofs      theorems about GzipWriter
    Auth            providers, claims, verdicts, refusals  pure operators
    HttpFactory     sorting, wrapping, routing, assets     pure operators
    GrpcFactory     interceptors, services, client         pure operators, extends Auth
    JwtTool         flags to signed token                  pure operators, extends Auth
    TokenProofs     theorems about JwtTool and Auth
    RequestPath     one request through the chain, then one gRPC call;
                    extends Auth, HttpFactory, GrpcFactory, JwtTool
    RequestProofs   theorems about RequestPath             extends TokenProofs
    RequestExamples the servers of examples/auth and grpc/examples/echo
    MCRequestPath   deployments, runs of jwttool and requests
    ValueTransport  addresses and layers of both ends      pure operators
    Governance      calls through the interceptor chain
    ValueRpc        Bind, Object, Connect, calls           extends ValueTransport, Governance
    ValueRpcProofs  theorems about ValueRpc and Governance
    ValueExamples   the deployments of vrpc/examples
    MCValueRpc      deployments

**Runtime.** One action per store of the body of `shutdownOnce.Do`, so that readers can look in
between. `once` is the `sync.Once`, `winner` a history variable. `Derive`, `Wake` and `Cancel` are
`context.WithCancel(runtime)` as package context implements it for a foreign parent: it panics
when `Err()` is nil after `Done()` has closed.

**Servers.** One record per server. `Serve` has three steps that other goroutines may come
between: called (goroutine started, perhaps not scheduled), entered (alive set), running (the
library accepts). `lib` is what the wrappers can observe of net/http, grpc-go and value-rpc.
`Shutdown` has two callers, the watcher and the container; `GrpcGracefulStop`, `GrpcTimeout`,
`GrpcStop` are `doGracefulStop` and `doStop`. Timeouts may elapse at any time.

**Lifecycle.** The command is a program counter (`cmd.at`); the errgroup is the set of its
unfinished members. `zeroed` and `released` split the end of `WaitGroup.Wait` as the standard
library does: an `Add` between them panics. A restart replaces all state but the process-wide
registration of signals.

**RateLimiter.** Time is discrete and only ages are kept, cut off where the code cannot tell them
apart, so the runs need no bound on time. The mutex makes each critical section one step. The history
`recent` counts what passed in the last `k` ticks, for each `k` up to the interval. Two things are said
of it: the bound that holds (`AtMostTwiceLimit`) and the documented one, which does not
(`SlidingWindow`).

**GzipWriter.** Bytes are numbered as the handler writes them; on the wire each carries the
encoding it was sent in.

**RequestPath.** `Wrap` is one round of the loop in `Object` that wraps the handler of the request's
path, from the last middleware to the first; `Listen` ends it. The middlewares of the route are then
a sequence (`links`) walked with an index, down and up. The routes of mux are a sequence too, the
handlers and then the assets in any order their map may be walked in (`Registrations`); mux takes the
first that matches.
`WriteHeader(pos, codes)` tells every wrapper above `pos` about a status, up to the gzip writer,
which keeps the first. Paths are sequences of parts, so `strings.HasPrefix` is `IsPrefix`; a text
is the sequence of its words, so splitting and joining of claims are what they are in the code; the loops
that append what they do not skip are one recursive function (`Without`). After
the HTTP answer the same credential is presented in a gRPC call, unary or stream: dialled as the
client factory does, passed along the sorted interceptors, answered by a service, the health
service or nobody. The credential may be a token that `jwttool` has just made from its flags.

**Governance, ValueRpc.** A transport is the stack of its layers; the two ends understand each other
if the stacks are equal. Each goroutine's call is a record with its place in the chain, on its way
down, on the wire or on its way up. Which interceptors there are, and in which order, is servion's;
what retry, breaker, bulkhead, limiter and timeout do is library code, marked external and reduced to
what their order can change: the retry predicate is the one the resilience example relies on
(exactly CodeUnavailable). Amounts of time are left out: a deadline may expire, a token come back and
a cooldown end at any moment.

Operators whose comment begins with "Mutation:" are not used by the specifications; they are
plausible bugs, and `PROJECT.json` names the property each one breaks. `ServersTypeOK` and
`LifeTypeOK` document the shape of the state; no run lists them.

## 3. Runs

| Run | Asks | Bounds and why they suffice |
|---|---|---|
| `runtime` | Is there one shutdown decision, and can nobody see half of it? | 3 callers (a winner, a waiter and a late one), 2 contexts |
| `servers` | Does `Shutdown` free the port, and do it and `Serve` end, whenever they meet? | one server of each kind (servers are independent), two callers, one request |
| `lifecycle` | Is the result truthful, are containers closed in the right order, does the next generation find its ports free? | 2 servers of any kind, in one container or two: one fails, the other is affected; failures of `Bind`, `RegisterFunctions`, `Serve` and closing, 1 signal, 2 generations. Left out, for size or because the properties are false with them: a panic in the library (in `servers`, and covered by the theorems) and a listener that goes away by itself (in `servers`; see the proviso in section 5) |
| `life_ends` | Does every shutdown, and every failure, end the generation, and SIGTERM the process? | 2 HTTP servers in one container, fairness, SIGTERM, shutdown or restart by the application, failing `Serve`; one generation, at the end of which "would be repeated" is not counted as the end of the process. That a gRPC `Shutdown` ends is `servers`' question |
| `rate_limiter` | How much passes, and do buckets go away? | one client (clients share nothing but the cleaner), limit 2, interval 2: a window, its end and the next |
| `gzip_writer` | Does the client get what the handler wrote? | threshold 3, up to 6 bytes in slices of 0, 1, 2 or 4: below, at, across the threshold and after it |
| `request_path` | Is every order of middlewares and interceptors right, and do tool, client and server agree? | 5 tied middlewares (120 orders), the documented chain of 7, smaller chains, 6 other gRPC sides, examples/auth; 24 sites of assets, each with every order of registration; 28 runs of `jwttool` with expiries around the wrap of int64 |
| `value_rpc` | Do the two ends find each other, and is the governance chain in the right order? | every choice of optional beans on 6 addresses, the 8 shipped examples, 9 policies; 2 callers with 2 calls each: one to fill the bulkhead or open the breaker, one to meet it |

Four runs show where the code and a text of the repository disagree ("findings"):

* `vio_clean_shutdown` – SIGTERM before the gRPC `Serve` goroutine has reached the library makes
  `Serve` return `ErrServerStopped`, which the filter for "closed" does not know: a clean shutdown
  returns an error (`run_command.go:94` says nil).
* `vio_term_lost` – each generation reads one signal from its own channel; a SIGTERM after a
  SIGHUP or during a restart is never acted on (`README.md:34`).
* `vio_sliding_window` – the limiter resets the whole bucket of a client when its window is over:
  the end of one window and the start of the next let twice the limit through within less than an
  interval (`README.md:127`: "sliding window per-client rate limiter", also `README.md:31` and
  `ratelimit_middleware.go:28`).
* `vio_graceful_http` – `Shutdown` of an HTTP server is `http.Server.Close`, which cuts the request
  being handled (`examples/vue_server/README.md:15` says it shuts down gracefully).

Other observations made while modelling, for which no run is kept:

* Signals: a SIGTERM in the channel is lost, too, if the application calls `Shutdown(true)` before the
  signal goroutine has read it (`utils.go:255-270`): Run returns `ErrRepeatRun`, and the next
  generation has a channel of its own. `TermEnds` leaves this case open and no other.
* Supervision: when a server fails, the watcher may call `g.Go` just as the WaitGroup releases its
  waiter; `Add` then panics in a goroutine nobody recovers and the error does not reach cligo
  (`utils.go:243`, `run_command.go:88`; `WatcherCrash` in `Lifecycle`). `NoWaitGroupMisuse` shows that
  an ordinary shutdown cannot do this. A `Serve` whose listener goes away by itself returns nil, so
  errgroup does not cancel and the other servers stay (`utils.go:236`: "ALL or Nothing"). Between two
  generations no port is open (`README.md:34`: "zero-downtime"). `Alive()` stays true after a panic
  in the library (`http_server.go:115`). `Serve` replaces `t.listener` without synchronisation
  (`http_server.go:131`); both values close the same socket. The gRPC health service says SERVING
  until the connection is gone.
* Middlewares: an interval of zero or less panics in the cleaner (`ratelimit_middleware.go:141`).
  With an invalid `gzip.level` the header announces gzip before `NewWriterLevel` fails, and the plain
  buffer follows it. Access log and metrics write nothing when the handler panics, for assets, or for
  a request an outer middleware refused (`README.md:327`: "for every request"); a handler that sets
  the status twice is logged with the second. `api.go:243` speaks of 500 for all other errors where
  the middleware answers 503 for `ErrServiceUnavailable`.
* value-rpc: the server collects beans that have `RegisterFunctions`; `vrpc/api.go:31`, the
  repository's README (line 563) and five shipped examples say `RegisterValue`. They compile, the
  injection is optional, and the examples' own client calls a function nobody registered (the result
  "notFound" in `value_rpc`). A client whose address is derived from a server on port 0 cannot connect. The policy
  is injected by type, so several clients in one container share it. The log field `resilience` is
  always true (`value_client_factory.go:88`). The flaky service of the resilience example counts all
  requests together: with concurrent clients an operation can use up its attempts.
* `jwttool`: "1h30d" is one day, because `Sscanf` stops at the first letter; from 106752 days on the
  duration wraps and the token may be expired when issued, which the provider then refuses
  (`ToolTokenHonoured`); `--attr` may replace registered claims, a
  string `exp` among them, which the provider then refuses.

## 4. Fairness

The Go scheduler runs every runnable goroutine, and timers fire. `Runtime` has weak fairness per
goroutine inside `Shutdown`; `Servers` per server for the goroutines inside `Serve` and
`Shutdown`; `Lifecycle` only for the program as a whole: as long as some goroutine can run, one
does. That is weaker than what Go gives and enough, because every goroutine of the program does
finitely many steps. Requests, faults, signals and the application's own calls are never fair:
a handler may hang for ever. In `RateLimiter` time passes, the cleaner takes its ticks and
`wg.Wait` returns. `ValueRpc` has weak fairness per caller for the goroutine inside the call (the
deadline of an attempt included) and for the client's own timeout; that a server answers is not
assumed, and `CallsEnd` is stated for clients that have one of the two timeouts.

## 5. What is proved

For every value of the constants, without bounds.

`RuntimeProofs`: the properties need to know where the winner stands, so the invariant
`RuntimeInv` adds to the types that only the winner is inside the body while `once` is "running"
(`OnlyWinnerInBody`), that its place determines which flags are stored (`FlagsFollowBody`), that the
restart flag is the winner's argument once stored (`FlagIsWinners`), and that nothing is woken
before the close (`WokenAfterClose`). From it follow `ReasonKnown`, `NoMissingCancelError`,
`ReturnMeansDown`, `DecisionFinal` (once the channel is closed no flag changes) and
`ImplementsLatch`: every step is a step of `ShutdownLatch` or a stutter. The last one justifies
using the latch in `Lifecycle`. The only assumption is that `NoCaller` is no caller.

`RateLimiterProofs`: a bucket that exists has counted something (`BucketsCount`), because a bucket
is created or reset only by a request that is then counted, unless the limit is zero. With the
types this is inductive, and `ImplementsWindow` (of `FixedWindowSpec`) follows: a request let through is one of the
window, the lazy reset and the cleaner are stuttering steps, time closes the window. `TwiceLimitBound`
needs to know how the history relates to the buckets (`TwoWindows`): what passed in the last `k` ticks is
at most the count of the open window and one limit for what came before it, as long as `k` does not exceed
the interval; while the window is as old as that, nothing came before; and the first request of a tick
that opens a window finds no other of its tick. `NothingCleanedLater` follows from `CleanerGone`:
`wg.Wait` has returned only if the cleaner has, so nothing is removed after `Destroy`. Assumed are
`Limit \in Nat` and `Interval \in Nat \ {0}`, which `time.NewTicker` needs too.

`ServersProofs`: servers share no state, so the invariant (`Sound`) is one of a single record. The
progress of the body of `shutdownOnce` determines what is left of the library and of the socket
(`LibraryFollowsBody`, `SocketFollowsBody`), it runs only for a caller and nobody returns before it is
done (`BodyHasCaller`), a result exists when Serve has returned and is not nil before Shutdown
(`ResultFollowsServe`), and a running gRPC call is cut by Stop alone (`CutByStop`). From it:
`PortFreed`, `CutAfterTimeout` and the action property `NothingAccepted`, for any number of servers of
any kind and any faults. No assumption beyond those of `Servers`.

`LifecycleProofs`: the invariant says for each step of the command what the goroutines around it can
have done. Why the parts are needed: that no container is closed under a running Serve rests on
`g.Wait`, so every Serve that runs must be counted by the group (`ServesCounted`), all of them must
have been started before Wait can return (`ServesStarted`), and none is left once it has
(`WaitCoversServes`); that requires that nothing starts earlier (`NothingStarted`) and that Shutdown
comes from the watcher or from the container in their turn (`StoppersInTurn`). `ContainersClosed`
follows the containers from creation to close, `ErrorCarried` the error from the member that records
it to what Run returns, `StoppedOrFailed` ties an end without error to a Shutdown. From it, for any
servers, faults, signals and restarts: `NoneServedWhenClosed`, `ContainersAllClosed`,
`OnlyBoundServed`, the action property `RestartPortsFree`; and, assuming that no listener goes away
by itself with an error whose text contains "closed" (`"acceptClosed" \notin Faults`; with it Serve
returns nil and the properties are false, see the hazards), `OutcomeTruthful` and `WaitGroupUsedWell`.

`GzipProofs`: bytes are numbered as the handler writes them; the invariant is that the wire followed
by the buffer is numbered without a gap (`Numbered`), with what the decision to compress means for the
header (`Decision`, `Compressing`, `FirstCodeKept`, `OneEncoding`). `PrefixOnWire` follows for every
threshold, slicing, panic and level; `BodyArrives` and `OneHeader` assume a compression level that
compress/gzip accepts (with another the writer is nil, see the hazards).

`ValueRpcProofs`: `WiringInv` says what both ends have agreed on at each phase. `ServedOnlyAsConfigured`
follows without an assumption on the deployments; for `MatchingPairConnects` two lemmas show that the
two factories come to an address that reaches the listener (`AddressFound`) and to the same layers
(`SameStack`), assuming that listener and dialer of a Transport bean are layered alike. `CallsInv`
says where in the chain a call can be: one that was sent goes down again below Retry only, one the
breaker has counted has neither Retry nor the breaker left on its way up, below Timeout the deadline
is that of the next attempt. That the chain of `ResiliencePolicyFactory` is in order for all
properties is `FactoryOrder`, five joins of optional interceptors. `RefusedNeverSent`,
`OperationsCountedOnce` and `EachAttemptTimed` are stated for clients whose chain comes from that
factory (or that have none); a chain the application assembles itself may be in any order.

`TokenProofs`: what a token of `jwttool` means to the provider, without a state. The loops of
`splitTrim`, `claimStringSlice` and `parseScopeClaim` are recursive functions, and so is the joining of scopes
(`FlattenSeq`). That such a function exists and what its last value is goes by induction over the rounds,
for which `SetInduction` (a set of numbers with 0 and every successor is all of them) is derived from the
library's well-founded minimum: `WithoutSkips` and `WithoutKeeps` say that a loop leaves out the skipped
items and nothing else from a list that has none, `WordsJoined` that scopes of one word come back from
joining and splitting. `NoWrap` is the arithmetic of int64 minutes below 106752 days. From them:
`TokenMeansWhatWasAsked`, for flags of any length whose `--attr` replace no claim the provider reads
(`MadeFor`), `TokenAccepted` for durations that are positive and do not wrap (`InRange`), and
`ExpiredRefused` for those that are, or wrap to, zero or less.

`RequestProofs`: the invariant `RequestInv` follows the loop that wraps the handler and then the request.
`WrapInv` is the loop invariant: coming down to `k`, what is wrapped so far are the matching beans of
the sorted list above `k`, in its order (`WrapsFrom`). `VisitInv` says that what has run is a prefix of
what was wrapped, all of it when the handler ran. `IdentityInv` ties the context to authentication: who
has passed it is known, nobody else. For the logged status one has to know what the others will hear:
the code the client will get (`Code`) is what was sent or what gzip holds, each recorder that is not cut
off by a gzip writer below it (`Muted`) has heard it (`StatusInv`, with `HoldInv` for the gzip writer),
and an entry written is that code (`LogInv`); `IdInv` does the same for the request id. `PreflightInv`
says a preflight has not got past CORS, `RouteInv` what an answer says of the routes
(`AnyRegistrationOrder`: the same for every order the assets are registered in), `RpcInv` that the
gRPC call is an outcome of one order of the interceptors. From it, for every deployment, request and
answer: `ChainIsInOrder`, `HandlerKnowsWhoCalls`, `ProbesPass`, `LogIsTruthful`, `VerdictsAgree`,
`RoutesAreConfigured` and, with `TokenProofs`, `ToolTokensHonoured`. That a sorted list holds every bean once (`AllElements`) comes from the library's
theorems on finite sets; least and greatest numbers (`LeastNumber`, `GreatestNumber`), which the first
handler of a pattern and the last resource of a name rest on, from its well-founded minimum. Assumed are
the types of settings, requests and answers, that backends answer as `Authenticator` declares
(`DeploymentAssumption`), that interceptors have different names and the one of `auth_interceptor.go`
supplies both functions, as it does (`GrpcAssumption`), that a full method names a service and a method
(`RequestAssumption`), that statuses are not zero (`AnswersAssumption`), and that a request said to carry a
token of `jwttool` carries the one printed, made from lists of texts (`ToolAssumption`).

Only model-checked: liveness (`CallsReturn`, `ShutdownEnds`, `ShutdownCompletes`, `TermEnds`,
`FailureStopsAll`, `IdleBucketRemoved`, the leads-to half of `DestroyEnds`, `CallsEnd`). It rests on fairness,
whose ENABLED is out of the prover's reach. Every other property of the passing runs is a theorem.

## 6. Plan

1. Done: runtime, servers, lifecycle, rate limiter, gzip writer, request path with gRPC factories
   and `jwttool`, value-rpc with transports and resilience; proofs of every safety property of the runs.
2. Left: liveness beyond the instances of the runs, once a prover for fairness is at hand; the retry,
   breaker and transport libraries, should servion take them into its own code.

## 7. Not modelled

The logger factory configures zap; `api.go`, `grpc/api.go` and `vrpc/api.go` declare interfaces, whose
contracts are those of the implementations; scanners only list beans for the dependency-injection
container, which is external (the ones whose beans matter appear as deployments). Of the examples,
static pages, embedded properties, generated `bindata.go` and `echopb`, certificate generation and
the demonstration probes have no logic of this system. The SOCKS5 proxy of the value-rpc client only
routes the dial. Logging, texts, TLS settings, message sizes and timeouts passed to net/http are left
out, and so are the per-component statistics of the health handler. Signatures, hashes, gzip's
format, the governance interceptors' own code and the clock are external.
