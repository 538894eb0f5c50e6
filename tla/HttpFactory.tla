----------------------------- MODULE HttpFactory -----------------------------
(***************************************************************************)
(* http_server_factory.go: how handlers, middlewares and embedded assets   *)
(* become the routes of one *http.Server, and what gorilla/mux and the     *)
(* asset handlers then make of a path.  A path is the sequence of its      *)
(* parts (<<"/", "api", "/users">>), cut so that a prefix of the string is *)
(* a prefix of the sequence; an extension is a part of its own.            *)
(***************************************************************************)
EXTENDS Naturals, Sequences, SequencesExt

CONSTANT Extensions     \* parts that are file extensions

(* The settings of a server, a record:                                     *)
(*   address   <bean>.bind-address is set                                  *)
(*   options   subset of {"handlers", "assets", "spa"}                     *)
(*   handlers  sequence of [pattern, kind]                                 *)
(*   order     BeanOrder of each middleware bean in use                    *)
(*   prefixes  its prefixes (the ones it skips, for gzip)                  *)
(*   resources sequence of [assets, gzip, names]: a ResourceSource named   *)
(*             assets..., ...gzip or not, with its AssetNames              *)
(*   exclude   <bean>.spa-exclude                                          *)

HasPrefix(path, prefixes) == \E p \in prefixes : IsPrefix(p, path)

HasExt(path) == Last(path) \in Extensions

-----------------------------------------------------------------------------
(* PostConstruct: sort.Slice by BeanOrder, not stable: beans of the same   *)
(* order may end up in any order.                                          *)
SortedMiddlewares(conf) ==
    {chain \in SetToSeqs(DOMAIN conf.order) :
        \A i, j \in DOMAIN chain : i < j => conf.order[chain[i]] <= conf.order[chain[j]]}

(* HttpMiddleware.Match: gzip's prefixes are the ones it leaves alone.     *)
Match(conf, m, pattern) ==
    IF m = "gzip" THEN ~HasPrefix(pattern, conf.prefixes[m])
                  ELSE HasPrefix(pattern, conf.prefixes[m])

(* Mutation: every middleware is wrapped around the handler itself.        *)
WrappedInside(conf, m, pattern, h) ==
    IF Match(conf, m, pattern) THEN h \o <<m>> ELSE h

(* One round of the loop in Object: h, the sequence of middlewares that a  *)
(* request passes, with m around it.                                       *)
Wrapped(conf, m, pattern, h) ==
    IF Match(conf, m, pattern) THEN <<m>> \o h ELSE h

-----------------------------------------------------------------------------
(* groupAssets: a resource serves its names, and index.html as "/" too; of *)
(* several resources of one variant with the same name the last one wins.  *)
IndexName == <<"index", ".html">>

Patterns(res) ==
    {<<"/">> \o n : n \in res.names} \cup
    (IF IndexName \in res.names THEN {<<"/">>} ELSE {})

Serves(res, path, gzip) == res.assets /\ res.gzip = gzip /\ path \in Patterns(res)

(* The number of the resource behind plainH (gzipH) of path, 0 for nil.    *)
AssetHandler(conf, path, gzip) ==
    SelectLastInSeq(conf.resources, LAMBDA res : Serves(res, path, gzip))

IsAsset(conf, path) ==
    \E gzip \in BOOLEAN : AssetHandler(conf, path, gzip) # 0

-----------------------------------------------------------------------------
(* Object: the first handler of a pattern is registered, 0 for none.       *)
HandlerAt(conf, path) ==
    IF "handlers" \in conf.options
    THEN SelectInSeq(conf.handlers, LAMBDA h : h.pattern = path) ELSE 0

(* A second handler of the pattern, which Object skips, is never reached.  *)
HandlerRoutes(conf) ==
    IF "handlers" \in conf.options
    THEN [i \in DOMAIN conf.handlers |->
             [to |-> "handler", pattern |-> conf.handlers[i].pattern]]
    ELSE <<>>

(* The orders in which a loop over the map of groupAssets may register.    *)
AssetRoutes(conf) ==
    LET assets == {i \in DOMAIN conf.resources : conf.resources[i].assets}
        patterns == UNION {Patterns(conf.resources[i]) : i \in assets}
    IN  IF "assets" \in conf.options
        THEN {[i \in DOMAIN s |-> [to |-> "asset", pattern |-> s[i]]] : s \in SetToSeqs(patterns)}
        ELSE {<<>>}

(* Mutation: the assets are registered before the handlers.                *)
AssetsFirst(conf) == {assets \o HandlerRoutes(conf) : assets \in AssetRoutes(conf)}

(* Then the assets, of patterns that a handler already has too.            *)
Registrations(conf) == {HandlerRoutes(conf) \o assets : assets \in AssetRoutes(conf)}

Reads(method) == method \in {"GET", "HEAD"}

(* NotFoundHandler is spaFallback, if the server has the option and an     *)
(* index; it gives up on other methods, excluded prefixes and files.       *)
SpaFallback(conf, path, method) ==
    /\ "spa" \in conf.options
    /\ IsAsset(conf, <<"/">>)
    /\ Reads(method)
    /\ ~HasPrefix(path, conf.exclude)
    /\ ~HasExt(path)

(* mux takes the first of its routes that matches.                         *)
Route(conf, routes, path, method) ==
    LET first == SelectInSeq(routes, LAMBDA r : r.pattern = path)
    IN  CASE first # 0 -> routes[first].to
          [] first = 0 /\ SpaFallback(conf, path, method) -> "index"
          [] OTHER -> "notFound"

(* servingAsset: the gzip variant for a client that accepts it.            *)
GzipVariant(conf, path, accept) == accept /\ AssetHandler(conf, path, TRUE) # 0

AssetServed(conf, path, accept) ==
    AssetHandler(conf, path, GzipVariant(conf, path, accept))

(* http.FileServer redirects .../index.html to its directory; no variant   *)
(* the client can take is a 404.                                           *)
AssetCode(conf, path, accept) ==
    CASE AssetServed(conf, path, accept) = 0 -> 404
      [] AssetServed(conf, path, accept) # 0 /\ path = <<"/">> \o IndexName -> 301
      [] OTHER -> 200

(* gzipWriter announces the encoding with a 200 only.                      *)
AssetEncoding(conf, path, accept) ==
    IF GzipVariant(conf, path, accept) /\ AssetCode(conf, path, accept) = 200
    THEN "gzip" ELSE "identity"
=============================================================================
