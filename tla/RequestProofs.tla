---------------------------- MODULE RequestProofs ----------------------------
(***************************************************************************)
(* Proofs about RequestPath.tla.                                           *)
(***************************************************************************)
EXTENDS RequestPath, TokenProofs, FiniteSetTheorems, TLAPS

(* A set of numbers with a bound has a greatest element.                   *)
LEMMA GreatestNumber ==
  ASSUME NEW n \in Nat, NEW S \in SUBSET (1..n), S # {}
  PROVE  Max(S) \in S /\ \A x \in S : x <= Max(S)
<1> DEFINE T == {y \in Nat : \E x \in S : y = n - x}
<1>1. \A x \in S : x \in Nat /\ n - x \in Nat
  OBVIOUS
<1>2. T \in SUBSET Nat /\ T # {} /\ \A x \in S : n - x \in T
  BY <1>1
<1>3. Min(T) \in T /\ \A y \in T : Min(T) <= y
  BY <1>2, LeastNumber
<1>4. PICK m \in S : Min(T) = n - m
  BY <1>3
<1> HIDE DEF T
<1>5. ASSUME NEW x \in S
      PROVE  x <= m
  <2>1. n - m <= n - x
    BY <1>2, <1>3, <1>4
  <2> QED
    BY <1>1, <2>1
<1> QED
  BY <1>1, <1>5 DEF Max

(* As many different elements as there are: all of them.                   *)
LEMMA AllElements ==
  ASSUME NEW S, IsFiniteSet(S), NEW s \in SetToSeqs(S)
  PROVE  /\ Cardinality(S) \in Nat
         /\ s \in [1..Cardinality(S) -> S]
         /\ Len(s) = Cardinality(S) /\ s \in Seq(S)
         /\ \A i, j \in 1..Cardinality(S) : i # j => s[i] # s[j]
         /\ \A x \in S : \E i \in 1..Cardinality(S) : x = s[i]
<1> DEFINE n == Cardinality(S)
<1>1. n \in Nat
  BY FS_CardinalityType
<1>2. s \in [1..n -> S] /\ \A i, j \in 1..n : i # j => s[i] # s[j]
  BY DEF SetToSeqs
<1>3. s \in Injection(1..n, S)
  BY <1>2 DEF Injection, IsInjective
<1>4. IsFiniteSet(1..n) /\ Cardinality(1..n) = n
  BY <1>1, FS_Interval
<1>5. s \in Surjection(1..n, S)
  BY <1>3, <1>4, FS_Injection
<1> QED
  BY <1>1, <1>2, <1>5 DEF Surjection

-----------------------------------------------------------------------------
(* The wrapped handler.                                                    *)

(* The loop of Object has come down to k in the chain c: l are the beans   *)
(* of S above k, in the order of the chain.                                *)
WrapsFrom(c, k, S, l) ==
    /\ l \in Seq(Middlewares)
    /\ \A i \in 1..Len(l) : l[i] \in S /\ \E p \in (k + 1)..Len(c) : l[i] = c[p]
    /\ \A i, j \in 1..Len(l) : i < j =>
          \E p, q \in (k + 1)..Len(c) : p < q /\ l[i] = c[p] /\ l[j] = c[q]
    /\ \A p \in (k + 1)..Len(c) : c[p] \in S => \E i \in 1..Len(l) : l[i] = c[p]

(* Before the loop there is the bare handler.                              *)
LEMMA NothingWrapped ==
  ASSUME NEW c, NEW S, Len(c) \in Nat
  PROVE  WrapsFrom(c, Len(c), S, <<>>)
  BY DEF WrapsFrom

(* One round.                                                              *)
LEMMA WrappedOnce ==
  ASSUME NEW c, NEW k \in Nat, NEW S, NEW l, Len(c) \in Nat, k \in 1..Len(c),
         c[k] \in Middlewares, WrapsFrom(c, k, S, l)
  PROVE  WrapsFrom(c, k - 1, S, IF c[k] \in S THEN <<c[k]>> \o l ELSE l)
<1>1. l \in Seq(Middlewares) /\ Len(l) \in Nat
  BY DEF WrapsFrom
<1>2. (k - 1) + 1 = k /\ k..Len(c) = {k} \cup (k + 1)..Len(c)
  OBVIOUS
<1>3. CASE c[k] \notin S
  BY <1>2, <1>3 DEF WrapsFrom
<1>4. CASE c[k] \in S
  <2> DEFINE u == <<c[k]>> \o l
  <2>1. /\ u \in Seq(Middlewares) /\ Len(u) = Len(l) + 1 /\ u[1] = c[k]
        /\ \A i \in 1..Len(l) : u[i + 1] = l[i]
        /\ \A i \in 1..Len(u) : i = 1 \/ (i - 1 \in 1..Len(l) /\ u[i] = l[i - 1])
    BY <1>1
  <2> HIDE DEF u
  <2>2. ASSUME NEW i \in 1..Len(u)
        PROVE  u[i] \in S /\ \E p \in k..Len(c) : u[i] = c[p]
    <3>1. CASE i = 1
      BY <1>2, <1>4, <2>1, <3>1
    <3>2. CASE i - 1 \in 1..Len(l) /\ u[i] = l[i - 1]
      BY <1>2, <3>2 DEF WrapsFrom
    <3> QED
      BY <2>1, <3>1, <3>2
  <2>3. ASSUME NEW i \in 1..Len(u), NEW j \in 1..Len(u), i < j
        PROVE  \E p, q \in k..Len(c) : p < q /\ u[i] = c[p] /\ u[j] = c[q]
    <3>1. j - 1 \in 1..Len(l) /\ u[j] = l[j - 1]
      BY <1>1, <2>1, <2>3
    <3>2. CASE i = 1
      <4>1. PICK q \in (k + 1)..Len(c) : l[j - 1] = c[q]
        BY <3>1 DEF WrapsFrom
      <4>2. k \in k..Len(c) /\ q \in k..Len(c) /\ k < q
        BY <1>2
      <4> QED
        BY <2>1, <3>1, <3>2, <4>1, <4>2
    <3>3. CASE i # 1
      <4>1. i - 1 \in 1..Len(l) /\ u[i] = l[i - 1] /\ i - 1 < j - 1
        BY <1>1, <2>1, <2>3, <3>3
      <4>2. PICK p \in (k + 1)..Len(c), q \in (k + 1)..Len(c) :
              p < q /\ l[i - 1] = c[p] /\ l[j - 1] = c[q]
        BY <3>1, <4>1 DEF WrapsFrom
      <4> QED
        BY <1>2, <3>1, <4>1, <4>2
    <3> QED
      BY <3>2, <3>3
  <2>4. ASSUME NEW p \in k..Len(c), c[p] \in S
        PROVE  \E i \in 1..Len(u) : u[i] = c[p]
    <3>1. CASE p = k
      BY <1>1, <2>1, <3>1
    <3>2. CASE p \in (k + 1)..Len(c)
      <4>1. PICK i \in 1..Len(l) : l[i] = c[p]
        BY <2>4, <3>2 DEF WrapsFrom
      <4>2. i + 1 \in 1..Len(u) /\ u[i + 1] = c[p]
        BY <1>1, <2>1, <4>1
      <4> QED
        BY <4>2
    <3> QED
      BY <1>2, <3>1, <3>2
  <2>5. WrapsFrom(c, k - 1, S, u)
    BY <1>2, <2>1, <2>2, <2>3, <2>4 DEF WrapsFrom
  <2> QED
    BY <1>4, <2>5 DEF u
<1> QED
  BY <1>3, <1>4

(* The loop has ended.                                                     *)
LEMMA AllWrapped ==
  ASSUME NEW c, NEW S, NEW l, Len(c) \in Nat, WrapsFrom(c, 0, S, l)
  PROVE  /\ \A i \in 1..Len(l) : l[i] \in S
         /\ \A p \in 1..Len(c) : c[p] \in S => \E i \in 1..Len(l) : l[i] = c[p]
<1>1. PICK R : R = 1..Len(c)
  OBVIOUS
<1>2. R = (0 + 1)..Len(c)
  BY <1>1
<1>3. \A i \in 1..Len(l) : l[i] \in S
  BY Zenon DEF WrapsFrom
<1>4. \A p \in R : c[p] \in S => \E i \in 1..Len(l) : l[i] = c[p]
  BY <1>2, Zenon DEF WrapsFrom
<1> QED
  BY <1>1, <1>3, <1>4, Zenon

-----------------------------------------------------------------------------
(* The way of a request.                                                   *)

Phases == {"construct", "wrap", "route", "down", "up", "aborted", "answered", "failed", "closed"}
BeforeRouting == {"construct", "wrap", "route", "failed"}

HandlerBeans == {m \in DOMAIN conf.order : Match(conf, m, req.path)}

(* The deployment, the request and the sorted middlewares do not change.   *)
PlaceInv ==
    /\ conf \in Deployments
    /\ req \in Requests
    /\ chain \in SortedMiddlewares(conf)

(* What Object has wrapped so far; for a path without a handler nothing.   *)
WrapInv ==
    /\ phase = "construct" => at = 0 /\ links = <<>>
    /\ phase \notin {"construct", "failed"} =>
          IF HandlerAt(conf, req.path) # 0
          THEN /\ phase = "wrap" => at <= Len(chain)
               /\ WrapsFrom(chain, IF phase = "wrap" THEN at ELSE 0, HandlerBeans, links)
          ELSE links = <<>> /\ (phase = "wrap" => at = 0)

(* The middlewares that ran are the first ones around the handler, all of  *)
(* them if the handler was reached.                                        *)
VisitInv ==
    /\ visited \in Seq(Middlewares) /\ links \in Seq(Middlewares)
    /\ at \in Nat
    /\ ran = [what |-> ran.what, number |-> ran.number, ctx |-> ran.ctx, wrote |-> ran.wrote]
    /\ phase \in BeforeRouting => visited = <<>>
    /\ phase \in BeforeRouting \cup {"down"} => ran.what = "nothing"
    /\ phase = "down" => Len(visited) = at - 1 /\ at <= Len(links) + 1 /\ at >= 1
    /\ phase = "up" => at <= Len(visited)
    /\ phase \in {"down", "up"} => HandlerAt(conf, req.path) # 0
    /\ Len(visited) <= Len(links)
    /\ \A i \in 1..Len(visited) : visited[i] = links[i]
    /\ ran.what \in {"app", "healthz"} =>
          Len(visited) = Len(links) /\ HandlerAt(conf, req.path) # 0

PathInv == PlaceInv /\ phase \in Phases /\ WrapInv /\ VisitInv

(* What the chain is.                                                      *)
LEMMA ChainFacts ==
  ASSUME PlaceInv
  PROVE  /\ chain \in Seq(Middlewares) /\ Len(chain) \in Nat /\ DOMAIN chain = 1..Len(chain)
         /\ \A p, q \in 1..Len(chain) : p # q => chain[p] # chain[q]
         /\ \A p, q \in 1..Len(chain) : p < q =>
               /\ conf.order[chain[p]] <= conf.order[chain[q]]
               /\ conf.order[chain[p]] \in Int /\ conf.order[chain[q]] \in Int
         /\ \A m \in DOMAIN conf.order : \E p \in 1..Len(chain) : m = chain[p]
         /\ \A p \in 1..Len(chain) : chain[p] \in DOMAIN conf.order
         /\ DOMAIN conf.order \subseteq Middlewares
<1> DEFINE S == DOMAIN conf.order
<1>1. S \subseteq Middlewares /\ \A m \in S : conf.order[m] \in Int
  BY DeploymentAssumption DEF PlaceInv
<1>2. IsFiniteSet(Middlewares)
  <2>1. \A T, x : IsFiniteSet(T) => IsFiniteSet(T \cup {x})
    BY FS_AddElement
  <2>2. IsFiniteSet({})
    BY FS_EmptySet
  <2>3. IsFiniteSet((((((({} \cup {"cors"}) \cup {"requestid"}) \cup {"auth"})
                      \cup {"ratelimit"}) \cup {"accesslog"}) \cup {"metrics"}) \cup {"gzip"})
    BY <2>1, <2>2, Zenon
  <2>4. Middlewares = (((((({} \cup {"cors"}) \cup {"requestid"}) \cup {"auth"})
                      \cup {"ratelimit"}) \cup {"accesslog"}) \cup {"metrics"}) \cup {"gzip"}
    BY DEF Middlewares
  <2> QED
    BY <2>3, <2>4, Zenon
<1>3. IsFiniteSet(S)
  BY <1>1, <1>2, FS_Subset
<1>4. chain \in SetToSeqs(S) /\ \A i, j \in DOMAIN chain : i < j => conf.order[chain[i]] <= conf.order[chain[j]]
  BY DEF PlaceInv, SortedMiddlewares
<1> HIDE DEF S
<1>5. /\ Len(chain) = Cardinality(S) /\ Cardinality(S) \in Nat /\ chain \in [1..Cardinality(S) -> S]
      /\ chain \in Seq(S)
      /\ \A i, j \in 1..Cardinality(S) : i # j => chain[i] # chain[j]
      /\ \A x \in S : \E i \in 1..Cardinality(S) : x = chain[i]
  BY <1>3, <1>4, AllElements
<1>6. chain \in Seq(Middlewares) /\ DOMAIN chain = 1..Len(chain) /\ \A p \in 1..Len(chain) : chain[p] \in S
  BY <1>1, <1>5
<1> QED
  BY <1>1, <1>4, <1>5, <1>6 DEF S

(* Nothing moves: the deployment, the request, what is wrapped.            *)
LEMMA PlaceKept ==
  ASSUME PlaceInv, UNCHANGED place
  PROVE  /\ PlaceInv'
         /\ HandlerBeans' = HandlerBeans
         /\ HandlerAt(conf, req.path)' = HandlerAt(conf, req.path)
         /\ chain' = chain /\ conf' = conf /\ req' = req
<1>1. conf' = conf /\ req' = req /\ chain' = chain
  BY DEF place
<1> QED
  BY <1>1 DEF PlaceInv, HandlerBeans

(* Once it is wrapped, the handler stays as it is.                         *)
LEMMA WrapKept ==
  ASSUME PlaceInv, WrapInv, UNCHANGED place, links' = links,
         phase \notin {"construct", "wrap", "failed"},
         phase' \notin {"construct", "wrap", "failed"}
  PROVE  WrapInv'
<1>1. /\ HandlerBeans' = HandlerBeans
      /\ HandlerAt(conf, req.path)' = HandlerAt(conf, req.path)
      /\ chain' = chain
  BY PlaceKept
<1> QED
  BY <1>1 DEF WrapInv

(* The beginning.                                                          *)
LEMMA PathInit ==
  ASSUME Init
  PROVE  PathInv
<1>1. PlaceInv
  BY DEF Init, PlaceInv
<1>2. WrapInv
  BY DEF Init, WrapInv
<1>3. /\ phase = "construct" /\ links = <<>> /\ at = 0 /\ visited = <<>>
      /\ ran.what = "nothing"
      /\ ran = [what |-> ran.what, number |-> ran.number, ctx |-> ran.ctx, wrote |-> ran.wrote]
  BY DEF Init
<1>4. VisitInv
  BY <1>3 DEF VisitInv
<1> QED
  BY <1>1, <1>2, <1>3, <1>4 DEF PathInv, Phases

(* The rounds of the loop, and what is around it.                          *)
LEMMA PathWrap ==
  ASSUME PathInv, Construct \/ Wrap \/ Listen
  PROVE  PathInv'
<1>1. PlaceInv /\ WrapInv /\ VisitInv /\ phase \in Phases
  BY DEF PathInv
<1>2. UNCHANGED place /\ visited' = visited /\ ran' = ran
  BY DEF Construct, Wrap, Listen, history
<1>3. /\ PlaceInv'
      /\ HandlerBeans' = HandlerBeans
      /\ HandlerAt(conf, req.path)' = HandlerAt(conf, req.path)
      /\ chain' = chain /\ conf' = conf /\ req' = req
  BY <1>1, <1>2, PlaceKept
<1>4. /\ chain \in Seq(Middlewares) /\ Len(chain) \in Nat
      /\ \A p \in 1..Len(chain) : chain[p] \in DOMAIN conf.order
      /\ DOMAIN conf.order \subseteq Middlewares
  BY <1>1, ChainFacts
<1>5. CASE Construct
  <2>1. /\ phase = "construct" /\ phase' \in {"wrap", "failed"} /\ links' = links
        /\ at' = IF HandlerAt(conf, req.path) # 0 THEN Len(chain) ELSE 0
    BY <1>5 DEF Construct
  <2>2. WrapsFrom(chain, Len(chain), HandlerBeans, <<>>)
    BY <1>4, NothingWrapped
  <2>3. links = <<>>
    BY <1>1, <2>1 DEF WrapInv
  <2>4. WrapInv'
    BY <1>3, <1>4, <2>1, <2>2, <2>3 DEF WrapInv
  <2>5. VisitInv'
    BY <1>1, <1>2, <1>4, <2>1 DEF VisitInv, BeforeRouting
  <2> QED
    BY <1>3, <2>1, <2>4, <2>5 DEF PathInv, Phases
<1>6. CASE Wrap
  <2>1. /\ phase = "wrap" /\ phase' = "wrap" /\ at > 0 /\ at' = at - 1
        /\ links' = Wrapped(conf, chain[at], req.path, links)
    BY <1>6 DEF Wrap
  <2>2. HandlerAt(conf, req.path) # 0 /\ at <= Len(chain)
        /\ WrapsFrom(chain, at, HandlerBeans, links)
    BY <1>1, <2>1 DEF WrapInv
  <2>3. at \in Nat /\ at \in 1..Len(chain) /\ at' \in Nat /\ at' <= Len(chain)
    BY <1>1, <1>4, <2>1, <2>2 DEF VisitInv
  <2>4. chain[at] \in Middlewares /\ chain[at] \in DOMAIN conf.order
    BY <1>4, <2>3
  <2>5. links' = IF chain[at] \in HandlerBeans THEN <<chain[at]>> \o links ELSE links
    BY <2>1, <2>4 DEF Wrapped, HandlerBeans
  <2>6. WrapsFrom(chain, at - 1, HandlerBeans, links')
    BY <1>4, <2>2, <2>3, <2>4, <2>5, WrappedOnce
  <2>7. WrapInv'
    BY <1>3, <2>1, <2>2, <2>3, <2>6 DEF WrapInv
  <2>8. links' \in Seq(Middlewares) /\ Len(links') \in Nat
    BY <2>6 DEF WrapsFrom
  <2>9. VisitInv'
    BY <1>1, <1>2, <2>1, <2>3, <2>8 DEF VisitInv, BeforeRouting
  <2> QED
    BY <1>3, <2>1, <2>7, <2>9 DEF PathInv, Phases
<1>7. CASE Listen
  <2>1. phase = "wrap" /\ phase' = "route" /\ at = 0 /\ at' = at /\ links' = links
    BY <1>7 DEF Listen
  <2>2. WrapInv'
    BY <1>1, <1>3, <2>1 DEF WrapInv
  <2>3. VisitInv'
    BY <1>1, <1>2, <2>1 DEF VisitInv, BeforeRouting
  <2> QED
    BY <1>3, <2>1, <2>2, <2>3 DEF PathInv, Phases
<1> QED
  BY <1>5, <1>6, <1>7

-----------------------------------------------------------------------------
(* What mux makes of the routes.                                           *)

AssetAt(c, path) == "assets" \in c.options /\ IsAsset(c, path)

(* Where the request goes, whatever the order of the assets' registration. *)
Routed ==
    CASE HandlerAt(conf, req.path) # 0 -> "handler"
      [] HandlerAt(conf, req.path) = 0 /\ AssetAt(conf, req.path) -> "asset"
      [] HandlerAt(conf, req.path) = 0 /\ ~AssetAt(conf, req.path)
            /\ SpaFallback(conf, req.path, req.method) -> "index"
      [] OTHER -> "notFound"

(* HandlerAt is the first handler of the pattern.                          *)
LEMMA FirstHandler ==
  ASSUME PlaceInv, HandlerAt(conf, req.path) # 0
  PROVE  /\ HandlerAt(conf, req.path) \in 1..Len(conf.handlers)
         /\ "handlers" \in conf.options
         /\ conf.handlers[HandlerAt(conf, req.path)].pattern = req.path
         /\ \A i \in 1..(HandlerAt(conf, req.path) - 1) : conf.handlers[i].pattern # req.path
<1> DEFINE I == {i \in 1..Len(conf.handlers) : conf.handlers[i].pattern = req.path}
<1>1. "handlers" \in conf.options /\ I # {} /\ HandlerAt(conf, req.path) = Min(I)
  BY DEF HandlerAt, SelectInSeq
<1>2. Len(conf.handlers) \in Nat
  BY DeploymentAssumption DEF PlaceInv
<1>3. I \in SUBSET Nat
  BY <1>2
<1>4. Min(I) \in I /\ \A x \in I : Min(I) <= x
  BY <1>1, <1>3, LeastNumber
<1>5. \A i \in 1..(Min(I) - 1) : i \in 1..Len(conf.handlers) /\ ~(Min(I) <= i)
  BY <1>2, <1>4
<1> QED
  BY <1>1, <1>4, <1>5

(* Without one, there is none of the pattern.                              *)
LEMMA NoHandler ==
  ASSUME HandlerAt(conf, req.path) = 0, "handlers" \in conf.options, PlaceInv
  PROVE  \A i \in DOMAIN conf.handlers : conf.handlers[i].pattern # req.path
<1> DEFINE I == {i \in 1..Len(conf.handlers) : conf.handlers[i].pattern = req.path}
<1>1. Len(conf.handlers) \in Nat /\ DOMAIN conf.handlers = 1..Len(conf.handlers)
  BY DeploymentAssumption DEF PlaceInv
<1>2. I # {} => Min(I) = 0
  BY DEF HandlerAt, SelectInSeq
<1>3. I \in SUBSET Nat
  BY <1>1
<1>4. I # {} => Min(I) \in I
  BY <1>3, LeastNumber
<1>5. 0 \notin I
  BY <1>1
<1>6. I = {}
  BY <1>2, <1>4, <1>5
<1> QED
  BY <1>1, <1>6

(* What is an asset: a name of a resource, of either variant.              *)
LEMMA AssetMeans ==
  ASSUME PlaceInv, NEW path
  PROVE  IsAsset(conf, path) <=>
            \E i \in DOMAIN conf.resources :
                conf.resources[i].assets /\ path \in Patterns(conf.resources[i])
<1> DEFINE I(gz) == {i \in 1..Len(conf.resources) : Serves(conf.resources[i], path, gz)}
<1>1. /\ Len(conf.resources) \in Nat /\ DOMAIN conf.resources = 1..Len(conf.resources)
      /\ \A i \in DOMAIN conf.resources : conf.resources[i].gzip \in BOOLEAN
  <2> DEFINE R == [assets : BOOLEAN, gzip : BOOLEAN, names : SUBSET Seq(STRING)]
  <2>1. conf.resources \in Seq(R)
    BY DeploymentAssumption DEF PlaceInv
  <2>2. \A r \in R : r.gzip \in BOOLEAN
    OBVIOUS
  <2> HIDE DEF R
  <2> QED
    BY <2>1, <2>2
<1>2. ASSUME NEW gz
      PROVE  AssetHandler(conf, path, gz) # 0 <=> I(gz) # {}
  <2>1. AssetHandler(conf, path, gz) = IF I(gz) # {} THEN Max(I(gz)) ELSE 0
    BY DEF AssetHandler, SelectLastInSeq
  <2>2. I(gz) \in SUBSET (1..Len(conf.resources))
    OBVIOUS
  <2> HIDE DEF I
  <2>3. I(gz) # {} => Max(I(gz)) \in 1..Len(conf.resources)
    BY <1>1, <2>2, GreatestNumber
  <2> QED
    BY <1>1, <2>1, <2>3
<1>3. IsAsset(conf, path) <=> \E gz \in BOOLEAN : I(gz) # {}
  BY <1>2 DEF IsAsset
<1> QED
  BY <1>1, <1>3 DEF Serves

(* The assets have finitely many patterns.                                 *)
LEMMA FinitePatterns ==
  ASSUME PlaceInv
  PROVE  IsFiniteSet(UNION {Patterns(conf.resources[i]) :
                               i \in {j \in DOMAIN conf.resources : conf.resources[j].assets}})
<1> DEFINE A == {j \in DOMAIN conf.resources : conf.resources[j].assets}
           F == {Patterns(conf.resources[i]) : i \in A}
<1>1. /\ Len(conf.resources) \in Nat /\ DOMAIN conf.resources = 1..Len(conf.resources)
      /\ \A i \in DOMAIN conf.resources : IsFiniteSet(conf.resources[i].names)
  BY DeploymentAssumption DEF PlaceInv
<1>2. IsFiniteSet(A)
  <2>1. IsFiniteSet(1..Len(conf.resources))
    BY <1>1, FS_Interval
  <2> QED
    BY <1>1, <2>1, FS_Subset
<1>3. IsFiniteSet(F)
  <2> DEFINE f == [i \in A |-> Patterns(conf.resources[i])]
  <2>1. f \in Surjection(A, F)
    BY DEF Surjection
  <2> QED
    BY <1>2, <2>1, FS_Surjection
<1>4. ASSUME NEW i \in A
      PROVE  IsFiniteSet(Patterns(conf.resources[i]))
  <2> DEFINE N == conf.resources[i].names
  <2>1. IsFiniteSet({<<"/">> \o n : n \in N})
    <3> DEFINE G == {<<"/">> \o n : n \in N}
               g == [n \in N |-> <<"/">> \o n]
    <3>1. g \in Surjection(N, G)
      BY DEF Surjection
    <3> QED
      BY <1>1, <3>1, FS_Surjection
  <2>2. IsFiniteSet({}) /\ IsFiniteSet({<<"/">>})
    BY FS_EmptySet, FS_Singleton
  <2> QED
    BY <2>1, <2>2, FS_Union DEF Patterns
<1>5. \A T \in F : IsFiniteSet(T)
  BY <1>4
<1> HIDE DEF F
<1>6. IsFiniteSet(UNION F)
  BY <1>3, <1>5, FS_UNION
<1> QED
  BY <1>6 DEF F

(* A function on 1..n is a sequence.                                       *)
LEMMA SequenceOf ==
  ASSUME NEW n \in Nat, NEW f, f = [i \in 1..n |-> f[i]]
  PROVE  Len(f) = n /\ f \in Seq(Range(f))
<1>1. DOMAIN f = 1..n /\ \A i \in 1..n : f[i] \in Range(f)
  BY DEF Range
<1>2. f \in [1..n -> Range(f)]
  BY <1>1
<1> QED
  BY <1>2

(* A registration is the handlers, then every asset.                       *)
LEMMA RegisteredRoutes ==
  ASSUME PlaceInv, NEW routes \in Registrations(conf)
  PROVE  \E h, n \in Nat :
            /\ Len(routes) = n /\ h <= n
            /\ \A i \in 1..h : routes[i].to = "handler"
            /\ \A i \in (h + 1)..n : routes[i].to = "asset"
            /\ \A path :
                  /\ (\E i \in 1..h : routes[i].pattern = path) <=>
                     ("handlers" \in conf.options /\
                         \E i \in DOMAIN conf.handlers : conf.handlers[i].pattern = path)
                  /\ (\E i \in (h + 1)..n : routes[i].pattern = path) <=> AssetAt(conf, path)
<1> DEFINE S == UNION {Patterns(conf.resources[i]) :
                         i \in {j \in DOMAIN conf.resources : conf.resources[j].assets}}
           H == HandlerRoutes(conf)
<1>1. PICK a \in AssetRoutes(conf) : routes = H \o a
  BY DEF Registrations
<1>2. /\ H \in Seq(Range(H)) /\ \A i \in 1..Len(H) : H[i].to = "handler"
      /\ \A path : (\E i \in 1..Len(H) : H[i].pattern = path) <=>
            ("handlers" \in conf.options /\
                \E i \in DOMAIN conf.handlers : conf.handlers[i].pattern = path)
  <2>1. conf.handlers \in Seq([pattern : Seq(STRING), kind : {"app", "healthz"}])
    BY DeploymentAssumption DEF PlaceInv
  <2>2. CASE "handlers" \in conf.options
    <3>1. H = [i \in 1..Len(conf.handlers) |->
                  [to |-> "handler", pattern |-> conf.handlers[i].pattern]]
      BY <2>1, <2>2 DEF HandlerRoutes
    <3>2. Len(conf.handlers) \in Nat /\ DOMAIN conf.handlers = 1..Len(conf.handlers)
      BY <2>1
    <3> HIDE DEF H
    <3>3. \A i \in 1..Len(conf.handlers) :
             H[i].to = "handler" /\ H[i].pattern = conf.handlers[i].pattern
      BY <3>1
    <3>4. Len(H) = Len(conf.handlers) /\ H \in Seq(Range(H))
      BY <3>1, <3>2, SequenceOf
    <3> QED
      BY <2>2, <3>2, <3>3, <3>4
  <2>3. CASE "handlers" \notin conf.options
    BY <2>3 DEF HandlerRoutes, Range
  <2> QED
    BY <2>2, <2>3
<1>3. /\ a \in Seq(Range(a)) /\ \A i \in 1..Len(a) : a[i].to = "asset"
      /\ \A path : (\E i \in 1..Len(a) : a[i].pattern = path) <=> AssetAt(conf, path)
  <2>1. \A path : path \in S <=> IsAsset(conf, path)
    BY AssetMeans
  <2>2. IsFiniteSet(S)
    BY FinitePatterns
  <2>3. CASE "assets" \in conf.options
    <3>1. PICK s \in SetToSeqs(S) : a = [i \in DOMAIN s |-> [to |-> "asset", pattern |-> s[i]]]
      BY <2>3 DEF AssetRoutes
    <3> HIDE DEF S
    <3>2. /\ Cardinality(S) \in Nat /\ s \in [1..Cardinality(S) -> S]
          /\ \A x \in S : \E i \in 1..Cardinality(S) : x = s[i]
      BY <2>2, AllElements
    <3>3. /\ Len(a) = Cardinality(S) /\ a \in Seq(Range(a))
          /\ \A i \in 1..Len(a) : a[i].to = "asset" /\ a[i].pattern = s[i]
      <4>1. a = [i \in 1..Cardinality(S) |-> [to |-> "asset", pattern |-> s[i]]]
        BY <3>1, <3>2
      <4>2. Len(a) = Cardinality(S) /\ a \in Seq(Range(a))
        BY <3>2, <4>1, SequenceOf
      <4> QED
        BY <4>1, <4>2
    <3> QED
      BY <2>1, <2>3, <3>2, <3>3 DEF AssetAt
  <2>4. CASE "assets" \notin conf.options
    BY <2>4 DEF AssetRoutes, AssetAt, Range
  <2> QED
    BY <2>3, <2>4
<1> HIDE DEF H, S
<1>4. /\ Len(H) \in Nat /\ Len(routes) = Len(H) + Len(a)
      /\ \A i \in 1..Len(H) : routes[i] = H[i]
      /\ \A i \in (Len(H) + 1)..Len(routes) : i - Len(H) \in 1..Len(a) /\ routes[i] = a[i - Len(H)]
      /\ \A i \in 1..Len(a) : i + Len(H) \in (Len(H) + 1)..Len(routes) /\ routes[i + Len(H)] = a[i]
  BY <1>1, <1>2, <1>3
<1>5. /\ \A i \in 1..Len(H) : routes[i].to = "handler"
      /\ \A i \in (Len(H) + 1)..Len(routes) : routes[i].to = "asset"
  <2>1. ASSUME NEW i \in 1..Len(H)
        PROVE  routes[i].to = "handler"
    <3>1. routes[i] = H[i]
      BY <1>4
    <3> QED
      BY <1>2, <3>1
  <2>2. ASSUME NEW i \in (Len(H) + 1)..Len(routes)
        PROVE  routes[i].to = "asset"
    <3>1. PICK j \in 1..Len(a) : routes[i] = a[j]
      BY <1>4
    <3> QED
      BY <1>3, <3>1
  <2> QED
    BY <2>1, <2>2
<1>6. ASSUME NEW path
      PROVE  /\ (\E i \in 1..Len(H) : routes[i].pattern = path) <=>
                ("handlers" \in conf.options /\
                    \E i \in DOMAIN conf.handlers : conf.handlers[i].pattern = path)
             /\ (\E i \in (Len(H) + 1)..Len(routes) : routes[i].pattern = path) <=> AssetAt(conf, path)
  <2>1. (\E i \in 1..Len(H) : routes[i].pattern = path) <=> \E i \in 1..Len(H) : H[i].pattern = path
    BY <1>4
  <2>2. (\E i \in (Len(H) + 1)..Len(routes) : routes[i].pattern = path) <=>
           \E i \in 1..Len(a) : a[i].pattern = path
    BY <1>4
  <2> QED
    BY <1>2, <1>3, <2>1, <2>2
<1>7. Len(H) <= Len(routes) /\ Len(routes) \in Nat
  BY <1>3, <1>4
<1> QED
  BY <1>4, <1>5, <1>6, <1>7

(* The map of the assets may be walked in any order: what answers is the   *)
(* same, and a handler comes before an asset of its pattern.               *)
THEOREM AnyRegistrationOrder ==
  ASSUME PlaceInv, NEW routes \in Registrations(conf)
  PROVE  Route(conf, routes, req.path, req.method) = Routed
<1>1. PICK h \in Nat, n \in Nat :
         /\ Len(routes) = n /\ h <= n
         /\ \A i \in 1..h : routes[i].to = "handler"
         /\ \A i \in (h + 1)..n : routes[i].to = "asset"
         /\ \A path :
               /\ (\E i \in 1..h : routes[i].pattern = path) <=>
                  ("handlers" \in conf.options /\
                      \E i \in DOMAIN conf.handlers : conf.handlers[i].pattern = path)
               /\ (\E i \in (h + 1)..n : routes[i].pattern = path) <=> AssetAt(conf, path)
  BY RegisteredRoutes
<1> DEFINE I == {i \in 1..Len(routes) : routes[i].pattern = req.path}
           first == IF I # {} THEN Min(I) ELSE 0
<1>2. Route(conf, routes, req.path, req.method) =
        CASE first # 0 -> routes[first].to
          [] first = 0 /\ SpaFallback(conf, req.path, req.method) -> "index"
          [] OTHER -> "notFound"
  BY DEF Route, SelectInSeq
<1>3. HandlerAt(conf, req.path) # 0 <=> \E i \in 1..h : i \in I
  <2>1. HandlerAt(conf, req.path) # 0 <=>
          ("handlers" \in conf.options /\
              \E i \in DOMAIN conf.handlers : conf.handlers[i].pattern = req.path)
    <3>1. DOMAIN conf.handlers = 1..Len(conf.handlers)
      BY DeploymentAssumption DEF PlaceInv
    <3>2. CASE HandlerAt(conf, req.path) # 0
      BY <3>1, <3>2, FirstHandler
    <3>3. CASE HandlerAt(conf, req.path) = 0
      BY <3>3, NoHandler
    <3> QED
      BY <3>2, <3>3
  <2>2. \A i \in 1..h : i \in I <=> routes[i].pattern = req.path
    BY <1>1
  <2> QED
    BY <1>1, <2>1, <2>2
<1>4. AssetAt(conf, req.path) <=> \E i \in (h + 1)..n : i \in I
  <2>1. \A i \in (h + 1)..n : i \in I <=> routes[i].pattern = req.path
    BY <1>1
  <2> QED
    BY <1>1, <2>1
<1>5. I \in SUBSET Nat /\ \A i \in I : i \in 1..h \/ i \in (h + 1)..n
  BY <1>1
<1>6. I # {} => Min(I) \in I /\ \A x \in I : Min(I) <= x
  BY <1>5, LeastNumber
<1>7. 0 \notin I
  BY <1>1
<1> HIDE DEF I
<1>8. CASE HandlerAt(conf, req.path) # 0
  <2>1. PICK i \in 1..h : i \in I
    BY <1>3, <1>8
  <2>2. Min(I) \in I /\ Min(I) <= i /\ Min(I) \in Nat
    BY <1>5, <1>6, <2>1
  <2>3. Min(I) \in 1..h
    BY <1>5, <2>2
  <2>4. first = Min(I) /\ first # 0 /\ routes[first].to = "handler"
    BY <1>1, <2>1, <2>3
  <2>5. Route(conf, routes, req.path, req.method) = "handler"
    BY <1>2, <2>4
  <2> QED
    BY <1>8, <2>5 DEF Routed
<1>9. CASE HandlerAt(conf, req.path) = 0 /\ AssetAt(conf, req.path)
  <2>1. I # {} /\ Min(I) \in I
    BY <1>4, <1>6, <1>9
  <2>2. Min(I) \in (h + 1)..n
    BY <1>3, <1>5, <1>9, <2>1
  <2>3. first = Min(I) /\ first # 0 /\ routes[first].to = "asset"
    BY <1>1, <1>7, <2>1, <2>2
  <2>4. Route(conf, routes, req.path, req.method) = "asset"
    BY <1>2, <2>3
  <2> QED
    BY <1>9, <2>4 DEF Routed
<1>10. CASE HandlerAt(conf, req.path) = 0 /\ ~AssetAt(conf, req.path)
  <2>1. first = 0
    BY <1>3, <1>4, <1>5, <1>10
  <2>2. CASE SpaFallback(conf, req.path, req.method)
    BY <1>2, <1>10, <2>1, <2>2 DEF Routed
  <2>3. CASE ~SpaFallback(conf, req.path, req.method)
    BY <1>2, <1>10, <2>1, <2>3 DEF Routed
  <2> QED
    BY <2>2, <2>3
<1> QED
  BY <1>8, <1>9, <1>10

LEMMA RoutingRoutes ==
  ASSUME PlaceInv, Routing
  PROVE  RouteHandler(Routed) \/ RouteAsset(Routed) \/ RouteNotFound(Routed)
<1>1. PICK routes \in Registrations(conf) :
         LET to == Route(conf, routes, req.path, req.method)
         IN  RouteHandler(to) \/ RouteAsset(to) \/ RouteNotFound(to)
  BY DEF Routing
<1>2. Route(conf, routes, req.path, req.method) = Routed
  BY AnyRegistrationOrder
<1> QED
  BY <1>1, <1>2

(* A handler is wrapped for this request, once it is on its way.           *)
LEMMA PathRoute ==
  ASSUME PathInv, RouteHandler(Routed) \/ RouteAsset(Routed) \/ RouteNotFound(Routed)
  PROVE  PathInv'
<1>1. PlaceInv /\ WrapInv /\ VisitInv /\ phase = "route"
  BY DEF PathInv, RouteHandler, RouteAsset, RouteNotFound
<1>2. UNCHANGED place /\ visited' = visited /\ links' = links /\ phase' \in {"down", "answered"}
  BY DEF RouteHandler, RouteAsset, ServeAsset, RouteNotFound, history
<1>3. PlaceInv' /\ HandlerAt(conf, req.path)' = HandlerAt(conf, req.path)
  BY <1>1, <1>2, PlaceKept
<1>4. WrapInv'
  BY <1>1, <1>2, WrapKept
<1>5. visited = <<>> /\ ran.what = "nothing" /\ Len(links) \in Nat /\ Len(visited) = 0
  BY <1>1 DEF VisitInv, BeforeRouting
<1>6. CASE RouteHandler(Routed)
  <2>1. ran' = ran /\ at' = 1 /\ phase' = "down"
    BY <1>6 DEF RouteHandler, history
  <2>2. HandlerAt(conf, req.path) # 0
    BY <1>6 DEF RouteHandler, Routed
  <2> QED
    BY <1>1, <1>2, <1>3, <1>4, <1>5, <2>1, <2>2 DEF PathInv, VisitInv, Phases, BeforeRouting
<1>7. CASE RouteAsset(Routed) \/ RouteNotFound(Routed)
  <2>1. phase' = "answered" /\ at' = at
    BY <1>7 DEF RouteAsset, ServeAsset, RouteNotFound
  <2>2. ran'.what \notin {"app", "healthz"}
        /\ ran' = [what |-> ran'.what, number |-> ran'.number, ctx |-> ran'.ctx, wrote |-> ran'.wrote]
    <3>1. CASE RouteNotFound(Routed)
      BY <1>1, <1>5, <3>1 DEF RouteNotFound, history, VisitInv
    <3>2. CASE RouteAsset(Routed)
      <4>1. ASSUME NEW w \in {"asset", "index"}, NEW path, ServeAsset(w, path)
            PROVE  /\ ran'.what \notin {"app", "healthz"}
                   /\ ran' = [what |-> ran'.what, number |-> ran'.number, ctx |-> ran'.ctx,
                              wrote |-> ran'.wrote]
        <5>1. ran' = [ran EXCEPT !.what = w, !.number = AssetServed(conf, path, req.accept)]
          BY <4>1 DEF ServeAsset
        <5> QED
          BY <1>1, <5>1 DEF VisitInv
      <4> QED
        BY <3>2, <4>1 DEF RouteAsset
    <3> QED
      BY <1>7, <3>1, <3>2
  <2> QED
    BY <1>1, <1>2, <1>3, <1>4, <1>5, <2>1, <2>2 DEF PathInv, VisitInv, Phases, BeforeRouting
<1> QED
  BY <1>6, <1>7

(* A middleware's turn: it passes the request on ...                       *)
LEMMA PathOn ==
  ASSUME PathInv, Turn(Middlewares), PassOn
  PROVE  PathInv'
<1>1. PlaceInv /\ WrapInv /\ VisitInv /\ phase = "down"
  BY DEF PathInv, Turn
<1>2. UNCHANGED place /\ links' = links /\ phase' = "down" /\ ran' = ran
  BY <1>1 DEF PassOn
<1>3. PlaceInv' /\ HandlerAt(conf, req.path)' = HandlerAt(conf, req.path)
  BY <1>1, <1>2, PlaceKept
<1>4. WrapInv'
  BY <1>1, <1>2, WrapKept
<1>5. /\ at <= Len(links) /\ links[at] \in Middlewares
      /\ visited' = Append(visited, links[at]) /\ at' = at + 1
  BY DEF Turn, PassOn
<1>6. VisitInv'
  <2>1. /\ visited \in Seq(Middlewares) /\ Len(visited) = at - 1 /\ at \in Nat /\ at >= 1
        /\ links \in Seq(Middlewares) /\ Len(links) \in Nat
        /\ \A i \in 1..Len(visited) : visited[i] = links[i]
    BY <1>1 DEF VisitInv
  <2>2. /\ visited' \in Seq(Middlewares) /\ Len(visited') = at
        /\ \A i \in 1..Len(visited') : visited'[i] = links[i]
    BY <1>5, <2>1
  <2> QED
    BY <1>1, <1>2, <1>3, <1>5, <2>1, <2>2 DEF VisitInv, BeforeRouting
<1> QED
  BY <1>2, <1>3, <1>4, <1>6 DEF PathInv, Phases

(* ... or answers.                                                         *)
LEMMA PathBack ==
  ASSUME PathInv, Turn(Middlewares), NEW code, Answer(code)
  PROVE  PathInv'
<1>1. PlaceInv /\ WrapInv /\ VisitInv /\ phase = "down"
  BY DEF PathInv, Turn
<1>2. UNCHANGED place /\ links' = links /\ phase' = "up" /\ ran' = ran
  BY <1>1 DEF Answer
<1>3. PlaceInv' /\ HandlerAt(conf, req.path)' = HandlerAt(conf, req.path)
  BY <1>1, <1>2, PlaceKept
<1>4. WrapInv'
  BY <1>1, <1>2, WrapKept
<1>5. /\ at <= Len(links) /\ links[at] \in Middlewares
      /\ visited' = Append(visited, links[at]) /\ at' = at - 1
  BY DEF Turn, Answer
<1>6. VisitInv'
  <2>1. /\ visited \in Seq(Middlewares) /\ Len(visited) = at - 1 /\ at \in Nat /\ at >= 1
        /\ links \in Seq(Middlewares) /\ Len(links) \in Nat
        /\ \A i \in 1..Len(visited) : visited[i] = links[i]
        /\ ran.what = "nothing"
    BY <1>1 DEF VisitInv
  <2>2. /\ visited' \in Seq(Middlewares) /\ Len(visited') = at
        /\ \A i \in 1..Len(visited') : visited'[i] = links[i]
    BY <1>5, <2>1
  <2> QED
    BY <1>1, <1>2, <1>3, <1>5, <2>1, <2>2 DEF VisitInv, BeforeRouting
<1> QED
  BY <1>2, <1>3, <1>4, <1>6 DEF PathInv, Phases

(* The handler runs.                                                       *)
LEMMA PathRun ==
  ASSUME PathInv, AtHandler, NEW what, NEW cs, Run(what, cs)
  PROVE  PathInv'
<1>1. PlaceInv /\ WrapInv /\ VisitInv /\ phase = "down" /\ at = Len(links) + 1
  BY DEF PathInv, AtHandler
<1>2. /\ UNCHANGED place /\ links' = links /\ phase' = "up" /\ visited' = visited /\ at' = at - 1
      /\ ran' = [what |-> what, number |-> HandlerAt(conf, req.path), ctx |-> ctx, wrote |-> cs]
  BY <1>1 DEF Run
<1>3. PlaceInv' /\ HandlerAt(conf, req.path)' = HandlerAt(conf, req.path)
  BY <1>1, <1>2, PlaceKept
<1>4. WrapInv'
  BY <1>1, <1>2, WrapKept
<1>5. /\ Len(visited) = at - 1 /\ at \in Nat /\ Len(links) \in Nat
      /\ HandlerAt(conf, req.path) # 0
  BY <1>1 DEF VisitInv
<1>6. ran' = [what |-> ran'.what, number |-> ran'.number, ctx |-> ran'.ctx, wrote |-> ran'.wrote]
  BY <1>2
<1>7. VisitInv'
  BY <1>1, <1>2, <1>3, <1>5, <1>6 DEF VisitInv, BeforeRouting
<1> QED
  BY <1>2, <1>3, <1>4, <1>7 DEF PathInv, Phases

(* The way up, the call that follows and the steps that end the request.   *)
LEMMA PathUp ==
  ASSUME PathInv, UNCHANGED <<place, links, visited, ran>>,
         \/ phase = "up" /\ phase' = "up" /\ at > 0 /\ at' = at - 1
         \/ phase = "up" /\ at = 0 /\ phase' = "answered" /\ at' = at
         \/ phase = "down" /\ phase' = "aborted" /\ at' = at
         \/ phase = "answered" /\ phase' = "closed" /\ at' = at
  PROVE  PathInv'
<1>1. PlaceInv /\ WrapInv /\ VisitInv
  BY DEF PathInv
<1>2. PlaceInv' /\ HandlerAt(conf, req.path)' = HandlerAt(conf, req.path)
  BY <1>1, PlaceKept
<1>3. WrapInv'
  BY <1>1, WrapKept
<1>4. VisitInv'
  BY <1>1, <1>2 DEF VisitInv, BeforeRouting
<1> QED
  BY <1>2, <1>3, <1>4 DEF PathInv, Phases

(* Nothing happens.                                                        *)
LEMMA PathStutter ==
  ASSUME PathInv, UNCHANGED vars
  PROVE  PathInv'
<1>1. UNCHANGED place /\ UNCHANGED <<links, at, phase, visited, ran>>
  BY DEF vars, history
<1>2. PlaceInv' /\ HandlerAt(conf, req.path)' = HandlerAt(conf, req.path)
      /\ HandlerBeans' = HandlerBeans /\ chain' = chain
  BY <1>1, PlaceKept DEF PathInv
<1> QED
  BY <1>1, <1>2 DEF PathInv, WrapInv, VisitInv
-----------------------------------------------------------------------------
(* Who the request is from.                                                *)

Allowed == req.cred.header = "bearer" /\ Authenticate(conf.auth, req.cred.token) = "ok"
Who == Identity(conf.auth, req.cred.token)

Passed(m) == \E i \in 1..Len(visited) : visited[i] = m

(* Beyond the auth middleware the context has the identity of an accepted  *)
(* token, before it none; the handler got the context of its time.         *)
IdentityInv ==
    /\ ctx = [auth |-> ctx.auth, id |-> ctx.id]
    /\ verdict # "none" => verdict = HttpVerdict(conf.auth, req.cred)
    /\ ~Passed("auth") => ctx.auth = Nobody /\ verdict = "none"
    /\ phase = "down" /\ verdict = "ok" => ctx.auth = Who
    /\ ran.what = "app" /\ verdict = "ok" => ran.ctx.auth = Who
    /\ phase = "down" /\ req.method # "OPTIONS" /\ Passed("auth") => Allowed /\ ctx.auth = Who
    /\ ran.what = "app" /\ ~Passed("auth") => ran.ctx.auth = Nobody
    /\ ran.what = "app" /\ req.method # "OPTIONS" /\ Passed("auth") =>
          Allowed /\ ran.ctx.auth = Who

(* A turn adds its middleware to those that were passed.                   *)
LEMMA PassedOn ==
  ASSUME VisitInv, Turn(Middlewares), NEW m
  PROVE  Passed(m)' <=> (Passed(m) \/ m = links[at])
<1>1. /\ visited \in Seq(Middlewares) /\ links[at] \in Middlewares
      /\ visited' = Append(visited, links[at])
  BY DEF VisitInv, Turn
<1>2. /\ Len(visited') = Len(visited) + 1 /\ Len(visited) \in Nat
      /\ \A i \in 1..Len(visited) : visited'[i] = visited[i]
      /\ visited'[Len(visited) + 1] = links[at]
  BY <1>1
<1> QED
  BY <1>2 DEF Passed

(* A step of none of the actions that concern the identity.                *)
LEMMA IdentityQuiet ==
  ASSUME IdentityInv, UNCHANGED <<place, ctx, verdict, visited>>,
         ran'.what = "app" => ran' = ran,
         phase' = "down" => phase = "down" \/ Len(visited) = 0
  PROVE  IdentityInv'
<1>1. conf' = conf /\ req' = req
  BY DEF place
<1>2. Passed("auth")' <=> Passed("auth")
  BY DEF Passed
<1>3. Allowed' <=> Allowed
  BY <1>1 DEF Allowed
<1>4. Who' = Who
  BY <1>1 DEF Who
<1>5. Len(visited) = 0 => ~Passed("auth")
  BY DEF Passed
<1> QED
  BY <1>1, <1>2, <1>3, <1>4, <1>5 DEF IdentityInv

(* The turn of another middleware.                                         *)
LEMMA IdentityTurn ==
  ASSUME VisitInv, IdentityInv, Turn(Middlewares \ {"auth"}), UNCHANGED <<place, verdict, ran>>,
         ctx' = [auth |-> ctx.auth, id |-> ctx'.id]
  PROVE  IdentityInv'
<1>1. conf' = conf /\ req' = req /\ phase = "down"
  BY DEF place, Turn
<1>2. Turn(Middlewares) /\ links[at] # "auth"
  BY DEF Turn
<1>3. Passed("auth")' <=> Passed("auth")
  BY <1>2, PassedOn
<1>4. Allowed' <=> Allowed
  BY <1>1 DEF Allowed
<1>5. Who' = Who
  BY <1>1 DEF Who
<1>6. ctx'.auth = ctx.auth /\ ctx' = [auth |-> ctx'.auth, id |-> ctx'.id]
  OBVIOUS
<1> QED
  BY <1>1, <1>3, <1>4, <1>5, <1>6 DEF IdentityInv

(* The turn of the auth middleware.                                        *)
LEMMA IdentityAuth ==
  ASSUME VisitInv, IdentityInv, AuthPass \/ AuthRefuse
  PROVE  IdentityInv'
<1>1. Turn({"auth"}) /\ UNCHANGED place /\ ran' = ran
  BY DEF AuthPass, AuthRefuse, PassOn, Answer
<1>2. conf' = conf /\ req' = req /\ phase = "down"
  BY <1>1 DEF place, Turn
<1>3. Turn(Middlewares) /\ links[at] = "auth"
  BY <1>1 DEF Turn, Middlewares
<1>4. Passed("auth")'
  BY <1>3, PassedOn
<1>5. Allowed' <=> Allowed
  BY <1>2 DEF Allowed
<1>6. Who' = Who
  BY <1>2 DEF Who
<1>7. ran.what = "nothing"
  BY <1>2 DEF VisitInv
<1>8. CASE AuthPass
  <2>1. CASE AuthSkips /\ UNCHANGED <<ctx, verdict>>
    <3>1. req.method = "OPTIONS"
      BY <2>1 DEF AuthSkips
    <3> QED
      BY <1>1, <1>2, <1>4, <1>6, <1>7, <2>1, <3>1 DEF IdentityInv
  <2>2. CASE /\ HttpVerdict(conf.auth, req.cred) = "ok"
             /\ ctx' = [ctx EXCEPT !.auth = Identity(conf.auth, req.cred.token)]
             /\ verdict' = "ok"
    <3>1. Allowed
      BY <2>2 DEF HttpVerdict, Allowed
    <3>2. ctx'.auth = Who /\ ctx' = [auth |-> ctx'.auth, id |-> ctx'.id]
      BY <2>2 DEF IdentityInv, Who
    <3> QED
      BY <1>1, <1>2, <1>4, <1>5, <1>6, <1>7, <2>2, <3>1, <3>2 DEF IdentityInv
  <2> QED
    BY <1>8, <2>1, <2>2 DEF AuthPass
<1>9. CASE AuthRefuse
  <2>1. ctx' = ctx /\ verdict' = HttpVerdict(conf.auth, req.cred) /\ phase' = "up"
    BY <1>9 DEF AuthRefuse, Answer
  <2> QED
    BY <1>1, <1>2, <1>4, <1>7, <2>1 DEF IdentityInv
<1> QED
  BY <1>8, <1>9

(* The handler runs.                                                       *)
LEMMA IdentityRun ==
  ASSUME IdentityInv, AtHandler, NEW what, NEW cs, Run(what, cs)
  PROVE  IdentityInv'
<1>1. UNCHANGED <<conf, req, ctx, verdict, visited>> /\ phase = "down" /\ phase' = "up"
  BY DEF Run, place, AtHandler
<1>2. ran' = [what |-> what, number |-> HandlerAt(conf, req.path), ctx |-> ctx, wrote |-> cs]
  BY DEF Run
<1>3. ran'.ctx = ctx
  BY <1>2
<1>4. Passed("auth")' <=> Passed("auth")
  BY <1>1 DEF Passed
<1>5. Allowed' <=> Allowed
  BY <1>1 DEF Allowed
<1>6. Who' = Who
  BY <1>1 DEF Who
<1> QED
  BY <1>1, <1>3, <1>4, <1>5, <1>6 DEF IdentityInv
-----------------------------------------------------------------------------
(* The status.                                                             *)

(* No middleware is wrapped around the handler twice.                      *)
Distinct == \A i, j \in 1..Len(links) : links[i] = links[j] => i = j

LEMMA LinksDistinct ==
  ASSUME PathInv, phase \notin {"construct", "failed"}
  PROVE  Distinct
<1>1. PlaceInv /\ WrapInv
  BY DEF PathInv
<1>2. CASE links = <<>>
  BY <1>2 DEF Distinct
<1>3. CASE links # <<>>
  <2>1. PICK k : WrapsFrom(chain, k, HandlerBeans, links) /\ k \in Nat
    BY <1>1, <1>3 DEF WrapInv, PathInv, VisitInv
  <2>2. Len(chain) \in Nat /\ \A p, q \in 1..Len(chain) : p # q => chain[p] # chain[q]
    BY <1>1, ChainFacts
  <2>3. \A p \in (k + 1)..Len(chain) : p \in 1..Len(chain)
    BY <2>1, <2>2
  <2>4. links \in Seq(Middlewares) /\ Len(links) \in Nat
    BY <2>1 DEF WrapsFrom
  <2>5. ASSUME NEW i \in 1..Len(links), NEW j \in 1..Len(links), i < j
        PROVE  links[i] # links[j]
    <3>1. PICK p \in (k + 1)..Len(chain), q \in (k + 1)..Len(chain) :
            p < q /\ links[i] = chain[p] /\ links[j] = chain[q]
      BY <2>1, <2>5 DEF WrapsFrom
    <3> QED
      BY <2>2, <2>3, <3>1
  <2>6. \A i, j \in 1..Len(links) : i = j \/ i < j \/ j < i
    BY <2>4
  <2> QED
    BY <2>5, <2>6 DEF Distinct
<1> QED
  BY <1>2, <1>3

(* The recorders' ResponseWriters.                                         *)
RecShape == rec = [k \in Recorders |-> [status |-> rec[k].status, id |-> rec[k].id]]

(* Gzip stands in the way of a header written at position pos.             *)
Kept(pos) == holding /\ \E i \in 1..Len(links) : links[i] = "gzip" /\ Hears(i, pos)

(* Who hears a header, for middlewares that are all different.             *)
LEMMA HeaderHeard ==
  ASSUME links \in Seq(Middlewares), Distinct, RecShape, holding \in BOOLEAN,
         NEW pos, NEW cs, WriteHeader(pos, cs)
  PROVE  /\ RecShape'
         /\ \A k \in Recorders : rec'[k].id = rec[k].id
         /\ \A i \in 1..Len(links) : links[i] \in Recorders =>
               rec'[links[i]].status = IF Hears(i, pos) THEN Recorded(links[i], cs)
                                                         ELSE rec[links[i]].status
         /\ held' = IF Kept(pos) /\ held = 0 /\ cs # <<>> THEN Head(cs) ELSE held
         /\ codes' = IF Kept(pos) THEN codes ELSE codes \o cs
<1> DEFINE heard == {links[i] : i \in {j \in DOMAIN links : Hears(j, pos)}}
<1>1. DOMAIN links = 1..Len(links)
  OBVIOUS
<1>2. \A i \in 1..Len(links) : links[i] \in heard <=> Hears(i, pos)
  BY <1>1 DEF Distinct
<1>3. Kept(pos) <=> (holding /\ "gzip" \in heard)
  BY <1>1 DEF Kept
<1>4. rec' = [k \in Recorders |-> IF k \in heard THEN [rec[k] EXCEPT !.status = Recorded(k, cs)]
                                                 ELSE rec[k]]
  BY DEF WriteHeader
<1>5. held' = IF Kept(pos) /\ held = 0 /\ cs # <<>> THEN Head(cs) ELSE held
  BY <1>3 DEF WriteHeader
<1>6. codes' = IF Kept(pos) THEN codes ELSE codes \o cs
  BY <1>3 DEF WriteHeader
<1> HIDE DEF heard
<1>7. ASSUME NEW k \in Recorders
      PROVE  /\ rec'[k] = [status |-> rec'[k].status, id |-> rec'[k].id]
             /\ rec'[k].id = rec[k].id
             /\ rec'[k].status = IF k \in heard THEN Recorded(k, cs) ELSE rec[k].status
  <2>1. rec[k] = [status |-> rec[k].status, id |-> rec[k].id]
    BY DEF RecShape
  <2>2. rec'[k] = IF k \in heard THEN [rec[k] EXCEPT !.status = Recorded(k, cs)] ELSE rec[k]
    BY <1>4
  <2>3. [rec[k] EXCEPT !.status = Recorded(k, cs)] = [status |-> Recorded(k, cs), id |-> rec[k].id]
    BY <2>1
  <2> QED
    BY <2>1, <2>2, <2>3
<1>8. RecShape'
  BY <1>4, <1>7 DEF RecShape
<1>9. \A i \in 1..Len(links) : links[i] \in Recorders =>
               rec'[links[i]].status = IF Hears(i, pos) THEN Recorded(links[i], cs)
                                                         ELSE rec[links[i]].status
  BY <1>2, <1>7
<1> QED
  BY <1>5, <1>6, <1>7, <1>8, <1>9
Answering == phase \in {"up", "answered", "closed"}

(* The code the client will see: the one gzip keeps, while it keeps one.   *)
Code == IF holding THEN (IF held = 0 THEN 200 ELSE held) ELSE Sent

(* Gzip stands between position i and what has been left already.          *)
Muted(i) == holding /\ \E j \in (i + 1)..at : links[j] = "gzip"

(* Gzip holds the code back only between its turn and its leaving.         *)
HoldInv ==
    /\ holding \in BOOLEAN /\ held \in Nat /\ codes \in Seq(Nat \ {0}) /\ RecShape
    /\ phase = "route" \/ HasAnswered => at = 0
    /\ holding => codes = <<>>
    /\ holding => \E i \in 1..Len(visited) : links[i] = "gzip" /\ (Answering => i <= at)

(* On the way down nothing has been written ...                            *)
NothingWritten ==
    codes = <<>> /\ held = 0 /\ \A k \in Recorders : rec[k].status = InitialStatus

(* ... and on the way up a recorder that is still to be left has heard the *)
(* code, unless gzip below it keeps it; one that was left has logged it.   *)
Heard(i) ==
    /\ i <= at => rec[links[i]].status = IF Muted(i) THEN InitialStatus ELSE Code
    /\ i > at => log[links[i]][1].status = Code

StatusInv ==
    /\ phase \in BeforeRouting \cup {"down"} => NothingWritten
    /\ Answering /\ Len(ran.wrote) <= 1 =>
          \A i \in 1..Len(visited) : links[i] \in Recorders => Heard(i)

(* One entry for every recorder that was left.                             *)
Entry(k) == log[k] = <<[status |-> log[k][1].status, id |-> log[k][1].id]>>

LogInv ==
    /\ log = [k \in Recorders |-> log[k]]
    /\ ~Answering => \A k \in Recorders : log[k] = <<>>
    /\ Answering => \A k \in Recorders :
          /\ ~Passed(k) => log[k] = <<>>
          /\ \A i \in 1..Len(visited) : links[i] = k =>
                IF i <= at THEN log[k] = <<>> ELSE Entry(k)

(* The request id of the context, of the response and of the log entries.  *)
IdInv ==
    /\ header = [cors |-> header.cors, id |-> header.id, encoding |-> header.encoding]
    /\ ctx.id = header.id
    /\ ctx.id \in {"", IF req.id = "" THEN "generated" ELSE req.id}
    /\ ran.what = "app" => ran.ctx.id = ctx.id
    /\ \A k \in Recorders :
          /\ rec[k].id \in {"", ctx.id}
          /\ log[k] # <<>> => log[k][1].id \in {"", ctx.id}

(* A preflight that CORS answers.                                          *)
Preflight ==
    /\ req.method = "OPTIONS" /\ OriginAllowed /\ req.body # "broken"
    /\ \E i \in 1..Len(links) : links[i] = "cors"

PreflightInv ==
    Preflight =>
        /\ phase = "down" => ~Passed("cors")
        /\ Answering => Code = 204 /\ header.cors /\ ran.what = "nothing"
(* A header written on the way down: the recorders above hear it unless    *)
(* gzip, which is above too, keeps it.                                     *)
LEMMA WrittenDown ==
  ASSUME PathInv, HoldInv, NothingWritten, phase = "down", NEW cs \in Seq(Nat \ {0}),
         WriteHeader(at, cs), links' = links, holding' = holding, at' = at - 1, phase' = "up",
         Len(visited') \in Nat, Len(visited) <= Len(visited')
  PROVE  /\ HoldInv'
         /\ Code' = IF cs = <<>> THEN 200 ELSE Head(cs)
         /\ \A k \in Recorders : rec'[k].id = rec[k].id
         /\ Len(cs) <= 1 => \A i \in 1..(at - 1) : links[i] \in Recorders =>
               rec'[links[i]].status = IF Muted(i)' THEN InitialStatus ELSE Code'
<1>1. /\ links \in Seq(Middlewares) /\ Len(links) \in Nat
      /\ at \in Nat /\ at >= 1 /\ at <= Len(links) + 1 /\ Len(visited) = at - 1
  BY DEF PathInv, VisitInv
<1>2. Distinct
  BY LinksDistinct
<1>3. /\ codes = <<>> /\ held = 0 /\ holding \in BOOLEAN /\ RecShape
      /\ \A k \in Recorders : rec[k].status = 200
  BY DEF NothingWritten, HoldInv, InitialStatus
<1>4. holding => \E i \in 1..(at - 1) : links[i] = "gzip"
  BY <1>1 DEF HoldInv
<1>5. Kept(at) <=> holding
  <2>1. ASSUME holding
        PROVE  Kept(at)
    <3>1. PICK i \in 1..(at - 1) : links[i] = "gzip"
      BY <1>4, <2>1
    <3>2. i \in 1..Len(links) /\ i < at /\ \A j \in (i + 1)..(at - 1) : j \in 1..Len(links) /\ j # i
      BY <1>1
    <3>3. \A j \in (i + 1)..(at - 1) : links[j] # "gzip"
      BY <1>2, <3>1, <3>2 DEF Distinct
    <3>4. Hears(i, at)
      BY <3>2, <3>3 DEF Hears, Holds
    <3> QED
      BY <2>1, <3>1, <3>2, <3>4 DEF Kept
  <2> QED
    BY <1>3, <2>1 DEF Kept
<1>6. /\ RecShape'
      /\ \A k \in Recorders : rec'[k].id = rec[k].id
      /\ \A i \in 1..Len(links) : links[i] \in Recorders =>
               rec'[links[i]].status = IF Hears(i, at) THEN Recorded(links[i], cs)
                                                        ELSE rec[links[i]].status
      /\ held' = IF Kept(at) /\ held = 0 /\ cs # <<>> THEN Head(cs) ELSE held
      /\ codes' = IF Kept(at) THEN codes ELSE codes \o cs
  BY <1>1, <1>2, <1>3, HeaderHeard
<1>7. <<>> \o cs = cs /\ (cs # <<>> => Head(cs) \in Nat /\ Head(cs) # 0)
  OBVIOUS
<1>8. codes' = (IF holding THEN <<>> ELSE cs) /\ held' = (IF holding /\ cs # <<>> THEN Head(cs) ELSE 0)
  BY <1>3, <1>5, <1>6, <1>7
<1>9. Code' = IF cs = <<>> THEN 200 ELSE Head(cs)
  BY <1>7, <1>8 DEF Code, Sent
<1>10. HoldInv'
  <2>1. held' \in Nat /\ codes' \in Seq(Nat \ {0})
    BY <1>7, <1>8
  <2>2. holding => \E i \in 1..Len(visited') : links[i] = "gzip" /\ i <= at'
    BY <1>1, <1>4
  <2> QED
    BY <1>3, <1>6, <1>8, <2>1, <2>2 DEF HoldInv, HasAnswered
<1>11. ASSUME NEW i \in 1..(at - 1)
       PROVE  Hears(i, at) <=> ~Muted(i)'
  BY <1>1, <1>3 DEF Hears, Holds, Muted
<1>12. ASSUME Len(cs) <= 1, NEW i \in 1..(at - 1), links[i] \in Recorders
       PROVE  rec'[links[i]].status = IF Muted(i)' THEN InitialStatus ELSE Code'
  <2>1. i \in 1..Len(links) /\ rec[links[i]].status = 200
    BY <1>1, <1>3, <1>12
  <2>2. Recorded(links[i], cs) = IF cs = <<>> THEN 200 ELSE Head(cs)
    BY <1>12, <2>1 DEF Recorded, Last
  <2> QED
    BY <1>6, <1>9, <1>11, <1>12, <2>1, <2>2 DEF InitialStatus
<1> QED
  BY <1>6, <1>9, <1>10, <1>12
(* The header that gzip has kept is written when it is left.               *)
LEMMA WrittenUp ==
  ASSUME PathInv, HoldInv, phase = "up", at > 0, links[at] = "gzip", holding,
         WriteHeader(at, <<IF held = 0 THEN 200 ELSE held>>),
         links' = links, holding' = FALSE, at' = at - 1, phase' = "up"
  PROVE  /\ HoldInv'
         /\ Code' = Code
         /\ \A k \in Recorders : rec'[k].id = rec[k].id
         /\ \A i \in 1..(at - 1) : links[i] \in Recorders => rec'[links[i]].status = Code'
<1> DEFINE c == IF held = 0 THEN 200 ELSE held
<1>1. /\ links \in Seq(Middlewares) /\ Len(links) \in Nat
      /\ at \in Nat /\ at <= Len(visited) /\ Len(visited) <= Len(links) /\ Len(visited) \in Nat
  BY DEF PathInv, VisitInv
<1>2. Distinct
  BY LinksDistinct
<1>3. codes = <<>> /\ RecShape /\ held \in Nat
  BY DEF HoldInv
<1>4. c \in Nat /\ c # 0 /\ Code = c
  BY <1>3 DEF Code
<1>5. WriteHeader(at, <<c>>)
  OBVIOUS
<1> HIDE DEF c
<1>6. \A i \in 1..(at - 1) : i \in 1..Len(links) /\ links[i] # "gzip"
  BY <1>1, <1>2 DEF Distinct
<1>7. \A i \in 1..(at - 1) : Hears(i, at)
  BY <1>1, <1>6 DEF Hears, Holds
<1>8. ~Kept(at)
  BY <1>1, <1>6 DEF Kept, Hears
<1>9. /\ RecShape'
      /\ \A k \in Recorders : rec'[k].id = rec[k].id
      /\ \A i \in 1..Len(links) : links[i] \in Recorders =>
               rec'[links[i]].status = IF Hears(i, at) THEN Recorded(links[i], <<c>>)
                                                        ELSE rec[links[i]].status
      /\ held' = IF Kept(at) /\ held = 0 /\ <<c>> # <<>> THEN Head(<<c>>) ELSE held
      /\ codes' = IF Kept(at) THEN codes ELSE codes \o <<c>>
  BY <1>1, <1>2, <1>3, <1>5, HeaderHeard
<1>10. codes' = <<c>> /\ held' = held
  BY <1>3, <1>4, <1>8, <1>9
<1>11. Code' = c
  BY <1>10 DEF Code, Sent
<1>12. ASSUME NEW i \in 1..(at - 1), links[i] \in Recorders
       PROVE  rec'[links[i]].status = c
  BY <1>6, <1>7, <1>9, <1>12 DEF Recorded, Last
<1>13. HoldInv'
  <2>1. codes' \in Seq(Nat \ {0})
    BY <1>4, <1>10
  <2> QED
    BY <1>3, <1>9, <1>10, <2>1 DEF HoldInv, HasAnswered
<1> QED
  BY <1>4, <1>9, <1>11, <1>12, <1>13

(* A middleware passes the request on; only gzip starts to hold back.      *)
LEMMA StatusOn ==
  ASSUME PathInv, HoldInv, StatusInv, LogInv, Turn(Middlewares), PassOn,
         held' = held, codes' = codes, RecShape',
         \A k \in Recorders : rec'[k].status \in {rec[k].status, InitialStatus},
         holding' \in BOOLEAN, holding' => holding \/ links[at] = "gzip"
  PROVE  HoldInv' /\ StatusInv' /\ LogInv'
<1>1. phase = "down" /\ phase' = "down" /\ links' = links /\ log' = log /\ at' = at + 1
  BY DEF Turn, PassOn
<1>2. /\ links \in Seq(Middlewares) /\ Len(links) \in Nat /\ visited \in Seq(Middlewares)
      /\ at \in Nat /\ at >= 1 /\ at <= Len(links) /\ Len(visited) = at - 1
      /\ visited' = Append(visited, links[at])
  BY DEF PathInv, VisitInv, Turn
<1>3. Len(visited') = at /\ links[at] \in Middlewares
  BY <1>2
<1>4. codes = <<>> /\ held = 0 /\ \A k \in Recorders : rec[k].status = InitialStatus
  BY <1>1 DEF StatusInv, BeforeRouting, NothingWritten
<1>5. holding' => \E i \in 1..Len(visited') : links[i] = "gzip"
  BY <1>2, <1>3 DEF HoldInv
<1>6. HoldInv'
  BY <1>1, <1>4, <1>5 DEF HoldInv, HasAnswered, Answering
<1>7. StatusInv'
  BY <1>1, <1>4 DEF StatusInv, BeforeRouting, NothingWritten, Answering
<1>8. LogInv'
  BY <1>1 DEF LogInv, Answering
<1> QED
  BY <1>6, <1>7, <1>8

(* A middleware other than a recorder answers.                             *)
LEMMA StatusBack ==
  ASSUME PathInv, HoldInv, StatusInv, LogInv, Turn(Middlewares \ Recorders),
         NEW code \in Nat \ {0}, Answer(code)
  PROVE  /\ HoldInv' /\ StatusInv' /\ LogInv' /\ Code' = code
         /\ \A k \in Recorders : rec'[k].id = rec[k].id
<1> DEFINE cs == <<code>>
<1>1. /\ phase = "down" /\ phase' = "up" /\ links' = links /\ log' = log /\ at' = at - 1
      /\ holding' = holding /\ WriteHeader(at, cs) /\ links[at] \notin Recorders
  BY DEF Turn, Answer
<1>2. /\ links \in Seq(Middlewares) /\ Len(links) \in Nat /\ visited \in Seq(Middlewares)
      /\ at \in Nat /\ at >= 1 /\ at <= Len(links) /\ Len(visited) = at - 1
      /\ visited' = Append(visited, links[at])
  BY DEF PathInv, VisitInv, Turn
<1>3. Len(visited') = at /\ links[at] \in Middlewares
  BY <1>2
<1>4. NothingWritten
  BY <1>1 DEF StatusInv, BeforeRouting
<1>5. cs \in Seq(Nat \ {0}) /\ Len(cs) <= 1 /\ cs # <<>> /\ Head(cs) = code
  OBVIOUS
<1> HIDE DEF cs
<1>6. /\ HoldInv' /\ Code' = code
      /\ \A k \in Recorders : rec'[k].id = rec[k].id
      /\ \A i \in 1..(at - 1) : links[i] \in Recorders =>
               rec'[links[i]].status = IF Muted(i)' THEN InitialStatus ELSE Code'
  BY <1>1, <1>2, <1>3, <1>4, <1>5, WrittenDown
<1>7. \A i \in 1..Len(visited') : i \in 1..(at - 1) \/ i = at
  BY <1>2, <1>3
<1>8. ASSUME NEW i \in 1..Len(visited'), links[i] \in Recorders
      PROVE  i \in 1..(at - 1) /\ i <= at' /\ Heard(i)'
  BY <1>1, <1>2, <1>6, <1>7, <1>8 DEF Heard
<1>9. StatusInv'
  BY <1>1, <1>8 DEF StatusInv, BeforeRouting
<1>10. LogInv'
  BY <1>1, <1>8 DEF LogInv, Answering
<1> QED
  BY <1>6, <1>9, <1>10

(* The handler answers.                                                    *)
LEMMA StatusRun ==
  ASSUME PathInv, HoldInv, StatusInv, LogInv, AtHandler, NEW what, NEW cs \in Seq(Nat \ {0}),
         Run(what, cs)
  PROVE  HoldInv' /\ StatusInv' /\ LogInv' /\ \A k \in Recorders : rec'[k].id = rec[k].id
<1>1. /\ phase = "down" /\ phase' = "up" /\ links' = links /\ log' = log /\ at' = at - 1
      /\ holding' = holding /\ WriteHeader(at, cs) /\ visited' = visited
  BY DEF AtHandler, Run
<1>2. at \in Nat /\ at >= 1 /\ Len(visited) = at - 1
  BY <1>1 DEF PathInv, VisitInv
<1>3. NothingWritten
  BY <1>1 DEF StatusInv, BeforeRouting
<1>4. ran'.wrote = cs
  BY DEF Run
<1>5. /\ HoldInv'
      /\ \A k \in Recorders : rec'[k].id = rec[k].id
      /\ Len(cs) <= 1 => \A i \in 1..(at - 1) : links[i] \in Recorders =>
               rec'[links[i]].status = IF Muted(i)' THEN InitialStatus ELSE Code'
  BY <1>1, <1>2, <1>3, WrittenDown
<1>6. \A i \in 1..Len(visited') : i \in 1..(at - 1) /\ i <= at' /\ ~(i > at')
  BY <1>1, <1>2
<1>7. StatusInv'
  BY <1>1, <1>4, <1>5, <1>6 DEF StatusInv, BeforeRouting, Heard
<1>8. LogInv'
  BY <1>1, <1>6 DEF LogInv, Answering
<1> QED
  BY <1>5, <1>7, <1>8
(* A recorder is left: it logs what it has heard.                          *)
LEMMA StatusRecorder ==
  ASSUME PathInv, HoldInv, StatusInv, LogInv, RecorderLeave
  PROVE  /\ HoldInv' /\ StatusInv' /\ LogInv' /\ Code' = Code
         /\ \A k \in Recorders : log'[k] # <<>> =>
               log'[k] = log[k] \/ log'[k][1].id \in {"", rec[k].id}
<1>1. PICK k0 : k0 = links[at]
  OBVIOUS
<1>2. PICK e : e = [status |-> rec[k0].status, id |-> IF k0 = "accesslog" THEN rec[k0].id ELSE ""]
  OBVIOUS
<1>3. /\ phase = "up" /\ phase' = "up" /\ at > 0 /\ at' = at - 1 /\ k0 \in Recorders
      /\ UNCHANGED <<links, visited, ran, holding, held, rec, codes>>
      /\ log' = [log EXCEPT ![k0] = Append(@, e)]
  BY <1>1, <1>2 DEF RecorderLeave, Up, history
<1>4. /\ links \in Seq(Middlewares) /\ Len(links) \in Nat
      /\ at \in Nat /\ at <= Len(visited) /\ Len(visited) <= Len(links) /\ Len(visited) \in Nat
  BY <1>3 DEF PathInv, VisitInv
<1>5. Distinct
  BY <1>3, LinksDistinct
<1>6. at \in 1..Len(visited) /\ \A i \in 1..Len(visited) : i # at => links[i] # k0
  BY <1>1, <1>3, <1>4, <1>5 DEF Distinct
<1>7. log[k0] = <<>> /\ log = [k \in Recorders |-> log[k]]
  BY <1>1, <1>3, <1>4, <1>6 DEF LogInv, Answering
<1>8. e.status = rec[k0].status /\ e.id \in {"", rec[k0].id} /\ e = [status |-> e.status, id |-> e.id]
  BY <1>2
<1>9. /\ log' = [k \in Recorders |-> log'[k]] /\ log'[k0] = <<e>>
      /\ \A k \in Recorders : k # k0 => log'[k] = log[k]
  BY <1>3, <1>7
<1>10. log'[k0][1] = e
  BY <1>9
<1>11. k0 # "gzip"
  BY <1>3 DEF Recorders
<1>12. \A i \in 1..Len(visited) : i <= at' <=> (i <= at /\ i # at)
  BY <1>3, <1>4
<1>13. Code' = Code
  BY <1>3 DEF Code, Sent
<1>14. \A i \in 1..Len(visited) : i <= at' => (Muted(i)' <=> Muted(i))
  <2>1. \A i \in 1..Len(visited), j \in Nat : (j \in (i + 1)..at /\ links[j] = "gzip") <=>
              (j \in (i + 1)..at' /\ links[j] = "gzip")
    BY <1>1, <1>3, <1>4, <1>11
  <2>2. \A i \in 1..Len(visited) : \A j \in (i + 1)..at : j \in Nat
    BY <1>4
  <2>3. \A i \in 1..Len(visited) : \A j \in (i + 1)..at' : j \in Nat
    BY <1>3, <1>4
  <2> QED
    BY <1>3, <2>1, <2>2, <2>3 DEF Muted
<1>15. ~Muted(at)
  BY <1>4 DEF Muted
<1>16. HoldInv'
  <2>1. holding => \E i \in 1..Len(visited) : links[i] = "gzip" /\ i <= at'
    BY <1>1, <1>3, <1>4, <1>11 DEF HoldInv, Answering
  <2> QED
    BY <1>3, <2>1 DEF HoldInv, RecShape, HasAnswered
<1>17. LogInv'
  <2>1. Entry(k0)'
    BY <1>8, <1>9, <1>10 DEF Entry
  <2>2. \A k \in Recorders : k # k0 => (Entry(k)' <=> Entry(k))
    BY <1>9 DEF Entry
  <2>3. \A k \in Recorders : Passed(k)' <=> Passed(k)
    BY <1>3 DEF Passed
  <2>4. Passed(k0)
    BY <1>1, <1>4, <1>6 DEF Passed, PathInv, VisitInv
  <2>5. ASSUME NEW k \in Recorders, NEW i \in 1..Len(visited), links[i] = k
        PROVE  IF i <= at' THEN log'[k] = <<>> ELSE Entry(k)'
    <3>1. CASE i = at
      BY <1>1, <1>12, <2>1, <2>5, <3>1
    <3>2. CASE i # at
      BY <1>3, <1>6, <1>9, <1>12, <2>2, <2>5, <3>2 DEF LogInv, Answering
    <3> QED
      BY <3>1, <3>2
  <2>6. \A k \in Recorders : ~Passed(k)' => log'[k] = <<>>
    BY <1>3, <1>9, <2>3, <2>4 DEF LogInv, Answering
  <2> QED
    BY <1>3, <1>9, <2>5, <2>6 DEF LogInv, Answering
<1>18. ASSUME Len(ran.wrote) <= 1, NEW i \in 1..Len(visited), links[i] \in Recorders
       PROVE  Heard(i)'
  <2>1. Heard(i)
    BY <1>3, <1>18 DEF StatusInv, Answering
  <2>2. CASE i = at
    <3>1. ~(i <= at')
      BY <1>12, <2>2
    <3>2. rec[k0].status = Code
      <4>1. at <= at
        BY <1>4
      <4> QED
        BY <1>1, <1>15, <2>1, <2>2, <4>1 DEF Heard
    <3>3. log'[links[i]][1].status = Code
      BY <1>1, <1>8, <1>10, <2>2, <3>2
    <3> QED
      BY <1>3, <1>13, <3>1, <3>3 DEF Heard
  <2>3. CASE i # at
    <3>1. log'[links[i]] = log[links[i]]
      BY <1>6, <1>9, <1>18, <2>3
    <3>2. i <= at' <=> i <= at
      BY <1>12, <2>3
    <3>3. i > at' <=> i > at
      BY <1>3, <1>4, <2>3
    <3> QED
      BY <1>3, <1>13, <1>14, <2>1, <3>1, <3>2, <3>3 DEF Heard
  <2> QED
    BY <2>2, <2>3
<1>19. StatusInv'
  BY <1>3, <1>18 DEF StatusInv, BeforeRouting
<1> QED
  BY <1>8, <1>9, <1>13, <1>16, <1>17, <1>19, <1>10

(* A middleware is left that writes and logs nothing, or gzip.             *)
LEMMA StatusLeave ==
  ASSUME PathInv, HoldInv, StatusInv, LogInv, GzipLeave \/ OtherLeave
  PROVE  /\ HoldInv' /\ StatusInv' /\ LogInv' /\ Code' = Code
         /\ \A k \in Recorders : rec'[k].id = rec[k].id
<1>1. /\ phase = "up" /\ phase' = "up" /\ at > 0 /\ at' = at - 1 /\ links[at] \notin Recorders
      /\ UNCHANGED <<links, visited, ran, log>>
  BY DEF GzipLeave, OtherLeave, Up, history, response, Recorders
<1>2. /\ links \in Seq(Middlewares) /\ Len(links) \in Nat
      /\ at \in Nat /\ at <= Len(visited) /\ Len(visited) <= Len(links) /\ Len(visited) \in Nat
  BY <1>1 DEF PathInv, VisitInv
<1>3. ASSUME NEW i \in 1..Len(visited), links[i] \in Recorders
      PROVE  i # at /\ (i <= at' <=> i <= at) /\ (i > at' <=> i > at)
  BY <1>1, <1>2, <1>3
<1>4. LogInv'
  <2>1. \A k \in Recorders : (Passed(k)' <=> Passed(k)) /\ (Entry(k)' <=> Entry(k))
    BY <1>1 DEF Passed, Entry
  <2> QED
    BY <1>1, <1>3, <2>1 DEF LogInv, Answering
<1>5. CASE holding /\ GzipLeave
  <2>1. /\ links[at] = "gzip" /\ holding' = FALSE
        /\ WriteHeader(at, <<IF held = 0 THEN 200 ELSE held>>)
    BY <1>5 DEF GzipLeave, Up
  <2>2. /\ HoldInv'
        /\ Code' = Code
        /\ \A k \in Recorders : rec'[k].id = rec[k].id
        /\ \A i \in 1..(at - 1) : links[i] \in Recorders => rec'[links[i]].status = Code'
    BY <1>1, <1>5, <2>1, WrittenUp
  <2>3. ASSUME Len(ran.wrote) <= 1, NEW i \in 1..Len(visited), links[i] \in Recorders
        PROVE  Heard(i)'
    <3>1. i <= at' => i \in 1..(at - 1)
      BY <1>1, <1>2
    <3>2. Heard(i)
      BY <1>1, <2>3 DEF StatusInv, Answering
    <3>3. ~Muted(i)'
      BY <2>1 DEF Muted
    <3> QED
      BY <1>1, <1>3, <2>2, <2>3, <3>1, <3>2, <3>3 DEF Heard
  <2>4. StatusInv'
    BY <1>1, <2>3 DEF StatusInv, BeforeRouting
  <2> QED
    BY <1>4, <2>2, <2>4
<1>6. CASE ~(holding /\ GzipLeave)
  <2>1. UNCHANGED <<holding, held, rec, codes>>
    BY <1>6 DEF GzipLeave, OtherLeave, response, HoldInv
  <2>2. holding => links[at] # "gzip"
    BY <1>6 DEF OtherLeave, Up
  <2>3. Code' = Code
    BY <2>1 DEF Code, Sent
  <2>4. HoldInv'
    <3>1. holding => \E i \in 1..Len(visited) : links[i] = "gzip" /\ i <= at'
      BY <1>1, <1>2, <2>2 DEF HoldInv, Answering
    <3> QED
      BY <1>1, <2>1, <3>1 DEF HoldInv, RecShape, HasAnswered
  <2>5. \A i \in 1..Len(visited) : Muted(i)' <=> Muted(i)
    <3>1. \A i \in 1..Len(visited), j \in Nat :
             holding => ((j \in (i + 1)..at /\ links[j] = "gzip") <=>
                         (j \in (i + 1)..at' /\ links[j] = "gzip"))
      BY <1>1, <1>2, <2>2
    <3>2. \A i \in 1..Len(visited) : \A j \in (i + 1)..at : j \in Nat
      BY <1>2
    <3>3. \A i \in 1..Len(visited) : \A j \in (i + 1)..at' : j \in Nat
      BY <1>1, <1>2
    <3> QED
      BY <1>1, <2>1, <3>1, <3>2, <3>3 DEF Muted
  <2>6. ASSUME Len(ran.wrote) <= 1, NEW i \in 1..Len(visited), links[i] \in Recorders
        PROVE  Heard(i)'
    <3>1. Heard(i)
      BY <1>1, <2>6 DEF StatusInv, Answering
    <3> QED
      BY <1>1, <1>3, <2>1, <2>3, <2>5, <2>6, <3>1 DEF Heard
  <2>7. StatusInv'
    BY <1>1, <2>6 DEF StatusInv, BeforeRouting
  <2> QED
    BY <1>4, <2>1, <2>3, <2>4, <2>7
<1> QED
  BY <1>5, <1>6
(* Before a route is taken nothing is written.                             *)
LEMMA StatusBefore ==
  ASSUME PathInv, HoldInv, StatusInv, LogInv, Construct \/ Wrap \/ Listen \/ RouteHandler(Routed)
  PROVE  HoldInv' /\ StatusInv' /\ LogInv'
<1>1. /\ phase \in {"construct", "wrap", "route"}
      /\ phase' \in {"wrap", "failed", "route", "down"}
      /\ UNCHANGED <<holding, held, rec, codes, log, visited>>
      /\ phase' = "route" => at' = 0
  BY DEF Construct, Wrap, Listen, RouteHandler, response, history
<1>2. visited = <<>>
  BY <1>1 DEF PathInv, VisitInv, BeforeRouting
<1>3. Len(visited) = 0 /\ ~holding
  BY <1>2 DEF HoldInv
<1>4. HoldInv'
  BY <1>1, <1>3 DEF HoldInv, RecShape, HasAnswered
<1>5. StatusInv'
  BY <1>1 DEF StatusInv, NothingWritten, BeforeRouting, Answering
<1>6. LogInv'
  BY <1>1 DEF LogInv, Answering
<1> QED
  BY <1>4, <1>5, <1>6

(* A path without a handler: no recorder is there to hear of the answer.   *)
LEMMA StatusUnwrapped ==
  ASSUME PathInv, HoldInv, StatusInv, LogInv, RouteAsset(Routed) \/ RouteNotFound(Routed)
  PROVE  HoldInv' /\ StatusInv' /\ LogInv' /\ rec' = rec /\ log' = log
<1>1. /\ phase = "route" /\ phase' = "answered"
      /\ UNCHANGED <<links, at, holding, held, rec, log, visited>>
  BY DEF RouteAsset, ServeAsset, RouteNotFound, history
<1>2. codes' \in Seq(Nat \ {0})
  <2>1. \A path : AssetCode(conf, path, req.accept) \in Nat \ {0}
    BY DEF AssetCode
  <2>2. \E c \in Nat \ {0} : codes' = <<c>>
    BY <2>1 DEF RouteAsset, ServeAsset, RouteNotFound
  <2> QED
    BY <2>2
<1>3. visited = <<>>
  BY <1>1 DEF PathInv, VisitInv, BeforeRouting
<1>4. Len(visited) = 0 /\ ~holding /\ at = 0
  BY <1>1, <1>3 DEF HoldInv
<1>5. HoldInv'
  BY <1>1, <1>2, <1>4 DEF HoldInv, RecShape
<1>6. StatusInv'
  BY <1>1, <1>4 DEF StatusInv, BeforeRouting
<1>7. LogInv'
  BY <1>1, <1>4 DEF LogInv, Answering
<1> QED
  BY <1>1, <1>5, <1>6, <1>7

(* The steps that end the request leave the response alone.                *)
LEMMA StatusEnds ==
  ASSUME HoldInv, StatusInv, LogInv, UNCHANGED <<links, at, response, history>>,
         \/ phase = "down" /\ phase' = "aborted"
         \/ phase = "up" /\ phase' = "answered" /\ at = 0
         \/ phase = "answered" /\ phase' = "closed"
         \/ phase' = phase
  PROVE  HoldInv' /\ StatusInv' /\ LogInv' /\ Code' = Code
<1>1. UNCHANGED <<holding, held, rec, codes, log, visited, ran>>
  BY DEF response, history
<1>2. Code' = Code
  BY <1>1 DEF Code, Sent
<1>3. \A i : (Muted(i)' <=> Muted(i)) /\ (Heard(i)' <=> Heard(i))
  BY <1>1, <1>2 DEF Muted, Heard
<1>4. \A k : (Passed(k)' <=> Passed(k)) /\ (Entry(k)' <=> Entry(k))
  BY <1>1 DEF Passed, Entry
<1>5. Answering => (Answering' /\ (HasAnswered' => at = 0))
  BY DEF Answering, HasAnswered, HoldInv
<1>6. HoldInv'
  BY <1>1, <1>5 DEF HoldInv, RecShape, HasAnswered, Answering
<1>7. StatusInv'
  BY <1>1, <1>3 DEF StatusInv, NothingWritten, BeforeRouting, Answering
<1>8. LogInv'
  BY <1>1, <1>4 DEF LogInv, Answering
<1> QED
  BY <1>2, <1>6, <1>7, <1>8

-----------------------------------------------------------------------------
(* The request id.                                                         *)

(* The fields of a header.                                                 *)
LEMMA HeaderFields ==
  ASSUME NEW h, NEW x, h = [cors |-> h.cors, id |-> x, encoding |-> h.encoding]
  PROVE  h.id = x /\ h = [cors |-> h.cors, id |-> h.id, encoding |-> h.encoding]
  OBVIOUS

(* Steps that change neither the context nor the id in the response.       *)
LEMMA IdKept ==
  ASSUME IdInv, UNCHANGED <<place, ctx>>,
         header' = [cors |-> header'.cors, id |-> header.id, encoding |-> header'.encoding],
         ran'.what = "app" => ran'.ctx.id = ctx.id,
         \A k \in Recorders :
            /\ rec'[k].id \in {rec[k].id, ctx.id}
            /\ log'[k] # <<>> => log'[k] = log[k] \/ log'[k][1].id \in {"", rec[k].id}
  PROVE  IdInv'
<1>1. req' = req
  BY DEF place
<1>2. header'.id = header.id
      /\ header' = [cors |-> header'.cors, id |-> header'.id, encoding |-> header'.encoding]
  BY HeaderFields
<1> QED
  BY <1>1, <1>2 DEF IdInv

(* The request id middleware.                                              *)
LEMMA IdSet ==
  ASSUME IdInv, IdentityInv, VisitInv, RequestId
  PROVE  IdInv'
<1>1. phase = "down" /\ req' = req /\ rec' = rec /\ log' = log /\ ran' = ran
  BY DEF RequestId, Turn, PassOn, place
<1>2. ran.what = "nothing"
  BY <1>1 DEF VisitInv
<1>3. PICK id : /\ id = IF req.id = "" THEN "generated" ELSE req.id
                /\ ctx' = [ctx EXCEPT !.id = id] /\ header' = [header EXCEPT !.id = id]
  BY DEF RequestId
<1>4. ctx'.id = id
  BY <1>3 DEF IdentityInv
<1>5. header'.id = id
      /\ header' = [cors |-> header'.cors, id |-> header'.id, encoding |-> header'.encoding]
  BY <1>3 DEF IdInv
<1>6. ctx.id \in {"", id}
  BY <1>3 DEF IdInv
<1> QED
  BY <1>1, <1>2, <1>3, <1>4, <1>5, <1>6 DEF IdInv

-----------------------------------------------------------------------------
(* A preflight is the same request all the way.                            *)
LEMMA PreflightSame ==
  ASSUME UNCHANGED <<place, links>>
  PROVE  (Preflight' <=> Preflight) /\ (OriginAllowed' <=> OriginAllowed)
<1>1. conf' = conf /\ req' = req
  BY DEF place
<1> QED
  BY <1>1 DEF Preflight, OriginAllowed

(* Another middleware passes it on.                                        *)
LEMMA PreflightOn ==
  ASSUME VisitInv, PreflightInv, Turn(Middlewares), PassOn, Preflight => links[at] # "cors"
  PROVE  PreflightInv'
<1>1. phase = "down" /\ phase' = "down" /\ UNCHANGED <<place, links>>
  BY DEF Turn, PassOn
<1>2. Preflight' <=> Preflight
  BY <1>1, PreflightSame
<1>3. Passed("cors")' <=> (Passed("cors") \/ "cors" = links[at])
  BY PassedOn
<1> QED
  BY <1>1, <1>2, <1>3 DEF PreflightInv, Answering

(* No other middleware answers it, and no handler.                         *)
LEMMA PreflightElsewhere ==
  ASSUME PathInv, PreflightInv, phase = "down",
         \/ AuthRefuse \/ RateRefuse \/ GzipRefuse
         \/ AtHandler /\ UNCHANGED <<place, links>>
  PROVE  ~Preflight /\ PreflightInv'
<1>1. UNCHANGED <<place, links>>
  BY DEF AuthRefuse, RateRefuse, GzipRefuse, Answer
<1>2. Preflight' <=> Preflight
  BY <1>1, PreflightSame
<1>3. CASE AuthRefuse \/ RateRefuse \/ GzipRefuse
  BY <1>2, <1>3 DEF AuthRefuse, RateRefuse, GzipRefuse, AuthSkips, Preflight, PreflightInv
<1>4. CASE AtHandler
  <2>1. /\ Len(visited) = at - 1 /\ at = Len(links) + 1 /\ at \in Nat /\ Len(links) \in Nat
        /\ \A i \in 1..Len(visited) : visited[i] = links[i]
    BY <1>4 DEF PathInv, VisitInv, AtHandler
  <2>2. Len(visited) = Len(links)
    BY <2>1
  <2>3. Preflight => Passed("cors")
    BY <2>1, <2>2 DEF Preflight, Passed
  <2> QED
    BY <1>2, <2>3 DEF PreflightInv
<1> QED
  BY <1>3, <1>4

(* On the way up the answer stays.                                         *)
LEMMA PreflightUp ==
  ASSUME PreflightInv, UNCHANGED <<place, links, ran>>, Code' = Code, header' = header,
         Answering, phase' # "down"
  PROVE  PreflightInv'
<1>1. Preflight' <=> Preflight
  BY PreflightSame
<1> QED
  BY <1>1 DEF PreflightInv
-----------------------------------------------------------------------------
(* What answers.                                                           *)
RouteInv ==
    /\ ran.what \in {"nothing", "app", "healthz", "asset", "index"}
    /\ ran.what \in {"app", "healthz"} => ran.number = HandlerAt(conf, req.path)
    /\ ran.what \in {"asset", "index"} =>
          /\ Routed = ran.what
          /\ LET path == IF ran.what = "index" THEN <<"/">> ELSE req.path
             IN  /\ ran.number = AssetServed(conf, path, req.accept)
                 /\ header.encoding = AssetEncoding(conf, path, req.accept)

(* The gRPC call has the outcome that conf and req determine.              *)
RpcInv ==
    /\ phase # "closed" =>
          rpc = [status |-> "none", auth |-> Nobody, visited |-> <<>>, handled |-> FALSE]
    /\ phase = "closed" =>
          /\ \E numbers \in Interceptors(conf.grpc, req.rpc) : rpc = RpcOutcome(numbers)
          /\ req.rpc # "none"

(* A step that changes neither what answered nor the encoding.             *)
LEMMA RouteKept ==
  ASSUME RouteInv, UNCHANGED <<place, ran>>, header'.encoding = header.encoding
  PROVE  RouteInv'
<1>1. conf' = conf /\ req' = req
  BY DEF place
<1> QED
  BY <1>1 DEF RouteInv, Routed

(* The handler answers.                                                    *)
LEMMA RouteRun ==
  ASSUME RouteInv, NEW what \in {"app", "healthz"}, NEW cs, Run(what, cs)
  PROVE  RouteInv'
<1>1. conf' = conf /\ req' = req
  BY DEF place, Run
<1>2. ran'.what = what /\ ran'.number = HandlerAt(conf, req.path)
  BY DEF Run
<1> QED
  BY <1>1, <1>2 DEF RouteInv, Routed

(* An asset answers.                                                       *)
LEMMA RouteServed ==
  ASSUME VisitInv, IdInv, RouteInv, RouteAsset(Routed)
  PROVE  RouteInv'
<1>1. conf' = conf /\ req' = req
  BY DEF place, RouteAsset, ServeAsset
<1>2. ASSUME NEW what \in {"asset", "index"}, NEW path, ServeAsset(what, path)
      PROVE  /\ ran'.what = what /\ ran'.number = AssetServed(conf, path, req.accept)
             /\ header'.encoding = AssetEncoding(conf, path, req.accept)
  <2>1. ran' = [ran EXCEPT !.what = what, !.number = AssetServed(conf, path, req.accept)]
    BY <1>2 DEF ServeAsset
  <2>2. header' = [header EXCEPT !.encoding = AssetEncoding(conf, path, req.accept)]
    BY <1>2 DEF ServeAsset
  <2> QED
    BY <2>1, <2>2 DEF VisitInv, IdInv
<1>3. CASE Routed = "asset" /\ ServeAsset("asset", req.path)
  BY <1>1, <1>2, <1>3 DEF RouteInv, Routed
<1>4. CASE Routed = "index" /\ ServeAsset("index", <<"/">>)
  BY <1>1, <1>2, <1>4 DEF RouteInv, Routed
<1> QED
  BY <1>3, <1>4 DEF RouteAsset

(* Before the call.                                                        *)
LEMMA RpcBefore ==
  ASSUME RpcInv, rpc' = rpc, phase # "closed", phase' # "closed"
  PROVE  RpcInv'
  BY DEF RpcInv

(* The outcome is one of the deployment and the request.                   *)
LEMMA RpcOutcomeKept ==
  ASSUME UNCHANGED place, NEW numbers
  PROVE  RpcOutcome(numbers)' = RpcOutcome(numbers)
<1>1. conf' = conf /\ req' = req
  BY DEF place
<1> QED
  BY <1>1 DEF RpcOutcome, RpcEnds, RpcHandler
-----------------------------------------------------------------------------
(* The inductive invariant, and its steps.                                 *)
RequestInv ==
    /\ PathInv /\ IdentityInv
    /\ HoldInv /\ StatusInv /\ LogInv
    /\ IdInv /\ PreflightInv /\ RouteInv /\ RpcInv

(* The beginning.                                                          *)
LEMMA RequestInit ==
  ASSUME Init
  PROVE  RequestInv
<1>1. PathInv
  BY PathInit
<1>2. /\ phase = "construct" /\ links = <<>> /\ at = 0 /\ visited = <<>> /\ verdict = "none"
      /\ holding = FALSE /\ held = 0 /\ codes = <<>>
      /\ rec = [k \in Recorders |-> [status |-> InitialStatus, id |-> ""]]
      /\ log = [k \in Recorders |-> <<>>]
      /\ rpc = [status |-> "none", auth |-> Nobody, visited |-> <<>>, handled |-> FALSE]
      /\ ctx = NoContext
  BY DEF Init
<1>3. header = [cors |-> FALSE, id |-> "", encoding |-> "identity"] /\ ran.what = "nothing"
  BY DEF Init
<1>4. ctx.auth = Nobody /\ ctx.id = "" /\ ctx = [auth |-> ctx.auth, id |-> ctx.id]
  BY <1>2 DEF NoContext
<1>5. Len(visited) = 0
  BY <1>2
<1>6. IdentityInv
  BY <1>2, <1>3, <1>4, <1>5 DEF IdentityInv, Passed
<1>7. RecShape /\ \A k \in Recorders : rec[k].status = InitialStatus /\ rec[k].id = ""
  BY <1>2 DEF RecShape
<1>8. HoldInv
  <2>1. codes \in Seq(Nat \ {0})
    <3>1. <<>> \in Seq(Nat \ {0})
      OBVIOUS
    <3> QED
      BY <1>2, <3>1
  <2>2. holding \in BOOLEAN /\ ~holding
    BY <1>2
  <2> QED
    BY <1>2, <1>7, <2>1, <2>2 DEF HoldInv, HasAnswered
<1>9. StatusInv
  BY <1>2, <1>7 DEF StatusInv, NothingWritten, Answering
<1>10. LogInv
  BY <1>2 DEF LogInv, Answering
<1>11. header.id = "" /\ header = [cors |-> header.cors, id |-> header.id, encoding |-> header.encoding]
  BY <1>3
<1>12. IdInv
  BY <1>2, <1>3, <1>4, <1>7, <1>11 DEF IdInv
<1>13. PreflightInv
  BY <1>2 DEF PreflightInv, Answering
<1>14. RouteInv
  BY <1>3 DEF RouteInv
<1>15. RpcInv
  BY <1>2 DEF RpcInv
<1> QED
  BY <1>1, <1>6, <1>8, <1>9, <1>10, <1>12, <1>13, <1>14, <1>15 DEF RequestInv

(* Before the request is routed, and its route to a handler.               *)
LEMMA StepBefore ==
  ASSUME RequestInv, Construct \/ Wrap \/ Listen \/ RouteHandler(Routed)
  PROVE  RequestInv'
<1>1. /\ PathInv /\ IdentityInv /\ HoldInv /\ StatusInv /\ LogInv
      /\ IdInv /\ PreflightInv /\ RouteInv /\ RpcInv
  BY DEF RequestInv
<1>2. /\ phase \in {"construct", "wrap", "route"}
      /\ phase' \in {"wrap", "failed", "route", "down"}
      /\ UNCHANGED <<place, ctx, rec, log, header, visited, verdict, ran, rpc>>
  BY DEF Construct, Wrap, Listen, RouteHandler, response, history
<1>3. PathInv'
  BY <1>1, PathWrap, PathRoute
<1>4. visited = <<>> /\ ran.what = "nothing"
  BY <1>1, <1>2 DEF PathInv, VisitInv, BeforeRouting
<1>5. Len(visited) = 0
  BY <1>4
<1>6. IdentityInv'
  BY <1>1, <1>2, <1>5, IdentityQuiet
<1>7. HoldInv' /\ StatusInv' /\ LogInv'
  BY <1>1, StatusBefore
<1>8. header' = [cors |-> header'.cors, id |-> header.id, encoding |-> header'.encoding]
  BY <1>1, <1>2 DEF IdInv
<1>9. IdInv'
  BY <1>1, <1>2, <1>4, <1>8, IdKept
<1>10. PreflightInv'
  BY <1>2, <1>5 DEF PreflightInv, Answering, Passed
<1>11. RouteInv'
  BY <1>1, <1>2, RouteKept
<1>12. RpcInv'
  BY <1>1, <1>2, RpcBefore
<1> QED
  BY <1>3, <1>6, <1>7, <1>9, <1>10, <1>11, <1>12 DEF RequestInv

(* A path without a handler.                                               *)
LEMMA StepUnwrapped ==
  ASSUME RequestInv, RouteAsset(Routed) \/ RouteNotFound(Routed)
  PROVE  RequestInv'
<1>1. /\ PathInv /\ IdentityInv /\ HoldInv /\ StatusInv /\ LogInv
      /\ IdInv /\ PreflightInv /\ RouteInv /\ RpcInv
  BY DEF RequestInv
<1>2. /\ phase = "route" /\ phase' = "answered"
      /\ UNCHANGED <<place, links, ctx, visited, verdict, rpc>>
  BY DEF RouteAsset, ServeAsset, RouteNotFound, history
<1>3. PathInv'
  BY <1>1, PathRoute
<1>4. visited = <<>> /\ ran.what = "nothing"
  BY <1>1, <1>2 DEF PathInv, VisitInv, BeforeRouting
<1>5. HandlerAt(conf, req.path) = 0
  BY DEF RouteAsset, RouteNotFound, Routed
<1>6. links = <<>>
  BY <1>1, <1>2, <1>5 DEF PathInv, WrapInv
<1>7. ran'.what # "app"
  <2>1. CASE RouteNotFound(Routed)
    BY <1>4, <2>1 DEF RouteNotFound, history
  <2>2. CASE RouteAsset(Routed)
    <3>1. ASSUME NEW w \in {"asset", "index"}, NEW path, ServeAsset(w, path)
          PROVE  ran'.what = w
      BY <1>1, <3>1 DEF ServeAsset, PathInv, VisitInv
    <3> QED
      BY <2>2, <3>1 DEF RouteAsset
  <2> QED
    BY <2>1, <2>2
<1>8. IdentityInv'
  BY <1>1, <1>2, <1>7, IdentityQuiet
<1>9. HoldInv' /\ StatusInv' /\ LogInv' /\ rec' = rec /\ log' = log
  BY <1>1, StatusUnwrapped
<1>10. header' = [cors |-> header'.cors, id |-> header.id, encoding |-> header'.encoding]
  <2>1. header = [cors |-> header.cors, id |-> header.id, encoding |-> header.encoding]
    BY <1>1 DEF IdInv
  <2>2. header' = header \/ \E x : header' = [header EXCEPT !.encoding = x]
    BY DEF RouteAsset, ServeAsset, RouteNotFound
  <2> QED
    BY <2>1, <2>2
<1>11. IdInv'
  BY <1>1, <1>2, <1>7, <1>9, <1>10, IdKept
<1>12. PreflightInv'
  <2>1. Preflight' <=> Preflight
    BY <1>2, PreflightSame
  <2>2. Len(links) = 0
    BY <1>6
  <2>3. ~Preflight
    BY <2>2 DEF Preflight
  <2> QED
    BY <2>1, <2>3 DEF PreflightInv
<1>13. RouteInv'
  <2>1. CASE RouteAsset(Routed)
    BY <1>1, <2>1, RouteServed DEF PathInv
  <2>2. CASE RouteNotFound(Routed)
    <3>1. UNCHANGED <<place, ran>> /\ header' = header
      BY <2>2 DEF RouteNotFound, history
    <3> QED
      BY <1>1, <3>1, RouteKept
  <2> QED
    BY <2>1, <2>2
<1>14. RpcInv'
  BY <1>1, <1>2, RpcBefore
<1> QED
  BY <1>3, <1>8, <1>9, <1>11, <1>12, <1>13, <1>14 DEF RequestInv
(* A middleware passes the request on.                                     *)
LEMMA StepPass ==
  ASSUME RequestInv,
         CorsPass \/ RequestId \/ AuthPass \/ RatePass \/ RecorderEnter \/ GzipPass
  PROVE  RequestInv'
<1>1. /\ PathInv /\ VisitInv /\ IdentityInv /\ HoldInv /\ StatusInv /\ LogInv
      /\ IdInv /\ PreflightInv /\ RouteInv /\ RpcInv
  BY DEF RequestInv, PathInv
<1>2. /\ Turn(Middlewares) /\ PassOn
      /\ held' = held /\ codes' = codes
  BY DEF CorsPass, RequestId, AuthPass, RatePass, RecorderEnter, GzipPass, Turn, Middlewares, Recorders
<1>3. phase = "down" /\ phase' = "down" /\ UNCHANGED <<place, links, log, ran, rpc>>
  BY <1>2 DEF Turn, PassOn
<1>4. ran.what = "nothing"
  BY <1>1, <1>3 DEF VisitInv
<1>5. PathInv'
  BY <1>1, <1>2, PathOn
<1>6. RpcInv'
  BY <1>1, <1>3, RpcBefore
<1>7. PreflightInv'
  <2>1. Preflight => links[at] # "cors"
    BY DEF CorsPass, RequestId, AuthPass, RatePass, RecorderEnter, GzipPass, Turn, Recorders, Preflight
  <2> QED
    BY <1>1, <1>2, <2>1, PreflightOn
<1>8. /\ header = [cors |-> header.cors, id |-> header.id, encoding |-> header.encoding]
      /\ ctx = [auth |-> ctx.auth, id |-> ctx.id]
      /\ RecShape
  BY <1>1 DEF IdInv, IdentityInv, HoldInv
<1>9. header'.encoding = header.encoding
  BY <1>8 DEF CorsPass, RequestId, AuthPass, RatePass, RecorderEnter, GzipPass
<1>10. RouteInv'
  BY <1>1, <1>3, <1>9, RouteKept
<1>11. IdentityInv'
  <2>1. CASE AuthPass
    BY <1>1, <2>1, IdentityAuth
  <2>2. CASE CorsPass \/ RequestId \/ RatePass \/ RecorderEnter \/ GzipPass
    <3>1. Turn(Middlewares \ {"auth"}) /\ verdict' = verdict
      BY <2>2 DEF CorsPass, RequestId, RatePass, RecorderEnter, GzipPass, Turn, Middlewares, Recorders
    <3>2. ctx' = ctx \/ \E x : ctx' = [ctx EXCEPT !.id = x]
      BY <2>2 DEF CorsPass, RequestId, RatePass, RecorderEnter, GzipPass, DecompressedContext
    <3>3. ctx' = [auth |-> ctx.auth, id |-> ctx'.id]
      BY <1>8, <3>2
    <3> QED
      BY <1>1, <1>3, <3>1, <3>3, IdentityTurn
  <2> QED
    BY <2>1, <2>2
<1>12. CASE RecorderEnter
  <2>1. /\ links[at] \in Recorders
        /\ rec' = [rec EXCEPT ![links[at]] = [status |-> InitialStatus, id |-> ctx.id]]
        /\ ctx' = ctx /\ header' = header /\ holding' = holding
    BY <1>12 DEF RecorderEnter, Turn
  <2>2. ASSUME NEW k \in Recorders
        PROVE  /\ rec'[k] = rec[k] \/ rec'[k] = [status |-> InitialStatus, id |-> ctx.id]
               /\ rec[k] = [status |-> rec[k].status, id |-> rec[k].id]
    BY <1>8, <2>1 DEF RecShape
  <2>3. ASSUME NEW k \in Recorders
        PROVE  /\ rec'[k] = [status |-> rec'[k].status, id |-> rec'[k].id]
               /\ rec'[k].status \in {rec[k].status, InitialStatus}
               /\ rec'[k].id \in {rec[k].id, ctx.id}
    <3>1. CASE rec'[k] = rec[k]
      BY <2>2, <3>1
    <3>2. CASE rec'[k] = [status |-> InitialStatus, id |-> ctx.id]
      BY <3>2
    <3> QED
      BY <2>2, <3>1, <3>2
  <2>4. RecShape'
    BY <1>8, <2>1, <2>3 DEF RecShape
  <2>5. HoldInv' /\ StatusInv' /\ LogInv'
    BY <1>1, <1>2, <2>1, <2>3, <2>4, StatusOn DEF HoldInv
  <2>6. IdInv'
    BY <1>1, <1>3, <1>4, <1>8, <2>1, <2>3, IdKept
  <2> QED
    BY <1>5, <1>6, <1>7, <1>10, <1>11, <2>5, <2>6 DEF RequestInv
<1>13. CASE CorsPass \/ RequestId \/ AuthPass \/ RatePass \/ GzipPass
  <2>1. rec' = rec
    BY <1>13 DEF CorsPass, RequestId, AuthPass, RatePass, GzipPass
  <2>2. holding' \in BOOLEAN /\ (holding' => holding \/ links[at] = "gzip")
    <3>1. CASE GzipPass
      <4>1. links[at] = "gzip" /\ holding' = (req.accept /\ req.method # "HEAD")
        BY <3>1 DEF GzipPass, Turn
      <4> QED
        BY <4>1, Zenon
    <3>2. CASE CorsPass \/ RequestId \/ AuthPass \/ RatePass
      <4>1. holding' = holding
        BY <3>2 DEF CorsPass, RequestId, AuthPass, RatePass
      <4>2. holding \in BOOLEAN
        BY <1>1 DEF HoldInv
      <4> QED
        BY <4>1, <4>2, Zenon
    <3> QED
      BY <1>13, <3>1, <3>2
  <2>3. RecShape'
    BY <1>8, <2>1 DEF RecShape
  <2>4. HoldInv' /\ StatusInv' /\ LogInv'
    BY <1>1, <1>2, <2>1, <2>2, <2>3, StatusOn
  <2>5. IdInv'
    <3>1. CASE RequestId
      BY <1>1, <3>1, IdSet
    <3>2. CASE CorsPass \/ RatePass \/ GzipPass
      <4>1. ctx' = ctx
        BY <3>2 DEF CorsPass, RatePass, GzipPass, DecompressedContext
      <4>2. header' = header \/ \E x : header' = [header EXCEPT !.cors = x]
        BY <3>2 DEF CorsPass, RatePass, GzipPass
      <4>3. header' = [cors |-> header'.cors, id |-> header.id, encoding |-> header'.encoding]
        BY <1>8, <4>2
      <4> QED
        BY <1>1, <1>3, <1>4, <2>1, <4>1, <4>3, IdKept
    <3>3. CASE AuthPass
      <4>1. req' = req /\ header' = header /\ (ctx' = ctx \/ \E x : ctx' = [ctx EXCEPT !.auth = x])
        BY <1>3, <3>3 DEF AuthPass, place
      <4>2. ctx'.id = ctx.id
        BY <1>8, <4>1
      <4> QED
        BY <1>1, <1>3, <1>4, <2>1, <4>1, <4>2 DEF IdInv
    <3> QED
      BY <1>13, <3>1, <3>2, <3>3
  <2> QED
    BY <1>5, <1>6, <1>7, <1>10, <1>11, <2>4, <2>5 DEF RequestInv
<1> QED
  BY <1>12, <1>13

(* What the Authenticator can answer, and that a refusal has a code.       *)
LEMMA Verdicts ==
  ASSUME PlaceInv
  PROVE  /\ HttpVerdict(conf.auth, req.cred) \in {"ok", "unauthorized", "unavailable", "failure"}
         /\ HttpVerdict(conf.auth, req.cred) # "ok" =>
               HttpRefusal[HttpVerdict(conf.auth, req.cred)] \in Nat \ {0}
<1>1. conf.auth.backend \in {"ok", "unauthorized", "unavailable", "failure"}
  BY DeploymentAssumption DEF PlaceInv
<1>2. \A t : Authenticate(conf.auth, t) \in {"ok", "unauthorized", "unavailable", "failure"}
  BY <1>1 DEF Authenticate
<1>3. HttpVerdict(conf.auth, req.cred) \in {"ok", "unauthorized", "unavailable", "failure"}
  BY <1>2 DEF HttpVerdict
<1>4. \A v \in {"unauthorized", "unavailable", "failure"} : HttpRefusal[v] \in Nat \ {0}
  BY DEF HttpRefusal
<1> QED
  BY <1>3, <1>4

(* A middleware answers.                                                   *)
LEMMA StepAnswer ==
  ASSUME RequestInv, CorsPreflight \/ AuthRefuse \/ RateRefuse \/ GzipRefuse
  PROVE  RequestInv'
<1>1. /\ PathInv /\ PlaceInv /\ VisitInv /\ IdentityInv /\ HoldInv /\ StatusInv /\ LogInv
      /\ IdInv /\ PreflightInv /\ RouteInv /\ RpcInv
  BY DEF RequestInv, PathInv
<1>2. PICK code \in Nat \ {0} : Answer(code) /\ (CorsPreflight => code = 204)
  <2>1. CASE CorsPreflight
    BY <2>1 DEF CorsPreflight
  <2>2. CASE AuthRefuse
    <3>1. HttpRefusal[HttpVerdict(conf.auth, req.cred)] \in Nat \ {0}
      BY <1>1, <2>2, Verdicts DEF AuthRefuse
    <3>2. ~CorsPreflight
      BY <2>2 DEF AuthRefuse, CorsPreflight, Turn
    <3> QED
      BY <2>2, <3>1, <3>2 DEF AuthRefuse
  <2>3. CASE RateRefuse
    BY <2>3 DEF RateRefuse, CorsPreflight, Turn
  <2>4. CASE GzipRefuse
    BY <2>4 DEF GzipRefuse, CorsPreflight, Turn
  <2> QED
    BY <2>1, <2>2, <2>3, <2>4
<1>3. Turn(Middlewares \ Recorders)
  BY DEF CorsPreflight, AuthRefuse, RateRefuse, GzipRefuse, Turn, Middlewares, Recorders
<1>4. Turn(Middlewares) /\ phase = "down" /\ phase' = "up"
      /\ UNCHANGED <<place, links, ctx, log, ran, rpc>>
  BY <1>2, <1>3 DEF Turn, Answer
<1>5. ran.what = "nothing"
  BY <1>1, <1>4 DEF VisitInv
<1>6. PathInv'
  BY <1>1, <1>2, <1>4, PathBack
<1>7. RpcInv'
  BY <1>1, <1>4, RpcBefore
<1>8. /\ HoldInv' /\ StatusInv' /\ LogInv' /\ Code' = code
      /\ \A k \in Recorders : rec'[k].id = rec[k].id
  BY <1>1, <1>2, <1>3, StatusBack
<1>9. /\ header = [cors |-> header.cors, id |-> header.id, encoding |-> header.encoding]
      /\ ctx = [auth |-> ctx.auth, id |-> ctx.id]
  BY <1>1 DEF IdInv, IdentityInv
<1>10. header' = header \/ (CorsPreflight /\ header' = [header EXCEPT !.cors = TRUE])
  BY DEF CorsPreflight, AuthRefuse, RateRefuse, GzipRefuse
<1>11. /\ header' = [cors |-> header'.cors, id |-> header.id, encoding |-> header'.encoding]
       /\ header'.encoding = header.encoding
       /\ header' = [header EXCEPT !.cors = TRUE] => header'.cors = TRUE
  BY <1>9, <1>10
<1>12. IdInv'
  BY <1>1, <1>4, <1>5, <1>8, <1>11, IdKept
<1>13. RouteInv'
  BY <1>1, <1>4, <1>11, RouteKept
<1>14. IdentityInv'
  <2>1. CASE AuthRefuse
    BY <1>1, <2>1, IdentityAuth
  <2>2. CASE CorsPreflight \/ RateRefuse \/ GzipRefuse
    <3>1. Turn(Middlewares \ {"auth"}) /\ verdict' = verdict
      BY <2>2 DEF CorsPreflight, RateRefuse, GzipRefuse, Turn, Middlewares
    <3>2. ctx' = [auth |-> ctx.auth, id |-> ctx'.id]
      BY <1>4, <1>9
    <3> QED
      BY <1>1, <1>4, <3>1, <3>2, IdentityTurn
  <2> QED
    BY <2>1, <2>2
<1>15. PreflightInv'
  <2>1. CASE AuthRefuse \/ RateRefuse \/ GzipRefuse
    BY <1>1, <1>4, <2>1, PreflightElsewhere
  <2>2. CASE CorsPreflight
    <3>1. header' = [header EXCEPT !.cors = TRUE]
      BY <2>2 DEF CorsPreflight
    <3> QED
      BY <1>2, <1>4, <1>5, <1>8, <1>11, <2>2, <3>1 DEF PreflightInv
  <2> QED
    BY <2>1, <2>2
<1> QED
  BY <1>6, <1>7, <1>8, <1>12, <1>13, <1>14, <1>15 DEF RequestInv
(* The handler answers.                                                    *)
LEMMA StepRun ==
  ASSUME RequestInv, HandlerAnswers \/ Healthz
  PROVE  RequestInv'
<1>1. /\ PathInv /\ IdentityInv /\ HoldInv /\ StatusInv /\ LogInv
      /\ IdInv /\ PreflightInv /\ RouteInv /\ RpcInv
  BY DEF RequestInv
<1>2. AtHandler
  BY DEF HandlerAnswers, Healthz
<1>3. \E what \in {"app", "healthz"} : \E cs \in Seq(Nat \ {0}) : Run(what, cs)
  <2>1. CASE HandlerAnswers
    BY <2>1, AnswersAssumption DEF HandlerAnswers
  <2>2. CASE Healthz
    <3>1. PICK c \in {405, 200, 503} : Run("healthz", <<c>>)
      BY <2>2 DEF Healthz
    <3>2. <<c>> \in Seq(Nat \ {0})
      OBVIOUS
    <3> QED
      BY <3>1, <3>2
  <2> QED
    BY <2>1, <2>2
<1>4. PICK what \in {"app", "healthz"}, cs \in Seq(Nat \ {0}) : Run(what, cs)
  BY <1>3
<1>5. /\ phase = "down" /\ phase' = "up"
      /\ UNCHANGED <<place, links, ctx, header, log, visited, verdict, rpc>>
  BY <1>2, <1>4 DEF AtHandler, Run
<1>6. ran'.ctx.id = ctx.id
  BY <1>4 DEF Run
<1>7. PathInv'
  BY <1>1, <1>2, <1>4, PathRun
<1>8. IdentityInv'
  BY <1>1, <1>2, <1>4, IdentityRun
<1>9. HoldInv' /\ StatusInv' /\ LogInv' /\ \A k \in Recorders : rec'[k].id = rec[k].id
  BY <1>1, <1>2, <1>4, StatusRun
<1>10. header' = [cors |-> header'.cors, id |-> header.id, encoding |-> header'.encoding]
  BY <1>1, <1>5 DEF IdInv
<1>11. IdInv'
  BY <1>1, <1>5, <1>6, <1>9, <1>10, IdKept
<1>12. PreflightInv'
  BY <1>1, <1>2, <1>5, PreflightElsewhere
<1>13. RouteInv'
  BY <1>1, <1>4, RouteRun
<1>14. RpcInv'
  BY <1>1, <1>5, RpcBefore
<1> QED
  BY <1>7, <1>8, <1>9, <1>11, <1>12, <1>13, <1>14 DEF RequestInv

(* The way up.                                                             *)
LEMMA StepUp ==
  ASSUME RequestInv, RecorderLeave \/ GzipLeave \/ OtherLeave
  PROVE  RequestInv'
<1>1. /\ PathInv /\ IdentityInv /\ HoldInv /\ StatusInv /\ LogInv
      /\ IdInv /\ PreflightInv /\ RouteInv /\ RpcInv
  BY DEF RequestInv
<1>2. /\ phase = "up" /\ phase' = "up" /\ at > 0 /\ at' = at - 1
      /\ UNCHANGED <<place, links, ctx, header, visited, verdict, ran, rpc>>
  BY DEF RecorderLeave, GzipLeave, OtherLeave, Up, history, response
<1>3. PathInv'
  BY <1>1, <1>2, PathUp
<1>4. IdentityInv'
  BY <1>1, <1>2, IdentityQuiet
<1>5. HoldInv' /\ StatusInv' /\ LogInv' /\ Code' = Code
  BY <1>1, StatusRecorder, StatusLeave
<1>6. \A k \in Recorders :
         /\ rec'[k].id = rec[k].id
         /\ log'[k] # <<>> => log'[k] = log[k] \/ log'[k][1].id \in {"", rec[k].id}
  <2>1. CASE RecorderLeave
    <3>1. rec' = rec
      BY <2>1 DEF RecorderLeave
    <3> QED
      BY <1>1, <2>1, <3>1, StatusRecorder
  <2>2. CASE GzipLeave \/ OtherLeave
    <3>1. log' = log
      BY <2>2 DEF GzipLeave, OtherLeave, response
    <3> QED
      BY <1>1, <2>2, <3>1, StatusLeave
  <2> QED
    BY <2>1, <2>2
<1>7. header' = [cors |-> header'.cors, id |-> header.id, encoding |-> header'.encoding]
  BY <1>1, <1>2 DEF IdInv
<1>8. ran'.what = "app" => ran'.ctx.id = ctx.id
  BY <1>1, <1>2 DEF IdInv
<1>9. IdInv'
  BY <1>1, <1>2, <1>6, <1>7, <1>8, IdKept
<1>10. PreflightInv'
  BY <1>1, <1>2, <1>5, PreflightUp DEF Answering
<1>11. RouteInv'
  BY <1>1, <1>2, RouteKept
<1>12. RpcInv'
  BY <1>1, <1>2, RpcBefore
<1> QED
  BY <1>3, <1>4, <1>5, <1>9, <1>10, <1>11, <1>12 DEF RequestInv

(* The end of the request, and the call.                                   *)
LEMMA StepEnds ==
  ASSUME RequestInv, HandlerPanics \/ Respond \/ RpcCall \/ UNCHANGED vars
  PROVE  RequestInv'
<1>1. /\ PathInv /\ IdentityInv /\ HoldInv /\ StatusInv /\ LogInv
      /\ IdInv /\ PreflightInv /\ RouteInv /\ RpcInv
  BY DEF RequestInv
<1>2. /\ UNCHANGED <<place, links, at, ctx, response, history>>
      /\ \/ phase = "down" /\ phase' = "aborted"
         \/ phase = "up" /\ phase' = "answered" /\ at = 0
         \/ phase = "answered" /\ phase' = "closed"
         \/ phase' = phase
  BY DEF HandlerPanics, AtHandler, Respond, RpcCall, vars
<1>3. UNCHANGED <<rec, log, header, visited, verdict, ran>>
  BY <1>2 DEF response, history
<1>4. PathInv'
  <2>1. CASE HandlerPanics \/ Respond \/ RpcCall
    <3>1. \/ phase = "up" /\ at = 0 /\ phase' = "answered"
          \/ phase = "down" /\ phase' = "aborted"
          \/ phase = "answered" /\ phase' = "closed"
      BY <2>1 DEF HandlerPanics, AtHandler, Respond, RpcCall
    <3> QED
      BY <1>1, <1>2, <1>3, <3>1, PathUp
  <2>2. CASE UNCHANGED vars
    BY <1>1, <2>2, PathStutter
  <2> QED
    BY <2>1, <2>2
<1>5. IdentityInv'
  BY <1>1, <1>2, <1>3, IdentityQuiet
<1>6. HoldInv' /\ StatusInv' /\ LogInv' /\ Code' = Code
  BY <1>1, <1>2, StatusEnds
<1>7. header' = [cors |-> header'.cors, id |-> header.id, encoding |-> header'.encoding]
  BY <1>1, <1>3 DEF IdInv
<1>8. ran'.what = "app" => ran'.ctx.id = ctx.id
  BY <1>1, <1>3 DEF IdInv
<1>9. IdInv'
  BY <1>1, <1>2, <1>3, <1>7, <1>8, IdKept
<1>10. PreflightInv'
  <2>1. Preflight' <=> Preflight
    BY <1>2, PreflightSame
  <2>2. (Answering' => Answering) /\ (phase' = "down" => phase = "down")
    BY <1>2 DEF Answering
  <2>3. Passed("cors")' <=> Passed("cors")
    BY <1>3 DEF Passed
  <2> QED
    BY <1>1, <1>3, <1>6, <2>1, <2>2, <2>3 DEF PreflightInv
<1>11. RouteInv'
  BY <1>1, <1>2, <1>3, RouteKept
<1>12. RpcInv'
  <2>1. conf' = conf /\ req' = req
    BY <1>2 DEF place
  <2>2. \A numbers : RpcOutcome(numbers)' = RpcOutcome(numbers)
    BY <1>2, RpcOutcomeKept
  <2>3. CASE HandlerPanics \/ Respond
    <3>1. rpc' = rpc /\ phase # "closed" /\ phase' # "closed"
      BY <2>3 DEF HandlerPanics, AtHandler, Respond
    <3> QED
      BY <1>1, <3>1, RpcBefore
  <2>4. CASE RpcCall
    <3>1. phase' = "closed" /\ req.rpc # "none"
      BY <2>4 DEF RpcCall
    <3>2. PICK numbers \in Interceptors(conf.grpc, req.rpc) : rpc' = RpcOutcome(numbers)
      BY <2>4 DEF RpcCall
    <3> QED
      BY <2>1, <2>2, <3>1, <3>2 DEF RpcInv
  <2>5. CASE UNCHANGED vars
    <3>1. phase' = phase /\ rpc' = rpc
      BY <2>5 DEF vars
    <3> QED
      BY <1>1, <2>1, <2>2, <3>1 DEF RpcInv
  <2> QED
    BY <2>3, <2>4, <2>5
<1> QED
  BY <1>4, <1>5, <1>6, <1>9, <1>10, <1>11, <1>12 DEF RequestInv

(* The strengthening of the properties of RequestPath is inductive.        *)
THEOREM RequestInvariant == Spec => []RequestInv
<1>1. Init => RequestInv
  BY RequestInit
<1>2. RequestInv /\ [Next]_vars => RequestInv'
  <2> SUFFICES ASSUME RequestInv, [Next]_vars
               PROVE  RequestInv'
    OBVIOUS
  <2>1. CASE Construct \/ Wrap \/ Listen
    BY <2>1, StepBefore
  <2>2. CASE Routing
    BY <2>2, StepBefore, StepUnwrapped, RoutingRoutes DEF RequestInv, PathInv
  <2>3. CASE Down
    BY <2>3, StepPass, StepAnswer, StepRun, StepEnds DEF Down
  <2>4. CASE Leaving
    BY <2>4, StepUp, StepEnds DEF Leaving
  <2>5. CASE RpcCall
    BY <2>5, StepEnds
  <2>6. CASE Finished \/ UNCHANGED vars
    BY <2>6, StepEnds DEF Finished
  <2> QED
    BY <2>1, <2>2, <2>3, <2>4, <2>5, <2>6 DEF Next
<1> QED
  BY <1>1, <1>2, PTL DEF Spec
-----------------------------------------------------------------------------
(* What the properties say.                                                *)

(* AssetHandler is the last resource that serves the path.                 *)
LEMMA LastResource ==
  ASSUME PlaceInv, NEW path, NEW gz \in BOOLEAN, NEW n, n = AssetHandler(conf, path, gz), n # 0
  PROVE  /\ n \in 1..Len(conf.resources)
         /\ conf.resources[n].gzip = gz
         /\ \A i \in (n + 1)..Len(conf.resources) :
               ~(conf.resources[i].assets /\ conf.resources[i].gzip = gz
                 /\ path \in Patterns(conf.resources[i]))
<1> DEFINE I == {i \in 1..Len(conf.resources) : Serves(conf.resources[i], path, gz)}
<1>1. I # {} /\ n = Max(I)
  BY DEF AssetHandler, SelectLastInSeq
<1>2. Len(conf.resources) \in Nat
  BY DeploymentAssumption DEF PlaceInv
<1>3. I \in SUBSET (1..Len(conf.resources))
  OBVIOUS
<1>4. n \in I /\ \A x \in I : x <= n
  BY <1>1, <1>2, <1>3, GreatestNumber
<1>5. \A i \in (n + 1)..Len(conf.resources) : i \in 1..Len(conf.resources) /\ ~(i <= n)
  BY <1>2, <1>4
<1>6. \A i \in (n + 1)..Len(conf.resources) : ~Serves(conf.resources[i], path, gz)
  BY <1>4, <1>5
<1>7. Serves(conf.resources[n], path, gz) /\ n \in 1..Len(conf.resources)
  BY <1>4
<1> QED
  BY <1>6, <1>7 DEF Serves

(* What answers is what the settings name.                                 *)
LEMMA RoutedAsInvariant ==
  ASSUME RequestInv
  PROVE  RoutedAsConfigured
<1>1. PlaceInv /\ VisitInv /\ RouteInv
  BY DEF RequestInv, PathInv
<1>2. ASSUME ran.what \in {"app", "healthz"}
      PROVE  /\ conf.handlers[ran.number].pattern = req.path
             /\ \A i \in 1..(ran.number - 1) : conf.handlers[i].pattern # req.path
  <2>1. ran.number = HandlerAt(conf, req.path) /\ HandlerAt(conf, req.path) # 0
    BY <1>1, <1>2 DEF RouteInv, VisitInv
  <2> QED
    BY <1>1, <2>1, FirstHandler
<1>3. ASSUME ran.what \in {"asset", "index"}
      PROVE  /\ "handlers" \in conf.options =>
                   \A i \in DOMAIN conf.handlers : conf.handlers[i].pattern # req.path
             /\ header.encoding = "gzip" => req.accept /\ conf.resources[ran.number].gzip
             /\ ran.number # 0 => \A i \in (ran.number + 1)..Len(conf.resources) :
                   conf.resources[i].assets /\ conf.resources[i].gzip = conf.resources[ran.number].gzip
                   => (IF ran.what = "index" THEN <<"/">> ELSE req.path) \notin Patterns(conf.resources[i])
  <2>1. PICK path : path = IF ran.what = "index" THEN <<"/">> ELSE req.path
    OBVIOUS
  <2>2. /\ ran.number = AssetServed(conf, path, req.accept)
        /\ header.encoding = AssetEncoding(conf, path, req.accept)
        /\ Routed = ran.what
    BY <1>1, <1>3, <2>1 DEF RouteInv
  <2>3. HandlerAt(conf, req.path) = 0
    BY <1>3, <2>2 DEF Routed
  <2>4. PICK gz \in BOOLEAN : gz = GzipVariant(conf, path, req.accept)
    BY Zenon DEF GzipVariant
  <2>5. ran.number = AssetHandler(conf, path, gz)
    BY <2>2, <2>4 DEF AssetServed
  <2>6. header.encoding = "gzip" => gz = TRUE
    BY <2>2, <2>4 DEF AssetEncoding
  <2>7. gz = TRUE => req.accept /\ AssetHandler(conf, path, gz) # 0
    BY <2>4 DEF GzipVariant
  <2>8. ran.number # 0 =>
           /\ conf.resources[ran.number].gzip = gz
           /\ \A i \in (ran.number + 1)..Len(conf.resources) :
               ~(conf.resources[i].assets /\ conf.resources[i].gzip = gz
                 /\ path \in Patterns(conf.resources[i]))
    BY <1>1, <2>5, LastResource
  <2>9. "handlers" \in conf.options =>
           \A i \in DOMAIN conf.handlers : conf.handlers[i].pattern # req.path
    BY <1>1, <2>3, NoHandler
  <2>10. header.encoding = "gzip" => req.accept /\ conf.resources[ran.number].gzip
    BY <2>5, <2>6, <2>7, <2>8
  <2> QED
    BY <2>1, <2>8, <2>9, <2>10
<1>4. ASSUME ran.what = "index"
      PROVE  /\ req.method \in {"GET", "HEAD"} /\ ~HasExt(req.path)
             /\ ~\E p \in conf.exclude : IsPrefix(p, req.path)
             /\ "assets" \in conf.options => ~IsAsset(conf, req.path)
  <2>1. Routed = "index"
    BY <1>1, <1>4 DEF RouteInv
  <2>2. ~AssetAt(conf, req.path) /\ SpaFallback(conf, req.path, req.method)
    BY <2>1 DEF Routed
  <2> QED
    BY <2>2 DEF AssetAt, SpaFallback, Reads, HasPrefix
<1> QED
  BY <1>2, <1>3, <1>4 DEF RoutedAsConfigured

(* One entry for every recorder passed, with the status of the client.     *)
LEMMA LogAgreesInvariant ==
  ASSUME RequestInv
  PROVE  LogAgreesWithClient
<1>1. VisitInv /\ HoldInv /\ StatusInv /\ LogInv /\ IdInv
  BY DEF RequestInv, PathInv
<1>2. SUFFICES ASSUME HasAnswered, Len(ran.wrote) <= 1, NEW k \in Recorders
               PROVE  /\ Len(log[k]) = IF k \in ToSet(visited) THEN 1 ELSE 0
                      /\ \A i \in DOMAIN log[k] :
                            /\ log[k][i].status = Sent
                            /\ log[k][i].id \in {"", header.id}
                            /\ log[k][i].id # "" /\ ran.what = "app" => ran.ctx.id = log[k][i].id
  BY DEF LogAgreesWithClient
<1>3. Answering /\ at = 0
  BY <1>1, <1>2 DEF HasAnswered, Answering, HoldInv
<1>4. ~holding
  BY <1>1, <1>3 DEF HoldInv
<1>5. Code = Sent
  BY <1>4 DEF Code
<1>6. k \in ToSet(visited) <=> Passed(k)
  BY <1>1 DEF VisitInv, ToSet, Passed
<1>7. CASE ~Passed(k)
  <2>1. log[k] = <<>>
    BY <1>1, <1>3, <1>7 DEF LogInv
  <2> QED
    BY <1>6, <1>7, <2>1
<1>8. CASE Passed(k)
  <2>1. PICK i \in 1..Len(visited) : links[i] = k /\ ~(i <= at) /\ i > at
    BY <1>1, <1>3, <1>8 DEF Passed, VisitInv
  <2>2. Entry(k)
    BY <1>1, <1>3, <2>1 DEF LogInv
  <2>3. Len(log[k]) = 1 /\ log[k] # <<>> /\ DOMAIN log[k] = {1}
    <3>1. PICK e : log[k] = <<e>>
      BY <2>2 DEF Entry
    <3> QED
      BY <3>1
  <2>4. log[k][1].status = Sent
    BY <1>1, <1>2, <1>3, <1>5, <2>1 DEF StatusInv, Heard
  <2>5. log[k][1].id \in {"", ctx.id} /\ ctx.id = header.id /\ (ran.what = "app" => ran.ctx.id = ctx.id)
    BY <1>1, <2>3 DEF IdInv
  <2> QED
    BY <1>6, <1>8, <2>3, <2>4, <2>5
<1> QED
  BY <1>7, <1>8
(* The interceptor beans of a call, and their names along a sequence of    *)
(* their numbers.                                                          *)
Beans == conf.grpc.interceptors
CallBeans == {k \in DOMAIN Beans : IF req.rpc = "stream" THEN Beans[k].stream ELSE Beans[k].unary}
NamesOf(numbers) == [i \in DOMAIN numbers |-> Beans[numbers[i]].name]

(* An element of a sequence.                                               *)
LEMMA ElementIn ==
  ASSUME NEW T, NEW b \in Seq(T), NEW i \in DOMAIN b
  PROVE  b[i] \in T
  OBVIOUS

(* A bean has a name.                                                      *)
LEMMA BeanNamed ==
  ASSUME NEW b \in Seq([name : STRING, order : Int, unary : BOOLEAN, stream : BOOLEAN]),
         NEW i \in DOMAIN b
  PROVE  b[i].name \in STRING
<1>1. b[i] \in [name : STRING, order : Int, unary : BOOLEAN, stream : BOOLEAN]
  BY ElementIn, Zenon
<1> QED
  BY <1>1

(* What the deployment says of them.                                       *)
LEMMA BeanFacts ==
  ASSUME PlaceInv
  PROVE  /\ Len(Beans) \in Nat /\ DOMAIN Beans = 1..Len(Beans)
         /\ \A i \in DOMAIN Beans : Beans[i].name \in STRING
         /\ \A i, j \in DOMAIN Beans : Beans[i].name = Beans[j].name => i = j
         /\ \A i \in DOMAIN Beans : Beans[i].name = "auth" => i \in CallBeans
         /\ IsFiniteSet(CallBeans)
<1>1. /\ Beans \in Seq([name : STRING, order : Int, unary : BOOLEAN, stream : BOOLEAN])
      /\ \A i, j \in DOMAIN Beans : Beans[i].name = Beans[j].name => i = j
      /\ \A i \in DOMAIN Beans : Beans[i].name = "auth" => Beans[i].unary /\ Beans[i].stream
  BY GrpcAssumption DEF PlaceInv, Beans
<1>2. Len(Beans) \in Nat /\ DOMAIN Beans = 1..Len(Beans)
  BY <1>1
<1>3. \A i \in DOMAIN Beans : Beans[i].name \in STRING
  BY <1>1, BeanNamed
<1>4. IsFiniteSet(1..Len(Beans))
  BY <1>2, FS_Interval
<1>5. CallBeans \subseteq 1..Len(Beans)
  BY <1>2 DEF CallBeans
<1>6. IsFiniteSet(CallBeans)
  BY <1>4, <1>5, FS_Subset
<1>7. \A i \in DOMAIN Beans : Beans[i].name = "auth" => i \in CallBeans
  BY <1>1 DEF CallBeans
<1> QED
  BY <1>1, <1>2, <1>3, <1>6, <1>7

(* A name leads back to its bean.                                          *)
LEMMA NumberOfName ==
  ASSUME PlaceInv, NEW n \in DOMAIN Beans
  PROVE  BeanNumber(Beans, Beans[n].name) = n
<1> DEFINE I == {i \in 1..Len(Beans) : Beans[i].name = Beans[n].name}
<1>1. Len(Beans) \in Nat /\ DOMAIN Beans = 1..Len(Beans) /\ I = {n}
  BY BeanFacts
<1>2. BeanNumber(Beans, Beans[n].name) = Min(I)
  BY <1>1 DEF BeanNumber, SelectInSeq
<1>3. I \in SUBSET Nat
  BY <1>1
<1>4. Min(I) \in I
  BY <1>1, <1>3, LeastNumber
<1> QED
  BY <1>1, <1>2, <1>4

(* The interceptors of a call: each of its kind, once, in order.           *)
LEMMA CallChain ==
  ASSUME PlaceInv, NEW numbers \in Interceptors(conf.grpc, req.rpc)
  PROVE  /\ Len(numbers) \in Nat /\ DOMAIN numbers = 1..Len(numbers)
         /\ \A i \in 1..Len(numbers) : numbers[i] \in CallBeans
         /\ \A x \in CallBeans : \E i \in 1..Len(numbers) : x = numbers[i]
         /\ \A i, j \in 1..Len(numbers) : i < j => Before(Beans, numbers[i], numbers[j])
<1>1. numbers \in Sorted(Beans, CallBeans)
  <2>1. CASE req.rpc = "stream"
    BY <2>1 DEF Interceptors, StreamInterceptors, CallBeans, Beans
  <2>2. CASE req.rpc # "stream"
    BY <2>2 DEF Interceptors, UnaryInterceptors, CallBeans, Beans
  <2> QED
    BY <2>1, <2>2
<1>2. /\ numbers \in SetToSeqs(CallBeans)
      /\ \A i, j \in DOMAIN numbers : i < j => Before(Beans, numbers[i], numbers[j])
  BY <1>1 DEF Sorted
<1>3. IsFiniteSet(CallBeans)
  BY BeanFacts
<1>4. /\ Cardinality(CallBeans) \in Nat
      /\ numbers \in [1..Cardinality(CallBeans) -> CallBeans]
      /\ Len(numbers) = Cardinality(CallBeans)
      /\ \A x \in CallBeans : \E i \in 1..Cardinality(CallBeans) : x = numbers[i]
  BY <1>2, <1>3, AllElements
<1> QED
  BY <1>2, <1>4

(* ... and where among their names the auth interceptor is.                *)
LEMMA CallNames ==
  ASSUME PlaceInv, NEW numbers \in Interceptors(conf.grpc, req.rpc)
  PROVE  /\ NamesOf(numbers) \in Seq(STRING) /\ Len(NamesOf(numbers)) = Len(numbers)
         /\ \A i \in 1..Len(numbers) : NamesOf(numbers)[i] = Beans[numbers[i]].name
         /\ AuthAt(NamesOf(numbers)) \in 0..Len(numbers)
         /\ AuthAt(NamesOf(numbers)) = 0 <=> ~\E i \in DOMAIN Beans : Beans[i].name = "auth"
<1> DEFINE names == NamesOf(numbers)
           I == {i \in 1..Len(names) : names[i] = "auth"}
<1>1. /\ Len(numbers) \in Nat /\ DOMAIN numbers = 1..Len(numbers)
      /\ \A i \in 1..Len(numbers) : numbers[i] \in CallBeans
      /\ \A x \in CallBeans : \E i \in 1..Len(numbers) : x = numbers[i]
  BY CallChain
<1>2. /\ \A i \in DOMAIN Beans : Beans[i].name \in STRING
      /\ \A i \in DOMAIN Beans : Beans[i].name = "auth" => i \in CallBeans
  BY BeanFacts
<1>3. \A x \in CallBeans : x \in DOMAIN Beans
  BY DEF CallBeans
<1>4. names \in [1..Len(numbers) -> STRING]
  BY <1>1, <1>2, <1>3 DEF NamesOf
<1>5. \A i \in 1..Len(numbers) : names[i] = Beans[numbers[i]].name
  BY <1>1 DEF NamesOf
<1>6. AuthAt(names) = IF I # {} THEN Min(I) ELSE 0
  BY DEF AuthAt, SelectInSeq
<1> HIDE DEF names
<1>7. names \in Seq(STRING) /\ Len(names) = Len(numbers)
  BY <1>1, <1>4
<1>8. I \in SUBSET Nat
  BY <1>1, <1>7
<1>9. I # {} => Min(I) \in I
  BY <1>8, LeastNumber
<1>10. I = {} <=> ~\E i \in DOMAIN Beans : Beans[i].name = "auth"
  BY <1>1, <1>2, <1>3, <1>5, <1>7
<1>11. \A x \in I : x \in 0..Len(numbers) /\ x # 0
  BY <1>1, <1>7
<1>12. AuthAt(names) \in 0..Len(numbers) /\ (AuthAt(names) = 0 <=> I = {})
  BY <1>1, <1>6, <1>9, <1>11
<1> QED
  BY <1>5, <1>7, <1>10, <1>12 DEF names
(* The outcomes of a call, in the order of the code's conditions.          *)
LEMMA CallOutcomes ==
  ASSUME PlaceInv, NEW numbers \in Interceptors(conf.grpc, req.rpc)
  PROVE  LET g == conf.grpc
             names == NamesOf(numbers)
             answer == IF AuthAt(names) = 0 THEN "exempt"
                       ELSE RpcAuthenticate(g, conf.auth, req.rpcMethod, req.cred)
             out == RpcOutcome(numbers)
         IN  \/ ~Dials(g.client, req.cred) /\ out = RpcEnds("noClient", <<>>)
             \/ ~Reaches(g) /\ out = RpcEnds("unreachable", <<>>)
             \/ /\ ServiceOf(req.rpcMethod) \notin RegisteredServices(g)
                /\ out = RpcEnds("Unimplemented", <<>>)
             \/ answer = "ok" /\ out = RpcHandler(Identity(conf.auth, req.cred.token), names)
             \/ answer = "exempt" /\ out = RpcHandler(Nobody, names)
             \/ /\ answer \notin {"ok", "exempt"}
                /\ out = RpcEnds(answer, SubSeq(names, 1, AuthAt(names)))
  BY DEF RpcOutcome, NamesOf, Beans

(* The fields of an outcome.                                               *)
LEMMA EndsFields ==
  ASSUME NEW status, NEW passed, NEW r, r = RpcEnds(status, passed)
  PROVE  r.status = status /\ r.visited = passed /\ ~r.handled
  BY DEF RpcEnds

LEMMA HandlerFields ==
  ASSUME NEW auth, NEW passed, NEW r, r = RpcHandler(auth, passed)
  PROVE  /\ r.auth = auth /\ r.visited = passed
         /\ r.status = IF ServiceOf(req.rpcMethod) = "health"
                          /\ HealthStatus(conf.grpc, req.probe) # "SERVING"
                       THEN "NotFound" ELSE "OK"
  BY DEF RpcHandler, StreamContext

(* What the interceptor answers is ok, exempt or a refusal.                *)
LEMMA RpcAnswers ==
  ASSUME PlaceInv, ~IsExempt(conf.grpc, req.rpcMethod)
  PROVE  LET answer == RpcAuthenticate(conf.grpc, conf.auth, req.rpcMethod, req.cred)
         IN  /\ answer # "exempt"
             /\ answer = "ok" => Allowed
             /\ req.rpcMethod[1] = "/" =>
                   <<HttpVerdict(conf.auth, req.cred), answer>> \in
                      {<<"ok", "ok">>, <<"unauthorized", "Unauthenticated">>,
                       <<"unavailable", "Unavailable">>, <<"failure", "Internal">>}
<1> DEFINE v == GrpcVerdict(conf.auth, req.cred)
           answer == RpcAuthenticate(conf.grpc, conf.auth, req.rpcMethod, req.cred)
<1>1. v = HttpVerdict(conf.auth, req.cred)
  BY DEF GrpcVerdict, HttpVerdict, BearerFromContext
<1>2. v \in {"ok", "unauthorized", "unavailable", "failure"}
  BY <1>1, Verdicts
<1>3. v = "ok" => Allowed
  BY <1>1 DEF HttpVerdict, Allowed
<1>4. /\ GrpcRefusal["unauthorized"] = "Unauthenticated"
      /\ GrpcRefusal["unavailable"] = "Unavailable"
      /\ GrpcRefusal["failure"] = "Internal"
  BY DEF GrpcRefusal
<1>5. answer = IF req.rpcMethod[1] # "/" THEN "Unimplemented"
               ELSE IF v = "ok" THEN "ok" ELSE GrpcRefusal[v]
  BY DEF RpcAuthenticate
<1> HIDE DEF v, answer
<1>6. answer # "exempt" /\ (answer = "ok" => v = "ok")
  BY <1>2, <1>4, <1>5
<1>7. req.rpcMethod[1] = "/" =>
         <<v, answer>> \in {<<"ok", "ok">>, <<"unauthorized", "Unauthenticated">>,
                            <<"unavailable", "Unavailable">>, <<"failure", "Internal">>}
  BY <1>2, <1>4, <1>5
<1> QED
  BY <1>1, <1>3, <1>6, <1>7 DEF answer

(* The handler finds the identity of an accepted token.                    *)
LEMMA IdentityInvariant ==
  ASSUME RequestInv
  PROVE  HandlerSeesIdentity
<1>1. PlaceInv /\ VisitInv /\ IdentityInv /\ RpcInv
  BY DEF RequestInv, PathInv
<1>2. ran.what = "app" => ("auth" \in ToSet(links) <=> Passed("auth"))
  BY <1>1 DEF VisitInv, ToSet, Passed
<1>3. ran.what = "app" /\ "auth" \in ToSet(links) /\ req.method # "OPTIONS"
         => Allowed /\ ran.ctx.auth = Who
  BY <1>1, <1>2 DEF IdentityInv
<1>4. ran.what = "app" /\ "auth" \notin ToSet(links) => ~ran.ctx.auth.known
  BY <1>1, <1>2 DEF IdentityInv, Nobody
<1>5. ASSUME rpc.handled, "auth" \in ToSet(rpc.visited), ~IsExempt(conf.grpc, req.rpcMethod)
      PROVE  Allowed /\ rpc.auth = Who
  <2>1. phase = "closed"
    BY <1>1, <1>5 DEF RpcInv
  <2>2. PICK numbers \in Interceptors(conf.grpc, req.rpc) : rpc = RpcOutcome(numbers)
    BY <1>1, <2>1 DEF RpcInv
  <2>3. PICK names : names = NamesOf(numbers)
    OBVIOUS
  <2>4. PICK answer : answer = IF AuthAt(names) = 0 THEN "exempt"
                       ELSE RpcAuthenticate(conf.grpc, conf.auth, req.rpcMethod, req.cred)
    OBVIOUS
  <2>5. \/ answer = "ok" /\ rpc = RpcHandler(Identity(conf.auth, req.cred.token), names)
        \/ answer = "exempt" /\ rpc = RpcHandler(Nobody, names)
    <3>1. rpc # RpcEnds("noClient", <<>>) /\ rpc # RpcEnds("unreachable", <<>>)
          /\ rpc # RpcEnds("Unimplemented", <<>>)
      BY <1>5, EndsFields
    <3>2. rpc # RpcEnds(answer, SubSeq(names, 1, AuthAt(names)))
      BY <1>5, EndsFields
    <3> QED
      BY <1>1, <2>2, <2>3, <2>4, <3>1, <3>2, CallOutcomes
  <2>6. rpc.visited = names
    BY <2>5, HandlerFields
  <2>7. names \in Seq(STRING) /\ Len(names) = Len(numbers) /\ Len(numbers) \in Nat
        /\ \A i \in 1..Len(numbers) : names[i] = Beans[numbers[i]].name /\ numbers[i] \in DOMAIN Beans
    BY <1>1, <2>3, CallNames, CallChain DEF CallBeans
  <2>8. \E i \in DOMAIN Beans : Beans[i].name = "auth"
    BY <1>5, <2>6, <2>7 DEF ToSet
  <2>9. AuthAt(names) # 0
    BY <1>1, <2>3, <2>8, CallNames
  <2>10. answer # "exempt" /\ (answer = "ok" => Allowed)
    BY <1>1, <1>5, <2>4, <2>9, RpcAnswers
  <2> QED
    BY <2>5, <2>10, HandlerFields DEF Who
<1> QED
  BY <1>3, <1>4, <1>5 DEF HandlerSeesIdentity, Allowed, Who

(* The middlewares, and the interceptors, in their order.                  *)
LEMMA OrderInvariant ==
  ASSUME RequestInv
  PROVE  ChainInOrder
<1>1. PlaceInv /\ WrapInv /\ VisitInv /\ RpcInv /\ phase \in Phases
  BY DEF RequestInv, PathInv
<1>2. /\ visited \in Seq(Middlewares) /\ links \in Seq(Middlewares) /\ Len(visited) \in Nat
      /\ Len(links) \in Nat /\ Len(visited) <= Len(links) /\ DOMAIN visited = 1..Len(visited)
      /\ \A i \in 1..Len(visited) : i \in 1..Len(links) /\ visited[i] = links[i]
  BY <1>1 DEF VisitInv
<1>3. /\ Len(chain) \in Nat
      /\ \A p, q \in 1..Len(chain) : p < q =>
            chain[p] # chain[q] /\ conf.order[chain[p]] <= conf.order[chain[q]]
      /\ \A m \in DOMAIN conf.order : \E p \in 1..Len(chain) : m = chain[p]
  BY <1>1, ChainFacts
<1>4. Len(visited) > 0 \/ ran.what \in {"app", "healthz"} => phase \notin BeforeRouting
  BY <1>1 DEF VisitInv
<1>5. /\ phase \notin BeforeRouting /\ HandlerAt(conf, req.path) # 0 =>
            WrapsFrom(chain, 0, HandlerBeans, links)
      /\ phase \notin BeforeRouting /\ HandlerAt(conf, req.path) = 0 => links = <<>>
  BY <1>1 DEF WrapInv, BeforeRouting
<1>6. ASSUME NEW i \in DOMAIN visited, NEW j \in DOMAIN visited, i < j
      PROVE  visited[i] # visited[j] /\ conf.order[visited[i]] <= conf.order[visited[j]]
  <2>1. phase \notin BeforeRouting /\ links # <<>>
    BY <1>2, <1>4
  <2>2. WrapsFrom(chain, 0, HandlerBeans, links)
    BY <1>5, <2>1
  <2>3. PICK p \in 1..Len(chain), q \in 1..Len(chain) :
          p < q /\ links[i] = chain[p] /\ links[j] = chain[q]
    <3>1. i \in 1..Len(links) /\ j \in 1..Len(links)
      BY <1>2
    <3>2. PICK R : R = 1..Len(chain)
      OBVIOUS
    <3>3. R = (0 + 1)..Len(chain) /\ i < j
      BY <1>6, <3>2
    <3>4. \E p, q \in R : p < q /\ links[i] = chain[p] /\ links[j] = chain[q]
      BY <2>2, <3>1, <3>3, Zenon DEF WrapsFrom
    <3> QED
      BY <3>2, <3>4, Zenon
  <2> QED
    BY <1>2, <1>3, <2>3
<1>7. ASSUME ran.what \in {"app", "healthz"}
      PROVE  {m \in DOMAIN conf.order : Match(conf, m, req.path)} = ToSet(visited)
  <2>1. Len(visited) = Len(links) /\ HandlerAt(conf, req.path) # 0
    BY <1>1, <1>7 DEF VisitInv
  <2>2. WrapsFrom(chain, 0, HandlerBeans, links)
    BY <1>4, <1>5, <1>7, <2>1
  <2>3. \A i \in 1..Len(links) : links[i] \in HandlerBeans
    BY <1>3, <2>2, AllWrapped
  <2>4. \A p \in 1..Len(chain) : chain[p] \in HandlerBeans => \E i \in 1..Len(links) : links[i] = chain[p]
    BY <1>3, <2>2, AllWrapped
  <2>5. \A m \in HandlerBeans : \E i \in 1..Len(links) : links[i] = m
    BY <1>3, <2>4 DEF HandlerBeans
  <2>6. ToSet(visited) = HandlerBeans
    BY <1>2, <2>1, <2>3, <2>5 DEF ToSet
  <2> QED
    BY <2>6 DEF HandlerBeans
<1>8. CASE phase # "closed"
  <2>1. rpc = [status |-> "none", auth |-> Nobody, visited |-> <<>>, handled |-> FALSE]
    BY <1>1, <1>8 DEF RpcInv
  <2>2. rpc.visited = <<>> /\ ~rpc.handled
    BY <2>1
  <2> QED
    BY <1>6, <1>7, <2>2 DEF ChainInOrder
<1>9. CASE phase = "closed"
  <2>1. PICK numbers \in Interceptors(conf.grpc, req.rpc) : rpc = RpcOutcome(numbers)
    BY <1>1, <1>9 DEF RpcInv
  <2>2. PICK names : names = NamesOf(numbers)
    OBVIOUS
  <2>3. /\ names \in Seq(STRING) /\ Len(names) = Len(numbers) /\ Len(numbers) \in Nat
        /\ \A i \in 1..Len(numbers) : names[i] = Beans[numbers[i]].name
        /\ AuthAt(names) \in 0..Len(numbers)
        /\ \A i \in 1..Len(numbers) : numbers[i] \in CallBeans /\ numbers[i] \in DOMAIN Beans
        /\ \A x \in CallBeans : \E i \in 1..Len(numbers) : x = numbers[i]
        /\ \A i, j \in 1..Len(numbers) : i < j => Before(Beans, numbers[i], numbers[j])
    BY <1>1, <2>2, CallNames, CallChain DEF CallBeans
  <2>4. \/ ~rpc.handled /\ rpc.visited = <<>>
        \/ ~rpc.handled /\ rpc.visited = SubSeq(names, 1, AuthAt(names))
        \/ rpc.visited = names
    <3>1. PICK answer : answer = IF AuthAt(names) = 0 THEN "exempt"
                        ELSE RpcAuthenticate(conf.grpc, conf.auth, req.rpcMethod, req.cred)
      OBVIOUS
    <3>2. \/ \E status : rpc = RpcEnds(status, <<>>)
          \/ rpc = RpcEnds(answer, SubSeq(names, 1, AuthAt(names)))
          \/ \E auth : rpc = RpcHandler(auth, names)
      BY <1>1, <2>1, <2>2, <3>1, CallOutcomes
    <3>3. CASE \E status : rpc = RpcEnds(status, <<>>)
      BY <3>3, EndsFields
    <3>4. CASE rpc = RpcEnds(answer, SubSeq(names, 1, AuthAt(names)))
      <4>1. PICK passed : passed = SubSeq(names, 1, AuthAt(names))
        OBVIOUS
      <4>2. rpc = RpcEnds(answer, passed)
        BY <3>4, <4>1
      <4>3. ~rpc.handled /\ rpc.visited = passed
        BY <4>2, EndsFields
      <4> QED
        BY <4>1, <4>3
    <3>5. CASE \E auth : rpc = RpcHandler(auth, names)
      BY <3>5, HandlerFields
    <3> QED
      BY <3>2, <3>3, <3>4, <3>5
  <2>5. \A i \in DOMAIN rpc.visited : i \in 1..Len(numbers) /\ rpc.visited[i] = names[i]
    <3>1. DOMAIN names = 1..Len(numbers)
      BY <2>3
    <3>2. \A i \in DOMAIN SubSeq(names, 1, AuthAt(names)) :
             i \in 1..Len(numbers) /\ SubSeq(names, 1, AuthAt(names))[i] = names[i]
      BY <2>3
    <3>3. DOMAIN <<>> = {}
      OBVIOUS
    <3>4. CASE rpc.visited = <<>>
      BY <3>3, <3>4
    <3>5. CASE rpc.visited = SubSeq(names, 1, AuthAt(names))
      BY <3>2, <3>5
    <3>6. CASE rpc.visited = names
      BY <3>1, <3>6
    <3> QED
      BY <2>4, <3>4, <3>5, <3>6
  <2>6. \A i \in DOMAIN rpc.visited : BeanNumber(Beans, rpc.visited[i]) = numbers[i]
    BY <1>1, <2>3, <2>5, NumberOfName
  <2>7. \A i, j \in DOMAIN rpc.visited : i < j =>
           Before(Beans, BeanNumber(Beans, rpc.visited[i]), BeanNumber(Beans, rpc.visited[j]))
    BY <2>3, <2>5, <2>6
  <2>8. ASSUME rpc.handled
        PROVE  ToSet(rpc.visited) = {Beans[i].name : i \in CallBeans}
    <3>1. rpc.visited = names /\ DOMAIN names = 1..Len(numbers)
      BY <2>3, <2>4, <2>8
    <3>2. \A i \in 1..Len(numbers) : names[i] \in {Beans[x].name : x \in CallBeans}
      BY <2>3
    <3>3. \A x \in CallBeans : \E i \in 1..Len(numbers) : Beans[x].name = names[i]
      BY <2>3
    <3> QED
      BY <3>1, <3>2, <3>3 DEF ToSet
  <2> QED
    BY <1>6, <1>7, <2>7, <2>8 DEF ChainInOrder, Beans, CallBeans
<1> QED
  BY <1>8, <1>9

(* The prefix of the health and the reflection service.                    *)
LEMMA BuiltInExempt ==
  ASSUME NEW method \in Seq(STRING), Len(method) >= 2, method[1] = "/",
         method[2] \in {"health", "reflection"}
  PROVE  IsExempt(conf.grpc, method)
<1>1. PICK s \in {"health", "reflection"} : s = method[2]
  OBVIOUS
<1>2. PICK p : p = <<"/", s>>
  OBVIOUS
<1>3. Len(p) = 2 /\ p \in Seq(STRING) /\ p[1] = "/" /\ p[2] = s
  <2>1. s \in STRING /\ "/" \in STRING
    BY <1>1
  <2> QED
    BY <1>2, <2>1
<1>4. SubSeq(method, 1, 2) \in Seq(STRING) /\ Len(SubSeq(method, 1, 2)) = 2
      /\ SubSeq(method, 1, 2)[1] = method[1] /\ SubSeq(method, 1, 2)[2] = method[2]
  OBVIOUS
<1>5. SubSeq(method, 1, 2) = p
  BY <1>1, <1>3, <1>4
<1>6. IsPrefix(p, method)
  BY <1>3, <1>5 DEF IsPrefix
<1>7. p \in ExemptPrefixes(conf.grpc)
  BY <1>1, <1>2 DEF ExemptPrefixes
<1> QED
  BY <1>6, <1>7 DEF IsExempt
(* The parts of a method's name.                                           *)
LEMMA CheckMethod ==
  ASSUME NEW m, m = <<"/", "health", "Check">>
  PROVE  m[1] = "/" /\ m[2] = "health"
  OBVIOUS

(* A call that got to a service of the server.                             *)
LEMMA CallArrived ==
  ASSUME RpcInv, rpc.status # "none", rpc.status # "noClient", rpc.status # "unreachable"
  PROVE  /\ \E numbers \in Interceptors(conf.grpc, req.rpc) : rpc = RpcOutcome(numbers)
         /\ rpc # RpcEnds("noClient", <<>>) /\ rpc # RpcEnds("unreachable", <<>>)
<1>1. phase = "closed"
  BY DEF RpcInv
<1>2. rpc # RpcEnds("noClient", <<>>)
  BY EndsFields
<1>3. rpc # RpcEnds("unreachable", <<>>)
  BY EndsFields
<1> QED
  BY <1>1, <1>2, <1>3 DEF RpcInv

(* A call that needs no token is answered.                                 *)
LEMMA ExemptAnswered ==
  ASSUME PlaceInv, NEW numbers \in Interceptors(conf.grpc, req.rpc), rpc = RpcOutcome(numbers),
         rpc # RpcEnds("noClient", <<>>), rpc # RpcEnds("unreachable", <<>>),
         ServiceOf(req.rpcMethod) \in RegisteredServices(conf.grpc),
         RpcAuthenticate(conf.grpc, conf.auth, req.rpcMethod, req.cred) = "exempt",
         HealthStatus(conf.grpc, req.probe) = "SERVING"
  PROVE  rpc.status = "OK"
<1>1. rpc = RpcHandler(Nobody, NamesOf(numbers))
  BY CallOutcomes
<1> QED
  BY <1>1, HandlerFields

(* A health check is one.                                                  *)
LEMMA CheckExempt ==
  ASSUME PlaceInv, "health" \in conf.grpc.options, req.rpcMethod[1] = "/",
         req.rpcMethod[2] = "health", req.probe \in conf.grpc.services \cup {""}
  PROVE  /\ ServiceOf(req.rpcMethod) \in RegisteredServices(conf.grpc)
         /\ RpcAuthenticate(conf.grpc, conf.auth, req.rpcMethod, req.cred) = "exempt"
         /\ HealthStatus(conf.grpc, req.probe) = "SERVING"
<1>1. req.rpcMethod \in Seq(STRING) /\ Len(req.rpcMethod) >= 2
  BY RequestAssumption DEF PlaceInv
<1>2. IsExempt(conf.grpc, req.rpcMethod)
  BY <1>1, BuiltInExempt
<1>3. RpcAuthenticate(conf.grpc, conf.auth, req.rpcMethod, req.cred) = "exempt"
  BY <1>2 DEF RpcAuthenticate
<1>4. ServiceOf(req.rpcMethod) = "health" /\ "health" \in RegisteredServices(conf.grpc)
  BY DEF ServiceOf, RegisteredServices
<1>5. HealthStatus(conf.grpc, req.probe) = "SERVING"
  BY DEF HealthStatus
<1> QED
  BY <1>3, <1>4, <1>5

(* What cannot carry a token needs none.                                   *)
LEMMA ProbesInvariant ==
  ASSUME RequestInv
  PROVE  ProbesNeedNoToken
<1>1. PlaceInv /\ VisitInv /\ HoldInv /\ PreflightInv /\ RpcInv
  BY DEF RequestInv, PathInv
<1>2. ASSUME HasAnswered, req.method = "OPTIONS", OriginAllowed, "cors" \in ToSet(links),
             req.body # "broken"
      PROVE  Sent = 204 /\ header.cors /\ ran.what = "nothing"
  <2>1. Preflight
    BY <1>1, <1>2 DEF Preflight, ToSet, VisitInv
  <2>2. Answering /\ at = 0
    BY <1>1, <1>2 DEF HasAnswered, Answering, HoldInv
  <2>3. ~holding
    BY <1>1, <2>2 DEF HoldInv
  <2>4. Code = Sent
    BY <2>3 DEF Code
  <2> QED
    BY <1>1, <2>1, <2>2, <2>4 DEF PreflightInv
<1>3. rpc.status \notin {"none", "noClient", "unreachable"} /\ "health" \in conf.grpc.options
      /\ req.rpcMethod = <<"/", "health", "Check">> /\ req.probe \in conf.grpc.services \cup {""}
      => rpc.status = "OK"
  <2>1. req.rpcMethod = <<"/", "health", "Check">> => req.rpcMethod[1] = "/" /\ req.rpcMethod[2] = "health"
    BY CheckMethod
  <2>2. SUFFICES ASSUME rpc.status # "none", rpc.status # "noClient", rpc.status # "unreachable",
                        "health" \in conf.grpc.options, req.rpcMethod[1] = "/",
                        req.rpcMethod[2] = "health", req.probe \in conf.grpc.services \cup {""}
                 PROVE  rpc.status = "OK"
    BY <2>1
  <2>3. PICK numbers \in Interceptors(conf.grpc, req.rpc) : rpc = RpcOutcome(numbers)
    BY <1>1, <2>2, CallArrived
  <2>4. rpc # RpcEnds("noClient", <<>>) /\ rpc # RpcEnds("unreachable", <<>>)
    BY <1>1, <2>2, CallArrived
  <2>5. /\ ServiceOf(req.rpcMethod) \in RegisteredServices(conf.grpc)
        /\ RpcAuthenticate(conf.grpc, conf.auth, req.rpcMethod, req.cred) = "exempt"
        /\ HealthStatus(conf.grpc, req.probe) = "SERVING"
    BY <1>1, <2>2, CheckExempt
  <2> QED
    BY <1>1, <2>3, <2>4, <2>5, ExemptAnswered
<1> QED
  BY <1>2, <1>3 DEF ProbesNeedNoToken

(* Another host in an address.                                             *)
LEMMA HostReplaced ==
  ASSUME NEW b, NEW h, b = [host |-> b.host, port |-> b.port]
  PROVE  [b EXCEPT !.host = h].host = h /\ [b EXCEPT !.host = h].port = b.port
  OBVIOUS

(* A client beside its server connects to it.                              *)
LEMMA BesideReaches ==
  ASSUME PlaceInv, conf.grpc.client.connect = NoAddress, conf.grpc.client.tls = conf.grpc.tls,
         [bean \in {ServerBean(conf.grpc.client.name)} |-> conf.grpc.bind] = conf.grpc.client.binds
  PROVE  Dials(conf.grpc.client, req.cred) /\ Reaches(conf.grpc)
<1>1. PICK c, b : c = conf.grpc.client /\ b = conf.grpc.bind
  OBVIOUS
<1>2. b \in [host : STRING, port : Nat]
  BY <1>1, GrpcAssumption DEF PlaceInv
<1>3. b.host \in STRING /\ b = [host |-> b.host, port |-> b.port]
  BY <1>2
<1>4. ServerBean(c.name) \in DOMAIN c.binds /\ c.binds[ServerBean(c.name)] = b
  BY <1>1
<1>5. ConnectAddress(c) = LocalizeAddr(b)
  BY <1>1, <1>4 DEF ConnectAddress
<1>6. NoAddress.host = ""
  BY DEF NoAddress, Address
<1>7. RequireTransportSecurity(c) => TransportCreds(c) = "tls"
  BY DEF RequireTransportSecurity, TransportCreds
<1>8. CASE b.host \in {"0.0.0.0", ""}
  <2>1. ConnectAddress(c) = [b EXCEPT !.host = "127.0.0.1"]
    BY <1>5, <1>8 DEF LocalizeAddr
  <2>2. ConnectAddress(c).port = b.port /\ ConnectAddress(c).host = "127.0.0.1"
    BY <1>3, <2>1, HostReplaced
  <2> QED
    BY <1>1, <1>8, <1>6, <1>7, <2>2 DEF Dials, Reaches
<1>9. CASE b.host \notin {"0.0.0.0", ""}
  <2>1. ConnectAddress(c) = b
    BY <1>5, <1>9 DEF LocalizeAddr
  <2> QED
    BY <1>1, <1>9, <1>6, <1>7, <2>1 DEF Dials, Reaches
<1> QED
  BY <1>8, <1>9

(* HTTP and gRPC make the same of the same credential.                     *)
LEMMA VerdictInvariant ==
  ASSUME RequestInv
  PROVE  SameVerdict
<1>1. PlaceInv /\ IdentityInv /\ RpcInv
  BY DEF RequestInv, PathInv
<1>2. SUFFICES
        ASSUME rpc.status # "none", ServiceOf(req.rpcMethod) \in conf.grpc.services,
               req.rpcMethod[1] = "/", verdict # "none",
               conf.grpc.client.connect = NoAddress, conf.grpc.client.tls = conf.grpc.tls,
               [bean \in {ServerBean(conf.grpc.client.name)} |-> conf.grpc.bind]
                  = conf.grpc.client.binds,
               ~IsExempt(conf.grpc, req.rpcMethod),
               \E i \in DOMAIN Beans : Beans[i].name = "auth"
        PROVE  <<verdict, rpc.status>> \in
                  {<<"ok", "OK">>, <<"unauthorized", "Unauthenticated">>,
                   <<"unavailable", "Unavailable">>, <<"failure", "Internal">>}
  BY DEF SameVerdict, Beans
<1>3. phase = "closed"
  BY <1>1, <1>2 DEF RpcInv
<1>4. PICK numbers \in Interceptors(conf.grpc, req.rpc) : rpc = RpcOutcome(numbers)
  BY <1>1, <1>3 DEF RpcInv
<1>5. PICK names, answer :
         /\ names = NamesOf(numbers)
         /\ answer = IF AuthAt(names) = 0 THEN "exempt"
                     ELSE RpcAuthenticate(conf.grpc, conf.auth, req.rpcMethod, req.cred)
  OBVIOUS
<1>6. AuthAt(names) # 0
  BY <1>1, <1>2, <1>5, CallNames
<1>7. answer # "exempt" /\ <<verdict, answer>> \in
         {<<"ok", "ok">>, <<"unauthorized", "Unauthenticated">>,
          <<"unavailable", "Unavailable">>, <<"failure", "Internal">>}
  BY <1>1, <1>2, <1>5, <1>6, RpcAnswers DEF IdentityInv
<1>8. Dials(conf.grpc.client, req.cred) /\ Reaches(conf.grpc)
  BY <1>1, <1>2, BesideReaches
<1>9. ServiceOf(req.rpcMethod) \in RegisteredServices(conf.grpc)
  BY <1>2 DEF RegisteredServices
<1>10. \/ answer = "ok" /\ rpc = RpcHandler(Identity(conf.auth, req.cred.token), names)
       \/ answer # "ok" /\ rpc = RpcEnds(answer, SubSeq(names, 1, AuthAt(names)))
  BY <1>1, <1>4, <1>5, <1>7, <1>8, <1>9, CallOutcomes
<1>11. ServiceOf(req.rpcMethod) # "health"
  <2>1. req.rpcMethod \in Seq(STRING) /\ Len(req.rpcMethod) >= 2
    BY <1>1, RequestAssumption DEF PlaceInv
  <2> QED
    BY <1>2, <2>1, BuiltInExempt DEF ServiceOf
<1>12. CASE answer = "ok"
  <2>1. rpc.status = "OK"
    BY <1>10, <1>11, <1>12, HandlerFields
  <2> QED
    BY <1>7, <1>12, <2>1
<1>13. CASE answer # "ok"
  <2>1. rpc.status = answer
    BY <1>10, <1>13, EndsFields
  <2> QED
    BY <1>7, <1>13, <2>1
<1> QED
  BY <1>12, <1>13

(* A token of jwttool.                                                     *)
LEMMA ToolTokenInvariant ==
  ASSUME RequestInv
  PROVE  ToolTokenHonoured
<1>1. PlaceInv /\ IdentityInv
  BY DEF RequestInv, PathInv
<1>2. SUFFICES ASSUME NEW asked \in req.asked, NEW f, f = Prompted(asked), MadeFor(conf.auth, f),
                      \A i \in DOMAIN f.scopes : Len(f.scopes[i]) <= 1
               PROVE  /\ InRange(f.expiry) => verdict \in {"none", "ok"}
                      /\ Minutes(f.expiry) <= 0 => verdict \in {"none", "unauthorized"}
                      /\ ran.what = "app" /\ verdict = "ok" =>
                            ran.ctx.auth = [subject |-> f.subject, roles |-> SplitTrim(f.roles),
                                            scopes |-> SplitTrim(f.scopes), known |-> TRUE]
  BY DEF ToolTokenHonoured
<1>3. /\ req.cred = [header |-> "bearer", token |-> Signed(f)]
      /\ f.roles \in Seq(Texts) /\ f.scopes \in Seq(Texts) /\ f.expiry.n \in Int
  <2>1. ~Fatal(f)
    BY <1>2 DEF MadeFor
  <2> QED
    BY <1>1, <1>2, <2>1, ToolAssumption DEF PlaceInv
<1>4. HttpVerdict(conf.auth, req.cred) = Authenticate(conf.auth, Signed(f))
  BY <1>3 DEF HttpVerdict
<1>5. /\ InRange(f.expiry) => HttpVerdict(conf.auth, req.cred) = "ok"
      /\ Minutes(f.expiry) <= 0 => HttpVerdict(conf.auth, req.cred) = "unauthorized"
  BY <1>2, <1>3, <1>4, TokenAccepted, MinutesType, ExpiredRefused
<1>6. Who = [subject |-> f.subject, roles |-> SplitTrim(f.roles),
             scopes |-> SplitTrim(f.scopes), known |-> TRUE]
  <2>1. Who = Identity(conf.auth, Signed(f))
    BY <1>3 DEF Who
  <2> QED
    BY <1>2, <1>3, <2>1, TokenMeansWhatWasAsked
<1> QED
  BY <1>1, <1>5, <1>6 DEF IdentityInv

-----------------------------------------------------------------------------
(* A request passes the middlewares, and a call the interceptors, in the   *)
(* order of the beans, and reaches the handler through every one that      *)
(* applies: the loop of Object and the sorting of the factories.           *)
THEOREM ChainIsInOrder == Spec => []ChainInOrder
  BY RequestInvariant, OrderInvariant, PTL

(* The handler of a protected path or method runs only for a token the     *)
(* Authenticator accepted, and finds its identity in the context.          *)
THEOREM HandlerKnowsWhoCalls == Spec => []HandlerSeesIdentity
  BY RequestInvariant, IdentityInvariant, PTL

(* A preflight gets its 204 and a health probe its answer without a token. *)
THEOREM ProbesPass == Spec => []ProbesNeedNoToken
  BY RequestInvariant, ProbesInvariant, PTL

(* Access log and metrics write what the client got.                       *)
THEOREM LogIsTruthful == Spec => []LogAgreesWithClient
  BY RequestInvariant, LogAgreesInvariant, PTL

(* HTTP and gRPC make the same of a credential.                            *)
THEOREM VerdictsAgree == Spec => []SameVerdict
  BY RequestInvariant, VerdictInvariant, PTL

(* What answers a path is what the settings name for it.                   *)
THEOREM RoutesAreConfigured == Spec => []RoutedAsConfigured
  BY RequestInvariant, RoutedAsInvariant, PTL

(* A token jwttool makes for the key, issuer and audience of the server is *)
(* accepted, and the handler finds the subject, roles and scopes that were *)
(* asked for: splitTrim and the claims of main.go against parseScopeClaim  *)
(* and claimStringSlice.                                                   *)
THEOREM ToolTokensHonoured == Spec => []ToolTokenHonoured
  BY RequestInvariant, ToolTokenInvariant, PTL
=============================================================================
