-------------------------------- MODULE Auth ---------------------------------
(***************************************************************************)
(* Authentication as both transports share it: an Authenticator            *)
(* (auth_token_provider.go, jwt_auth_provider.go or one of the             *)
(* application) decides on a bearer token, the HTTP middleware             *)
(* (auth_middleware.go) and the gRPC interceptor (grpc/auth_interceptor.go)*)
(* turn its answer into a refusal or an identity in the context.           *)
(* Signatures, hashes and the clock are external: a signature verifies if  *)
(* the keys have the same name.                                            *)
(***************************************************************************)
EXTENDS Naturals, Sequences

(* Algorithms of a signature: HS256/384/512 and ES256/384/512.             *)
Families == {"HMAC", "ECDSA"}

(* No identity in the context: AuthFromContext returns false.              *)
Nobody == [subject |-> <<>>, roles |-> <<>>, scopes |-> <<>>, known |-> FALSE]

-----------------------------------------------------------------------------
(* The settings of a provider:                                             *)
(*   provider  "tokens", "jwt" or "custom"                                 *)
(*   keys      the keys configured for JWT, a subset of Families           *)
(*   key       the name of the key                                         *)
(*   parses    the public key is base64 of an ECDSA key, no token of       *)
(*             auth.tokens contains a comma                                *)
(*   issuer, audience   the expected value, "" for none                    *)
(*   backend   what a custom Authenticator makes of a listed token         *)

(* PostConstruct: exactly one key, and a usable one.                       *)
JwtReady(a) ==
    /\ a.keys # {}
    /\ a.keys # Families
    /\ "ECDSA" \in a.keys => a.parses

TokensReady(a) == a.parses

ProviderReady(a) ==
    CASE a.provider = "jwt" -> JwtReady(a)
      [] a.provider = "tokens" -> TokensReady(a)
      [] OTHER -> TRUE

-----------------------------------------------------------------------------
(* A text is the sequence of its words, which spaces and commas separate   *)
(* and of which none is empty.  A claim is absent, a string, a date        *)
(* (minutes from now), a list, which may hold items that are no strings,   *)
(* or of another type.                                                     *)
Texts == Seq(STRING \ {""})
Absent == [form |-> "absent"]
Text(words) == [form |-> "string", text |-> words]
NotText == <<"">>

(* The loops that append to a result what they do not skip.                *)
Without(list, skipped) ==
    LET result[n \in 0..Len(list)] ==
            IF n = 0 THEN <<>>
            ELSE IF list[n] = skipped THEN result[n - 1]
            ELSE Append(result[n - 1], list[n])
    IN  result[Len(list)]

(* A token:                                                                *)
(*   listed    it is one of auth.tokens, or one the custom backend knows   *)
(*   name      what its hash stands for                                    *)
(*   alg, key  how it was signed                                           *)
(*   exp, nbf, iss, aud, sub, roles, scope   its claims                    *)

(* keyFunc refuses a token of the other family; jwt.Parse then verifies    *)
(* the signature, requires an expiration, and checks the options given; a  *)
(* list of audiences with something else than strings is an error.         *)
KeyFunc(a, t) == t.alg \in a.keys

JwtParse(a, t) ==
    /\ KeyFunc(a, t)
    /\ t.key = a.key
    /\ t.exp.form = "date" /\ t.exp.minutes > 0
    /\ t.nbf = Absent \/ (t.nbf.form = "date" /\ t.nbf.minutes <= 0)
    /\ a.issuer # "" => t.iss = Text(<<a.issuer>>)
    /\ a.audience # "" =>
          \/ t.aud = Text(<<a.audience>>)
          \/ /\ t.aud.form = "list"
             /\ \A i \in DOMAIN t.aud.items : t.aud.items[i] # NotText
             /\ \E i \in DOMAIN t.aud.items : t.aud.items[i] = <<a.audience>>

ClaimString(c) == IF c.form = "string" THEN c.text ELSE <<>>

SplitClaimString(text) == [i \in DOMAIN text |-> <<text[i]>>]

ClaimStringSlice(c) ==
    CASE c.form = "list" -> Without(c.items, NotText)
      [] c.form = "string" -> SplitClaimString(c.text)
      [] OTHER -> <<>>

(* Mutation: a scope claim is expected to be a list.                       *)
ParseScopeList(c) ==
    IF c.form = "list" THEN Without(c.items, NotText) ELSE <<>>

ParseScopeClaim(c) ==
    CASE c.form = "string" -> SplitClaimString(c.text)
      [] c.form = "list" -> Without(c.items, NotText)
      [] OTHER -> <<>>

(* AuthInfo of a token that was accepted.                                  *)
Identity(a, t) ==
    IF a.provider = "jwt"
    THEN [subject |-> ClaimString(t.sub), roles |-> ClaimStringSlice(t.roles),
          scopes |-> ParseScopeClaim(t.scope), known |-> TRUE]
    ELSE [subject |-> <<t.name>>, roles |-> <<>>, scopes |-> <<>>, known |-> TRUE]

(* Authenticator.Authenticate answers nil, ErrUnauthorized,                *)
(* ErrServiceUnavailable or (one of the application) any other error.      *)
Authenticate(a, t) ==
    CASE a.provider = "jwt" -> IF JwtParse(a, t) THEN "ok" ELSE "unauthorized"
      [] a.provider = "tokens" -> IF t.listed THEN "ok" ELSE "unauthorized"
      [] OTHER -> IF t.listed THEN a.backend ELSE "unauthorized"

-----------------------------------------------------------------------------
(* A credential is the Authorization header (metadata): "absent",          *)
(* "malformed" (not two fields, or another scheme) or "bearer" + token.    *)

(* The HTTP middleware: nothing but a token reaches the Authenticator.     *)
HttpVerdict(a, cred) ==
    IF cred.header = "bearer" THEN Authenticate(a, cred.token) ELSE "unauthorized"

HttpRefusal ==
    [unauthorized |-> 401, unavailable |-> 503, failure |-> 500]

(* The interceptor: bearerFromContext, then the same Authenticator.        *)
BearerFromContext(cred) == cred.header = "bearer"

GrpcVerdict(a, cred) ==
    IF BearerFromContext(cred) THEN Authenticate(a, cred.token) ELSE "unauthorized"

(* Mutation: the interceptor knows no ErrServiceUnavailable.               *)
GrpcRefusalNoUnavailable ==
    [unauthorized |-> "Unauthenticated", unavailable |-> "Internal",
     failure |-> "Internal"]

GrpcRefusal ==
    [unauthorized |-> "Unauthenticated", unavailable |-> "Unavailable",
     failure |-> "Internal"]
=============================================================================
