------------------------------ MODULE JwtTool --------------------------------
(***************************************************************************)
(* cmd/jwttool: what `generate-keys` and `generate-token` make of their    *)
(* flags and of the answers given in interactive mode.  A text is the      *)
(* sequence of its words, <<>> the empty one; a comma-separated list is a  *)
(* sequence of texts.  Randomness, curves and signatures are external.     *)
(*                                                                         *)
(* Flags: privateKey, secret ("" or the name of a key), subject (a text),  *)
(* issuer, audience (names), roles, scopes (lists), attrs (a sequence of   *)
(* [key, value], key "" for one without "="), expiry (see Minutes) and     *)
(* interactive; answers are the lines typed, by prompt.                    *)
(***************************************************************************)
EXTENDS Auth, Integers, SequencesExt

NoKey == ""

(* cmdGenerateKeys: both halves of a pair.  Only the private one signs,    *)
(* only the public one is of use to JwtAuthProvider.                       *)
KeyPair(name) == [private |-> name, public |-> name, family |-> "ECDSA"]

-----------------------------------------------------------------------------
(* --interactive asks for what the flags have left out; the key prompts    *)
(* come only if there is neither.  The expiry is always asked for.         *)
Prompted(f) ==
    LET a == f.answers
        noKey == f.privateKey = NoKey /\ f.secret = NoKey
        ecdsa == a.method \in {"", "ecdsa"}
    IN  IF ~f.interactive THEN f
        ELSE [f EXCEPT
                 !.privateKey = IF noKey /\ ecdsa THEN a.key ELSE @,
                 !.secret = IF noKey /\ ~ecdsa THEN a.key ELSE @,
                 !.subject = IF @ = <<>> THEN a.subject ELSE @,
                 !.issuer = IF @ = "" THEN a.issuer ELSE @,
                 !.audience = IF @ = "" THEN a.audience ELSE @,
                 !.roles = IF @ = <<>> THEN a.roles ELSE @,
                 !.scopes = IF @ = <<>> THEN a.scopes ELSE @,
                 !.attrs = IF @ = <<>> THEN a.attrs ELSE @,
                 !.expiry = IF a.expiry.unit = "" THEN @ ELSE a.expiry]

-----------------------------------------------------------------------------
(* time.Duration is an int64 of nanoseconds, 2^64 of which are a little    *)
(* less than 307445735 minutes.                                            *)
Half == 153722867
Full == 307445735
Int64(minutes) == ((minutes + Half) % Full) - Half

(* parseDuration: [unit, n].  Sscanf takes the number a day count begins   *)
(* with and ignores the rest ("1h30d" is one day); the product may wrap.   *)
(* time.ParseDuration refuses what it cannot represent.                    *)
Minutes(e) ==
    CASE e.unit = "d" -> Int64(e.n * 24 * 60)
      [] e.unit = "h" -> e.n * 60
      [] OTHER -> e.n

Parses(e) ==
    \/ e.unit = "d"
    \/ e.unit \in {"h", "m"} /\ -Half <= Minutes(e) /\ Minutes(e) <= Half

(* splitTrim drops empty items.                                            *)
SplitTrim(list) == Without(list, <<>>)

-----------------------------------------------------------------------------
Fatal(f) ==
    \/ f.privateKey = NoKey /\ f.secret = NoKey
    \/ f.privateKey # NoKey /\ f.secret # NoKey
    \/ f.subject = <<>>
    \/ ~Parses(f.expiry)
    \/ \E i \in DOMAIN f.attrs : f.attrs[i].key = ""
    \/ f.privateKey = "unparsable"      \* signECDSA: not base64 of an ECDSA key

(* Every --attr sets a string claim, the registered ones included; of two  *)
(* with the same key the last one stays.                                   *)
Claim(f, key, value) ==
    LET set == {i \in DOMAIN f.attrs : f.attrs[i].key = key}
    IN  IF set = {} THEN value
        ELSE Text(f.attrs[CHOOSE i \in set : \A j \in set : j <= i].value)

(* The claims of the token.                                                *)
SubClaim(f) == Claim(f, "sub", Text(f.subject))
ExpClaim(f) == Claim(f, "exp", [form |-> "date", minutes |-> Minutes(f.expiry)])
NbfClaim(f) == Claim(f, "nbf", Absent)
IssClaim(f) == Claim(f, "iss", IF f.issuer = "" THEN Absent ELSE Text(<<f.issuer>>))
AudClaim(f) == Claim(f, "aud", IF f.audience = "" THEN Absent ELSE Text(<<f.audience>>))

RolesClaim(f) ==
    Claim(f, "roles", IF f.roles = <<>> THEN Absent
                      ELSE [form |-> "list", items |-> SplitTrim(f.roles)])

ScopeClaim(f) ==
    Claim(f, "scope", IF f.scopes = <<>> THEN Absent ELSE Text(FlattenSeq(SplitTrim(f.scopes))))

(* signECDSA and signHMAC.                                                 *)
Algorithm(f) == IF f.privateKey # NoKey THEN "ECDSA" ELSE "HMAC"
Key(f) == IF f.privateKey # NoKey THEN f.privateKey ELSE f.secret

(* The token that is printed.                                              *)
Signed(f) ==
    [name |-> "jwt", listed |-> FALSE, alg |-> Algorithm(f), key |-> Key(f),
     exp |-> ExpClaim(f), nbf |-> NbfClaim(f), iss |-> IssClaim(f), aud |-> AudClaim(f),
     sub |-> SubClaim(f), roles |-> RolesClaim(f), scope |-> ScopeClaim(f)]

-----------------------------------------------------------------------------
(* The claims servion reads.                                               *)
Registered == {"sub", "exp", "nbf", "iss", "aud", "roles", "scope"}

(* An expiry to come, of a product that does not wrap.                     *)
InRange(e) == e.n > 0 /\ (e.unit = "d" => e.n < 106752)

(* A run with the key, issuer and audience of the provider a that gives    *)
(* none of its claims another value.                                       *)
MadeFor(a, f) ==
    /\ a.provider = "jwt" /\ ~Fatal(f)
    /\ Algorithm(f) \in a.keys /\ Key(f) = a.key
    /\ a.issuer \in {"", f.issuer} /\ a.audience \in {"", f.audience}
    /\ {f.attrs[i].key : i \in DOMAIN f.attrs} \cap Registered = {}
=============================================================================
