----------------------------- MODULE TokenVerify -----------------------------
(***************************************************************************)
(* authverify's three token verifiers: Verifier (access-token.v1),         *)
(* WorkloadVerifier (workload-token.v1) and ServiceAccountVerifier         *)
(* (service-account-token.v1).  Their Verify methods decide in one order   *)
(* and differ in the contract of their token class.                        *)
(*                                                                         *)
(* One token is presented again and again to the verifier of its class     *)
(* while the clock runs and the key source gains, loses and cannot read    *)
(* keys.  Clock readings are in ticks, Res to a second; the dates of a     *)
(* token are whole seconds.                                                *)
(***************************************************************************)
EXTENDS Integers

CONSTANTS
    Res,            \* clock ticks in a second
    Ceiling,        \* per class: the most exp - iat, in seconds
    Leeway,         \* Config.Leeway, in seconds
    Kid,            \* key identifiers
    Denied,         \* Config.DeniedKids
    Token,          \* the tokens presented
    MaxNow,         \* bound: the clock
    MaxKeyChanges   \* bound: changes of the key source

Class == {"access", "workload", "service_account"}
Issuer == "issuer"            \* Config.Issuer
Audience == "dev-health-api"  \* Config.Audience
Unreadable == {"unreadable"}  \* the key source cannot be read

ASSUME VerifyAssumption ==
    /\ Res \in Nat \ {0}
    /\ Ceiling \in [Class -> Nat \ {0}]
    /\ Leeway \in Nat
    /\ Denied \subseteq Kid
    /\ \A tok \in Token : {tok.iat, tok.nbf, tok.exp} \subseteq Nat
    /\ MaxNow \in Nat /\ MaxKeyChanges \in Nat

VARIABLES
    now,      \* the verifier's clock
    keys,     \* the kids the key source holds, or Unreadable
    token,    \* the token
    class,    \* whose verifier it is presented to
    verdict,  \* what Verify answered last
    first,    \* history: the second of the first acceptance, -1 for none
    changes   \* bound counter: key source changes

verifyVars == <<now, keys, token, class, verdict, first, changes>>

-----------------------------------------------------------------------------
(* The token contract.  A token's members are the names of its claims; the *)
(* parts that only have to match a pattern (the segments, alg, kid, sub,   *)
(* jti, sid, cid, org_id, act) are one flag, shaped.                       *)

typOf == [access |-> "at+jwt", workload |-> "workload+jwt", service_account |-> "sa+jwt"]

Dates == {"iat", "nbf", "exp"}
Common == {"iss", "aud", "sub", "principal_type", "jti"} \cup Dates
workloadClaimsMembers == Common
serviceAccountClaimsMembers == Common \cup {"org_id", "cid"}
claimsRequired == Common \cup {"sid", "scope"}
claimsMembers == claimsRequired \cup {"org_id", "act"}

closedSet(members, allowed, required) == members \subseteq allowed /\ required \subseteq members

scopeByAudience == [a \in {"dev-health-api", "auth-service", "acr-api", "acr-mcp"} |->
    CASE a = "dev-health-api" -> "api:access"
      [] a = "auth-service"   -> "auth:session"
      [] a = "acr-api"        -> "acr:api"
      [] a = "acr-mcp"        -> "acr:mcp"]

workloadAudiences == {"auth-service", "dev-health-api"}

\* Mutant: no ceiling.
datesFitUncapped(tok, ceiling) == tok.iat <= tok.nbf /\ tok.nbf < tok.exp
datesFit(tok, ceiling) ==
    /\ tok.iat <= tok.nbf
    /\ tok.nbf < tok.exp
    /\ tok.exp - tok.iat <= ceiling

parseAccessClaims(tok) ==
    /\ closedSet(tok.members, claimsMembers, claimsRequired)
    /\ tok.shaped
    /\ tok.aud \in DOMAIN scopeByAudience
    /\ tok.scope = scopeByAudience[tok.aud]
    /\ tok.principal = "human"
    /\ datesFit(tok, Ceiling["access"])

parseWorkloadClaims(tok) ==
    /\ closedSet(tok.members, workloadClaimsMembers, workloadClaimsMembers)
    /\ tok.shaped
    /\ tok.aud \in workloadAudiences
    /\ tok.principal = "workload"
    /\ datesFit(tok, Ceiling["workload"])

parseServiceAccountClaims(tok) ==
    /\ closedSet(tok.members, serviceAccountClaimsMembers, serviceAccountClaimsMembers)
    /\ tok.shaped
    /\ tok.aud = "dev-health-api"
    /\ tok.principal = "service_account"
    /\ datesFit(tok, Ceiling["service_account"])

parseAccessHeader(tok) == tok.typ = typOf["access"]
parseWorkloadHeader(tok) == tok.typ = typOf["workload"]
parseServiceAccountHeader(tok) == tok.typ = typOf["service_account"]

parseHeader(c, tok) ==
    CASE c = "access"          -> parseAccessHeader(tok)
      [] c = "workload"        -> parseWorkloadHeader(tok)
      [] c = "service_account" -> parseServiceAccountHeader(tok)

parseClaims(c, tok) ==
    CASE c = "access"          -> parseAccessClaims(tok)
      [] c = "workload"        -> parseWorkloadClaims(tok)
      [] c = "service_account" -> parseServiceAccountClaims(tok)

\* Mutant: the contract chosen by the token's typ, not by the verifier.
ConformsToAny(c, tok) == \E d \in Class : parseHeader(d, tok) /\ parseClaims(d, tok)
Conforms(c, tok) == parseHeader(c, tok) /\ parseClaims(c, tok)

-----------------------------------------------------------------------------
(* Verify: the first refusal wins, and the key source is asked last of     *)
(* what needs no key.                                                      *)

Unix(t) == t \div Res

\* Mutant: an unreadable key source taken for one without the key.
lookupKeySilent(kid) == IF keys # Unreadable /\ kid \in keys THEN "known" ELSE "unknown"
lookupKey(kid) ==
    IF keys = Unreadable THEN "unavailable"
    ELSE IF kid \in keys THEN "known" ELSE "unknown"

\* Mutant: the last second of the leeway counted in.
inWindowClosed(tok, t) ==
    IF Unix(t) + Leeway < tok.nbf THEN "not_yet_valid"
    ELSE IF Unix(t) - Leeway > tok.exp THEN "expired" ELSE "accepted"
inWindow(tok, t) ==
    IF Unix(t) + Leeway < tok.nbf THEN "not_yet_valid"
    ELSE IF Unix(t) - Leeway >= tok.exp THEN "expired" ELSE "accepted"

\* Mutant: the key source's error lost, neither claims nor an error returned.
DecideErrorLost(c, tok, t) ==
    IF ~Conforms(c, tok) THEN "contract"
    ELSE IF tok.kid \in Denied \/ lookupKey(tok.kid) = "unknown" THEN "unknown_kid"
    ELSE IF lookupKey(tok.kid) = "unavailable" THEN "none"
    ELSE inWindow(tok, t)
Decide(c, tok, t) ==
    IF ~Conforms(c, tok) THEN "contract"
    ELSE IF tok.kid \in Denied THEN "unknown_kid"
    ELSE IF lookupKey(tok.kid) = "unavailable" THEN "unavailable"
    ELSE IF lookupKey(tok.kid) = "unknown" THEN "unknown_kid"
    ELSE IF tok.signer # tok.kid THEN "signature"
    ELSE IF tok.iss # Issuer THEN "issuer"
    ELSE IF tok.aud # Audience THEN "audience"
    ELSE inWindow(tok, t)

Reasons == {"contract", "unknown_kid", "signature", "issuer", "audience", "not_yet_valid", "expired"}

-----------------------------------------------------------------------------

VerifyInit ==
    /\ now = 0
    /\ keys \in (SUBSET Kid) \cup {Unreadable}
    /\ token \in Token
    /\ class \in Class
    /\ verdict = "none"
    /\ first = -1
    /\ changes = 0

Tick ==
    /\ now < MaxNow
    /\ now' = now + 1
    /\ UNCHANGED <<keys, token, class, verdict, first, changes>>

\* A refresh, a retirement or an outage of the key source.
KeySourceChanges ==
    /\ changes < MaxKeyChanges
    /\ \E k \in ((SUBSET Kid) \cup {Unreadable}) \ {keys} : keys' = k
    /\ changes' = changes + 1
    /\ UNCHANGED <<now, token, class, verdict, first>>

Verify(c) ==
    /\ class = c
    /\ verdict' = Decide(class, token, now)
    /\ first' = IF first = -1 /\ verdict' = "accepted" THEN Unix(now) ELSE first
    /\ UNCHANGED <<now, keys, token, class, changes>>

VerifyAccess == Verify("access")
VerifyWorkload == Verify("workload")
VerifyServiceAccount == Verify("service_account")

VerifyNext == Tick \/ KeySourceChanges \/ VerifyAccess \/ VerifyWorkload \/ VerifyServiceAccount

VerifySpec == VerifyInit /\ [][VerifyNext]_verifyVars

-----------------------------------------------------------------------------

(* Type invariant of the verifier's inputs and of Verify's answers.        *)
VerifyTypeOK ==
    /\ now \in 0..MaxNow
    /\ keys \in (SUBSET Kid) \cup {Unreadable}
    /\ token \in Token /\ class \in Class
    /\ verdict \in Reasons \cup {"none", "unavailable", "accepted"}
    /\ first \in -1..MaxNow
    /\ first >= 0 => verdict # "none"
    /\ changes \in 0..MaxKeyChanges

(* However often a token is presented, and whatever happens to the keys in *)
(* between, the seconds at which Verify accepts it span less than the      *)
(* class's ceiling and twice the leeway: the leeway widens the window at   *)
(* both ends and "never lifts the 300 s lifetime ceiling".                 *)
AcceptedSpanBounded ==
    [][verdict' = "accepted" /\ Verify(class) => Unix(now) - first' < Ceiling[class] + 2 * Leeway]_verifyVars

(* Once accepted, a token is refused only for what has changed: its end    *)
(* has come, or a key source that can be read no longer holds its key.  A  *)
(* key source that cannot be read is an *UnavailableError, never a refusal *)
(* (the caller answers 503 and the client keeps its token).                *)
RefusedOnlyForCause ==
    [][first >= 0 /\ verdict' # verdict =>
          \/ verdict' = "accepted"
          \/ verdict' = "expired" /\ Unix(now) >= token.exp + Leeway
          \/ verdict' = "unknown_kid" /\ keys # Unreadable /\ token.kid \notin keys
          \/ verdict' = "unavailable" /\ keys = Unreadable]_verifyVars

(* A token one verifier accepts is accepted by neither of the other two at *)
(* any time, although the three share the issuer, the audience and the     *)
(* keys.  The state keeps its types.                                       *)
ClassesDisjoint ==
    /\ VerifyTypeOK
    /\ verdict = "accepted" =>
        \A d \in Class \ {class}, t \in 0..MaxNow : Decide(d, token, t) # "accepted"
=============================================================================
