---------------------------- MODULE WorkloadFlow ----------------------------
(***************************************************************************)
(* A workload token from end to end: the subject file, the exchange that   *)
(* workloadtoken.Client asks for, WorkloadTokenExchangeService.Exchange    *)
(* with its three seams, the client's check of the answer, the bearer      *)
(* transport, and the WorkloadVerifier of the resource.                    *)
(*                                                                         *)
(* Three hosts have three clocks.  `now` is the client's, in ticks (Res to *)
(* a second); the others are off by `offset`.  Everything that crosses a   *)
(* wire is a step of its own, so the clock, a rotated subject, a changed   *)
(* grant and rotated keys come in between.  The client's cache is one      *)
(* entry: how concurrent callers share it is module WorkloadToken.         *)
(***************************************************************************)
EXTENDS Integers

CONSTANTS
    Res,           \* clock ticks in a second
    Ceiling,       \* WorkloadTokenLifetimeCeiling, in seconds
    Margin,        \* Config.SafetyMargin, in ticks
    Leeway,        \* WorkloadVerifierConfig.Leeway, in seconds
    Scope,         \* actions a binding may grant
    Request,       \* scopes the client asks for
    Offsets,       \* the clocks: records [exchange, resource], in ticks
    Fault,         \* what an issuer may do wrong
    SubjectLife,   \* lifetime of a subject token, in seconds
    Kid,           \* key identifiers
    MaxNow,        \* bound: the clock
    MaxChanges     \* bound: changes of the subject, the grant and the keys

ASSUME FlowAssumption ==
    /\ Res \in Nat \ {0} /\ Ceiling \in Nat \ {0} /\ SubjectLife \in Nat \ {0}
    /\ Margin \in Nat /\ Leeway \in Nat
    /\ Request \subseteq SUBSET Scope
    /\ Offsets \subseteq [exchange: Int, resource: Int]
    /\ Fault \subseteq {"none", "long", "mismatch", "unreadable", "undated", "opaque", "early", "foreign"}
    /\ "unreadable" \notin Kid
    /\ MaxNow \in Nat /\ MaxChanges \in Nat

VARIABLES
    now,      \* the client's clock
    offset,   \* how far the exchange's and the resource's clocks are ahead
    subject,  \* the subject file: its token's exp, and whether TokenReview vouches for it
    grant,    \* the scopes of the workload's binding; empty when it is disabled
    ring,     \* the kids the resource's key source holds
    signing,  \* the kid the issuer signs with
    x,        \* the exchange in flight
    entry,    \* the client's cached answer
    trip,     \* the request on its way to the resource, or the last one's verdict
    changes   \* bound counter

vars == <<now, offset, subject, grant, ring, signing, x, entry, trip, changes>>

Issuer == "issuer"
Audience == "dev-health-api"
ExchangeClock == now + offset.exchange
ResourceClock == now + offset.resource

Verifier == INSTANCE TokenVerify WITH
    Ceiling <- [c \in {"access", "workload", "service_account"} |-> Ceiling],
    Denied <- {}, Token <- {}, MaxKeyChanges <- 0,
    now <- ResourceClock, keys <- ring, token <- trip.token, class <- "workload",
    verdict <- trip.verdict, first <- 0, changes <- 0

Unix(t) == t \div Res
Least(a, b) == IF a < b THEN a ELSE b

NoToken == [typ |-> "none"]
NoEntry == [token |-> NoToken, sent |-> 0, life |-> 0, cap |-> 0]
NoTrip == [pc |-> "idle", token |-> NoToken, at |-> 0, cap |-> 0, verdict |-> "none"]
NoExchange == [pc |-> "idle", sent |-> 0, requested |-> {}, subject |-> 0, granted |-> {}, scope |-> {},
               token |-> NoToken, iat |-> 0, exp |-> 0, dated |-> FALSE, expiresIn |-> 0]

-----------------------------------------------------------------------------
(* The exchange service.                                                   *)

\* The client reads its subject file and sends the request.
Send ==
    /\ x.pc = "idle"
    /\ \E req \in Request :
          x' = [NoExchange EXCEPT !.pc = "validate", !.sent = now, !.requested = req, !.subject = subject.exp]
    /\ UNCHANGED <<now, offset, subject, grant, ring, signing, entry, trip, changes>>

\* TokenReview vouches for the subject (authenticated, for the audience, a service
\* account with a uid) or not; its exp is read from the token.  Its outage is Abandon.
Validate ==
    /\ x.pc = "validate"
    /\ IF subject.live /\ x.subject * Res > ExchangeClock
       THEN x' = [x EXCEPT !.pc = "resolve"]
       ELSE x' = NoExchange
    /\ UNCHANGED <<now, offset, subject, grant, ring, signing, entry, trip, changes>>

\* An empty grant is no binding; a requested scope may only narrow the grant.
\* Mutant: what is not granted left out instead of refused.
ResolveOverlap(granted, requested) ==
    IF granted = {} THEN {} ELSE IF requested \cap granted = {} THEN granted ELSE requested \cap granted
ResolveRequestedScope(granted, requested) ==
    IF granted = {} THEN {}
    ELSE IF requested = {} THEN granted
    ELSE IF requested \subseteq granted THEN requested ELSE {}

Resolve ==
    /\ x.pc = "resolve"
    /\ LET scope == ResolveRequestedScope(grant, x.requested)
       IN  x' = IF scope = {} THEN NoExchange
                ELSE [x EXCEPT !.pc = "issue", !.granted = grant, !.scope = scope]
    /\ UNCHANGED <<now, offset, subject, grant, ring, signing, entry, trip, changes>>

\* The issuer mints a token that ends at min(now + ceiling, subject's exp), or
\* does one of the things of Fault.
Minted(fault, iat, exp) ==
    [typ |-> IF fault = "opaque" THEN "opaque" ELSE "workload+jwt",
     members |-> Verifier!workloadClaimsMembers, shaped |-> fault # "unreadable", principal |-> "workload",
     iss |-> IF fault = "foreign" THEN "other" ELSE Issuer, aud |-> Audience, scope |-> "", kid |-> signing,
     signer |-> signing, iat |-> iat, nbf |-> IF fault = "early" THEN iat - 1 ELSE iat, exp |-> exp]

Issue ==
    /\ x.pc = "issue"
    /\ \E fault \in Fault :
          LET life == IF fault = "long" THEN Ceiling + 1 ELSE Ceiling
              ends == Least(ExchangeClock + life * Res, x.subject * Res)
          IN  x' = [x EXCEPT !.pc = "return", !.iat = ExchangeClock, !.dated = fault # "undated",
                             !.exp = IF fault = "mismatch" THEN ends + Res ELSE ends,
                             !.token = Minted(fault, Unix(ExchangeClock), Unix(ends))]
    /\ UNCHANGED <<now, offset, subject, grant, ring, signing, entry, trip, changes>>

\* Mutant: the issuer's metadata believed.
checkIssuedMetadata(e) == e.dated /\ e.iat < e.exp /\ e.exp - e.iat <= (Ceiling + 1) * Res
checkIssuedLifetime(e) ==
    /\ e.dated /\ e.iat < e.exp
    /\ IF e.token.typ = "opaque" THEN e.exp - e.iat <= Ceiling * Res
       ELSE /\ e.token.shaped /\ e.token.iat < e.token.exp
            /\ e.token.exp - e.token.iat <= Ceiling
            /\ e.token.iat = Unix(e.iat) /\ e.token.exp = Unix(e.exp)

\* Exchange's end: the lifetime held to the ceiling, the rest of it answered.
\* Mutant: the rest not held to zero.
ReturnSigned ==
    /\ x.pc = "return"
    /\ x' = IF checkIssuedLifetime(x)
            THEN [x EXCEPT !.pc = "answer", !.expiresIn = Unix(x.exp - ExchangeClock)]
            ELSE NoExchange
    /\ UNCHANGED <<now, offset, subject, grant, ring, signing, entry, trip, changes>>
Return ==
    /\ x.pc = "return"
    /\ x' = IF checkIssuedLifetime(x)
            THEN [x EXCEPT !.pc = "answer",
                           !.expiresIn = IF x.exp > ExchangeClock THEN Unix(x.exp - ExchangeClock) ELSE 0]
            ELSE NoExchange
    /\ UNCHANGED <<now, offset, subject, grant, ring, signing, entry, trip, changes>>

\* A failing seam, a timeout or a lost answer, anywhere along the way.
Abandon ==
    /\ x.pc # "idle"
    /\ x' = NoExchange
    /\ UNCHANGED <<now, offset, subject, grant, ring, signing, entry, trip, changes>>

-----------------------------------------------------------------------------
(* The client.                                                             *)

workloadTokenShape(tok) == tok.typ = "workload+jwt" /\ tok.shaped

tokenClaims(tok) ==
    /\ tok.members = Verifier!workloadClaimsMembers
    /\ tok.aud = Audience /\ tok.principal = "workload" /\ tok.iss = Issuer
    /\ tok.iat <= tok.nbf
    /\ tok.exp - tok.iat <= Ceiling

usableUntil(e) == Least(e.sent + e.life * Res, e.token.exp * Res) - Margin

\* Mutant: no margin.
checkTokenNoMargin(e, t) ==
    /\ workloadTokenShape(e.token) /\ tokenClaims(e.token)
    /\ e.token.nbf * Res <= t /\ t < usableUntil(e) + Margin
checkToken(e, t) ==
    /\ workloadTokenShape(e.token) /\ tokenClaims(e.token)
    /\ e.token.nbf * Res <= t
    /\ t < usableUntil(e)

\* The cached answer after the check every read of it makes.
Kept == IF entry # NoEntry /\ checkToken(entry, now) THEN entry ELSE NoEntry

\* parseAnswer and checkToken; a refused answer leaves the old token in use.
Receive ==
    /\ x.pc = "answer"
    /\ LET e == [token |-> x.token, sent |-> x.sent, life |-> x.expiresIn, cap |-> x.subject]
       IN  entry' = IF x.expiresIn \in 1..Ceiling /\ checkToken(e, now) THEN e ELSE Kept
    /\ x' = NoExchange
    /\ UNCHANGED <<now, offset, subject, grant, ring, signing, trip, changes>>

\* The bearer transport takes a token and sends the request, or refuses it.
RoundTrip ==
    /\ trip.pc = "idle"
    /\ entry' = Kept
    /\ trip' = IF Kept = NoEntry THEN NoTrip
               ELSE [NoTrip EXCEPT !.pc = "wire", !.token = entry.token, !.at = now, !.cap = entry.cap]
    /\ UNCHANGED <<now, offset, subject, grant, ring, signing, x, changes>>

-----------------------------------------------------------------------------
(* The resource, and the world.                                            *)

Verify ==
    /\ trip.pc = "wire"
    /\ trip' = [NoTrip EXCEPT !.verdict = Verifier!Decide("workload", trip.token, ResourceClock)]
    /\ UNCHANGED <<now, offset, subject, grant, ring, signing, x, entry, changes>>

Tick ==
    /\ now < MaxNow
    /\ now' = now + 1
    /\ UNCHANGED <<offset, subject, grant, ring, signing, x, entry, trip, changes>>

\* The kubelet rotates the subject file; a ServiceAccount is deleted; a binding is
\* edited; the issuer changes keys and the resource's key source follows or lags.
World ==
    /\ changes < MaxChanges
    /\ changes' = changes + 1
    /\ \/ /\ subject' = [subject EXCEPT !.exp = Unix(now) + SubjectLife]
          /\ UNCHANGED <<grant, ring, signing>>
       \/ /\ subject' = [subject EXCEPT !.live = FALSE]
          /\ UNCHANGED <<grant, ring, signing>>
       \/ /\ grant' \in SUBSET Scope
          /\ UNCHANGED <<subject, ring, signing>>
       \/ /\ signing' \in Kid /\ ring' \in SUBSET Kid
          /\ UNCHANGED <<subject, grant>>
    /\ UNCHANGED <<now, offset, x, entry, trip>>

Init ==
    /\ now = 0
    /\ offset \in Offsets
    /\ subject = [exp |-> SubjectLife, live |-> TRUE]
    /\ grant = Scope
    /\ ring = Kid
    /\ signing \in Kid
    /\ x = NoExchange
    /\ entry = NoEntry
    /\ trip = NoTrip
    /\ changes = 0

Next ==
    \/ Send \/ Validate \/ Resolve \/ Issue \/ Return \/ Abandon \/ Receive
    \/ RoundTrip \/ Verify \/ Tick \/ World

Spec == Init /\ [][Next]_vars

-----------------------------------------------------------------------------

(* Type invariant: where an exchange, a request and an answer can be, and  *)
(* that only a checked answer is cached.                                   *)
TypeOK ==
    /\ now \in 0..MaxNow /\ offset \in Offsets /\ changes \in 0..MaxChanges
    /\ subject.exp \in Nat /\ subject.live \in BOOLEAN
    /\ grant \subseteq Scope /\ ring \subseteq Kid /\ signing \in Kid
    /\ x.pc \in {"idle", "validate", "resolve", "issue", "return", "answer"}
    /\ x.scope \subseteq Scope /\ x.expiresIn \in 0..Ceiling
    /\ entry = NoEntry \/ entry.life \in 1..Ceiling
    /\ trip.pc \in {"idle", "wire"}
    /\ trip.verdict \in Verifier!Reasons \cup {"none", "accepted", "unavailable"}

(* A workload acts no longer than its subject token lets it: a request is  *)
(* accepted only before the end of the subject the token was exchanged     *)
(* for (and the resource's leeway), whatever was rotated or delayed in     *)
(* between (Exchange's cap, WorkloadAccessTokenLifetime).                  *)
AuthorityEndsWithSubject ==
    [][trip'.verdict = "accepted" /\ Verify => ResourceClock < (trip.cap + Leeway) * Res]_vars

(* A token the transport sends is one the resource accepts: if the         *)
(* resource's clock at the time it verifies is not behind the client's at  *)
(* the time of sending by more than the leeway, nor ahead by more than the *)
(* safety margin and the leeway, and it holds the key, Verify accepts      *)
(* (checkToken: "everything the strictest legal verifier checks").         *)
SentIsAccepted ==
    [][/\ Verify
       /\ trip.token.kid \in ring
       /\ trip.at - Leeway * Res <= ResourceClock
       /\ ResourceClock <= trip.at + Margin + Leeway * Res
       => trip'.verdict = "accepted"]_vars

(* What Exchange answers is what was asked for and no more than it may     *)
(* give, whatever the issuer returned.  It is no JWT the WorkloadVerifier  *)
(* would refuse for its lifetime ("an exchange must never mint one"), and  *)
(* it promises no more of it than is left.  Its scope is the one           *)
(* requested, or the whole grant when none was, within the grant read for  *)
(* this exchange: never silently narrowed, never widened                   *)
(* (ResolveRequestedScope).  The state keeps its types.                    *)
AnswerAsAsked ==
    /\ TypeOK
    /\ x.pc = "answer" /\ x.token.typ # "opaque" =>
        /\ x.token.iat < x.token.exp
        /\ x.token.exp - x.token.iat <= Ceiling
        /\ x.expiresIn * Res <= x.exp - x.iat
    /\ x.pc \in {"issue", "return", "answer"} =>
        /\ x.scope # {} /\ x.scope \subseteq x.granted
        /\ x.scope = IF x.requested = {} THEN x.granted ELSE x.requested
=============================================================================
