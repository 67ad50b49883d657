--------------------------- MODULE AdmissionProofs ---------------------------
(***************************************************************************)
(* What decides on a request.  Part one: the token verifiers, for every    *)
(* set of tokens and keys, every ceiling, leeway and resolution of the     *)
(* clock.  Part two: a pep.Client call, for every set of requests,         *)
(* documents and repository keys and every bound on a batch.               *)
(***************************************************************************)
EXTENDS TokenVerify, PepClient, SequenceTheorems, WellFoundedInduction, TLAPS

\* Time limits of the provers, in seconds, where a step asks for no other.
USE SMTT(20), ZenonT(30)

-----------------------------------------------------------------------------
(* Part one: the token verifiers (TokenVerify).                            *)

\* What an acceptance establishes once and for all of a token: everything
\* Decide asks before the key and the end of the window.
SoundToken(c, tok) ==
    /\ Conforms(c, tok)
    /\ tok.kid \notin Denied /\ tok.signer = tok.kid
    /\ tok.iss = Issuer /\ tok.aud = Audience

\* The inductive invariant: a token once accepted is sound, and was accepted
\* no earlier than its nbf allows and no later than now.
VerifyInv ==
    /\ VerifyTypeOK
    /\ verdict = "accepted" => first >= 0
    /\ first >= 0 => SoundToken(class, token) /\ token.nbf <= first + Leeway /\ first <= Unix(now)

-----------------------------------------------------------------------------

\* Seconds are counted from the clock and do not run backwards.
LEMMA Seconds ==
    ASSUME NEW t \in Nat
    PROVE  Unix(t) \in 0..t /\ Unix(t) <= Unix(t + 1)
BY VerifyAssumption, SMTT(60) DEF Unix

\* The dates of a token are numbers.
LEMMA TokenDates ==
    ASSUME NEW tok \in Token
    PROVE  tok.iat \in Nat /\ tok.nbf \in Nat /\ tok.exp \in Nat
BY VerifyAssumption

\* What Decide says of a token: an acceptance is sound and inside the window,
\* and a sound token whose nbf has come is refused only for its key or its end.
LEMMA Decided ==
    ASSUME NEW c \in Class, NEW tok \in Token, NEW t \in Nat
    PROVE  LET d == Decide(c, tok, t) IN
           /\ d \in Reasons \cup {"unavailable", "accepted"}
           /\ d = "accepted" =>
                 SoundToken(c, tok) /\ tok.nbf <= Unix(t) + Leeway /\ Unix(t) - Leeway < tok.exp
           /\ SoundToken(c, tok) /\ tok.nbf <= Unix(t) + Leeway =>
                 \/ d = "accepted"
                 \/ d = "expired" /\ Unix(t) >= tok.exp + Leeway
                 \/ d = "unknown_kid" /\ keys # Unreadable /\ tok.kid \notin keys
                 \/ d = "unavailable" /\ keys = Unreadable
<1>1. Unix(t) \in Nat /\ Leeway \in Nat
  BY Seconds, VerifyAssumption
<1>2. tok.nbf \in Nat /\ tok.exp \in Nat
  BY TokenDates
<1>3. QED
  BY <1>1, <1>2 DEF Decide, SoundToken, inWindow, lookupKey, Reasons

\* The classes have typ values of their own, and a verifier asks for its own.
LEMMA OneClass ==
    ASSUME NEW c \in Class, NEW d \in Class, NEW tok, Conforms(c, tok), Conforms(d, tok)
    PROVE  c = d
<1>1. ASSUME NEW e \in Class, parseHeader(e, tok) PROVE tok.typ = typOf[e]
  <2>1. CASE e = "access"
    BY <1>1, <2>1 DEF parseHeader, parseAccessHeader
  <2>2. CASE e = "workload"
    BY <1>1, <2>2 DEF parseHeader, parseWorkloadHeader
  <2>3. CASE e = "service_account"
    BY <1>1, <2>3 DEF parseHeader, parseServiceAccountHeader
  <2>4. QED
    BY <2>1, <2>2, <2>3 DEF Class
<1>2. typOf[c] = typOf[d]
  BY <1>1 DEF Conforms
<1>3. QED
  BY <1>2 DEF Class, typOf

\* A token that conforms keeps its class's ceiling.
LEMMA SpanOfConforming ==
    ASSUME NEW c \in Class, NEW tok \in Token, Conforms(c, tok)
    PROVE  tok.iat <= tok.nbf /\ tok.exp - tok.iat <= Ceiling[c]
BY ZenonT(30) DEF Class, Conforms, parseClaims, parseAccessClaims, parseWorkloadClaims,
       parseServiceAccountClaims, datesFit

-----------------------------------------------------------------------------

\* VerifyInv is inductive.
LEMMA VerifyInvariant == VerifySpec => []VerifyInv
<1>1. VerifyInit => VerifyInv
  BY VerifyAssumption DEF VerifyInit, VerifyInv, VerifyTypeOK, Reasons
<1>2. VerifyInv /\ [VerifyNext]_verifyVars => VerifyInv'
  <2> SUFFICES ASSUME VerifyInv, [VerifyNext]_verifyVars PROVE VerifyInv'
    OBVIOUS
  <2> USE DEF VerifyInv
  <2>0. now \in Nat /\ Unix(now) \in 0..now /\ Unix(now) <= Unix(now + 1) /\ Unix(now + 1) \in Nat
    BY Seconds, VerifyAssumption DEF VerifyTypeOK
  <2>1. CASE Tick
    <3>1. now' = now + 1 /\ now' \in 0..MaxNow
      BY <2>1, VerifyAssumption DEF Tick, VerifyTypeOK
    <3>2. Unix(now)' = Unix(now + 1)
      BY <3>1 DEF Unix
    <3>3. VerifyTypeOK'
      BY <2>1, <3>1 DEF Tick, VerifyTypeOK
    <3>4. first \in Int
      BY DEF VerifyTypeOK
    <3>5. QED
      BY <2>0, <2>1, <3>2, <3>3, <3>4 DEF Tick
  <2>2. CASE KeySourceChanges
    <3>1. VerifyTypeOK'
      BY <2>2, VerifyAssumption DEF KeySourceChanges, VerifyTypeOK
    <3>2. QED
      BY <2>2, <3>1 DEF KeySourceChanges, Unix
  <2>3. ASSUME NEW c \in Class, Verify(c) PROVE VerifyInv'
    <3>1. class \in Class /\ token \in Token
      BY DEF VerifyTypeOK
    <3> DEFINE d == Decide(class, token, now)
    <3>2. /\ d \in Reasons \cup {"unavailable", "accepted"}
          /\ d = "accepted" => SoundToken(class, token) /\ token.nbf <= Unix(now) + Leeway
      BY <2>0, <3>1, Decided
    <3>3. d # "none"
      BY <3>2 DEF Reasons
    <3> HIDE DEF d
    <3>4. /\ verdict' = d /\ first' = IF first = -1 /\ d = "accepted" THEN Unix(now) ELSE first
          /\ UNCHANGED <<now, keys, token, class, changes>>
      BY <2>3 DEF Verify, d
    <3>5. VerifyTypeOK'
      <4>1. d \in Reasons \cup {"none", "unavailable", "accepted"}
        BY <3>2
      <4>2. first' \in -1..MaxNow
        BY <2>0, <3>4, VerifyAssumption DEF VerifyTypeOK
      <4>3. QED
        BY <3>3, <3>4, <4>1, <4>2 DEF VerifyTypeOK
    <3>6. Unix(now)' = Unix(now)
      BY <3>4 DEF Unix
    <3>7. first \in -1..MaxNow
      BY DEF VerifyTypeOK
    <3>8. QED
      BY <2>0, <3>2, <3>4, <3>5, <3>6, <3>7
  <2>4. CASE UNCHANGED verifyVars
    BY <2>4 DEF verifyVars, VerifyTypeOK, Unix
  <2>5. QED
    BY <2>1, <2>2, <2>3, <2>4 DEF VerifyNext, VerifyAccess, VerifyWorkload, VerifyServiceAccount, Class
<1>3. QED
  BY <1>1, <1>2, PTL DEF VerifySpec

\* A token one of the three Verify methods accepts is accepted by neither of
\* the others at any time: the contracts of the classes exclude each other.
THEOREM Disjoint == VerifySpec => []ClassesDisjoint
<1>1. VerifyInv => ClassesDisjoint
  <2> SUFFICES ASSUME VerifyInv, verdict = "accepted",
                      NEW d \in Class \ {class}, NEW t \in 0..MaxNow, Decide(d, token, t) = "accepted"
               PROVE  FALSE
    BY DEF ClassesDisjoint, VerifyInv
  <2>1. class \in Class /\ token \in Token /\ t \in Nat
    BY DEF VerifyInv, VerifyTypeOK
  <2>2. SoundToken(class, token)
    BY DEF VerifyInv
  <2>3. SoundToken(d, token)
    BY <2>1, Decided
  <2>4. QED
    BY <2>1, <2>2, <2>3, OneClass DEF SoundToken
<1>2. QED
  BY <1>1, VerifyInvariant, PTL

\* The seconds at which Verify accepts one token span less than the ceiling of
\* its class and twice the leeway.
THEOREM SpanBounded == VerifySpec => AcceptedSpanBounded
<1>1. VerifyInv /\ VerifyInv' /\ [VerifyNext]_verifyVars =>
        [verdict' = "accepted" /\ Verify(class) => Unix(now) - first' < Ceiling[class] + 2 * Leeway]_verifyVars
  <2> SUFFICES ASSUME VerifyInv, VerifyInv', verdict' = "accepted", Verify(class)
               PROVE  Unix(now) - first' < Ceiling[class] + 2 * Leeway
    OBVIOUS
  <2>1. class \in Class /\ token \in Token /\ now \in Nat /\ Unix(now) \in Nat
    BY Seconds DEF VerifyInv, VerifyTypeOK
  <2>2. Decide(class, token, now) = "accepted" /\ token' = token /\ class' = class
    BY DEF Verify
  <2>3. Unix(now) - Leeway < token.exp /\ SoundToken(class, token)
    BY <2>1, <2>2, Decided
  <2>4. first' \in Int /\ token.nbf <= first' + Leeway
    BY <2>2 DEF VerifyInv, VerifyTypeOK
  <2>5. token.iat <= token.nbf /\ token.exp - token.iat <= Ceiling[class]
    BY <2>1, <2>3, SpanOfConforming DEF SoundToken
  <2>6. token.iat \in Nat /\ token.nbf \in Nat /\ token.exp \in Nat /\ Leeway \in Nat /\ Ceiling[class] \in Nat
    BY <2>1, TokenDates, VerifyAssumption
  <2>7. QED
    BY <2>1, <2>3, <2>4, <2>5, <2>6
<1>2. QED
  BY <1>1, VerifyInvariant, PTL DEF VerifySpec, AcceptedSpanBounded

\* A token once accepted is refused only when its end has come or a readable
\* key source has lost its key; an unreadable one is never a refusal.
THEOREM OnlyForCause == VerifySpec => RefusedOnlyForCause
<1> DEFINE Cause ==
      first >= 0 /\ verdict' # verdict =>
          \/ verdict' = "accepted"
          \/ verdict' = "expired" /\ Unix(now) >= token.exp + Leeway
          \/ verdict' = "unknown_kid" /\ keys # Unreadable /\ token.kid \notin keys
          \/ verdict' = "unavailable" /\ keys = Unreadable
<1>1. VerifyInv /\ [VerifyNext]_verifyVars => [Cause]_verifyVars
  <2> SUFFICES ASSUME VerifyInv, VerifyNext, first >= 0, verdict' # verdict
               PROVE  \/ verdict' = "accepted"
                      \/ verdict' = "expired" /\ Unix(now) >= token.exp + Leeway
                      \/ verdict' = "unknown_kid" /\ keys # Unreadable /\ token.kid \notin keys
                      \/ verdict' = "unavailable" /\ keys = Unreadable
    BY DEF verifyVars
  <2>1. class \in Class /\ token \in Token /\ now \in Nat /\ first \in Int /\ Unix(now) \in Nat
    BY Seconds DEF VerifyInv, VerifyTypeOK
  <2>2. verdict' = Decide(class, token, now)
    BY DEF VerifyNext, Tick, KeySourceChanges, VerifyAccess, VerifyWorkload, VerifyServiceAccount, Verify
  <2>3. SoundToken(class, token) /\ token.nbf <= first + Leeway /\ first <= Unix(now)
    BY DEF VerifyInv
  <2>4. token.nbf <= Unix(now) + Leeway
    BY <2>1, <2>3, TokenDates, VerifyAssumption
  <2>5. QED
    BY <2>1, <2>2, <2>3, <2>4, Decided
<1>2. QED
  BY <1>1, VerifyInvariant, PTL DEF VerifySpec, RefusedOnlyForCause

-----------------------------------------------------------------------------
(* Part two: a call of the policy client (PepClient).                      *)

(* The first element of a sequence with a property.                        *)

LEMMA LeastNatural ==
    ASSUME NEW S, S \subseteq Nat, S # {}
    PROVE  Min(S) \in S /\ \A y \in S : Min(S) <= y
<1>1. PICK x \in S : \A y \in S : ~(<<y, x>> \in OpToRel(<, Nat))
  BY NatLessThanWellFounded, WFMin, ZenonT(30)
<1>2. ASSUME NEW y \in S, y < x PROVE FALSE
  <2>1. <<y, x>> \in Nat \X Nat /\ <<y, x>>[1] < <<y, x>>[2]
    BY <1>2
  <2>2. <<y, x>> \in OpToRel(<, Nat)
    BY <2>1 DEF OpToRel
  <2> QED BY <1>1, <2>2, ZenonT(30)
<1>3. \A y \in S : x <= y
  BY <1>2
<1> QED BY <1>3, ZenonT(30) DEF Min

LEMMA FirstLocal ==
    ASSUME NEW out, Len(out) \in Nat
    PROVE  LET bad == SelectInSeq(out, LAMBDA d : d.local)
           IN  /\ bad = 0 => \A i \in 1..Len(out) : ~out[i].local
               /\ bad # 0 => bad \in 1..Len(out) /\ out[bad].local
<1> DEFINE I == {i \in 1..Len(out) : out[i].local}
<1>1. SelectInSeq(out, LAMBDA d : d.local) = IF I # {} THEN Min(I) ELSE 0
  BY DEF SelectInSeq
<1>2. I # {} => Min(I) \in I
  BY LeastNatural
<1> QED BY <1>1, <1>2

LEMMA Ranks ==
    /\ assuranceRank("aal1") = 1 /\ assuranceRank("aal2") = 2 /\ assuranceRank("aal3") = 3
    /\ assuranceRank("aal9") = 0
<1> DEFINE I(a) == {i \in 1..Len(Levels) : Levels[i] = a}
<1>1. ASSUME NEW a PROVE assuranceRank(a) = IF I(a) # {} THEN Min(I(a)) ELSE 0
  BY DEF assuranceRank, SelectInSeq
<1>2. Len(Levels) = 3 /\ Levels[1] = "aal1" /\ Levels[2] = "aal2" /\ Levels[3] = "aal3"
  BY DEF Levels
<1>3. I("aal1") = {1} /\ I("aal2") = {2} /\ I("aal3") = {3} /\ I("aal9") = {}
  BY <1>2
<1>4. \A n \in Nat : Min({n}) = n
  BY DEF Min
<1> HIDE DEF I
<1> QED BY <1>1, <1>3, <1>4

-----------------------------------------------------------------------------
(* Reading one document.                                                   *)

\* The reasons the decoder gives.
Undecodable == {"malformed", "unknown_obligation", "mismatch"}

\* The obligations an allow of document p carries.
Granted(p) == NewObligations(IF p.has THEN ObligationSpec(p.obligations) ELSE NoObligations)

\* The PDP's verdict, as its own document p says it.
VerdictOf(d, p) ==
    /\ ~d.local /\ d.reason \in wireReasons /\ d.allowed \in BOOLEAN
    /\ d.allowed => d.reason \in allowReasons /\ p.allowed /\ d.obligations = Granted(p)
    /\ ~d.allowed => d.obligations = NoObligations

\* What a document that decodes has passed.
LEMMA Decoded ==
    ASSUME NEW doc, WellFormed(doc), NEW req
    PROVE  LET d == decodeDecision(doc, req)
           IN  \/ \E r \in Undecodable : d = Local(r)
               \/ /\ VerdictOf(d, doc)
                  /\ doc.strict /\ doc.allowed = (doc.reason \in allowReasons)
                  /\ doc.org = req.org /\ doc.reason \in wireReasons
                  /\ doc.has => doc.allowed /\ decodeObligations(doc.obligations) = "ok"
<1> DEFINE m == decodeMembers(doc)
           Passed(d) == /\ VerdictOf(d, doc)
                        /\ doc.strict /\ doc.allowed = (doc.reason \in allowReasons)
                        /\ doc.reason \in wireReasons
                        /\ doc.has => doc.allowed /\ decodeObligations(doc.obligations) = "ok"
<1>0. doc.strict \in BOOLEAN /\ doc.allowed \in BOOLEAN /\ doc.has \in BOOLEAN
  BY DEF WellFormed
<1>1. decodeObligations(doc.obligations) \in {"ok", "malformed", "unknown_obligation"}
  BY DEF decodeObligations
<1>2. ASSUME NEW o
      PROVE  LET d == FromWire(doc, o)
             IN  /\ d.local = FALSE /\ d.allowed = doc.allowed /\ d.reason = doc.reason
                 /\ d.obligations = IF doc.allowed THEN o ELSE NoObligations
  BY DEF FromWire
<1>3. CASE ~doc.strict \/ doc.reason \notin wireReasons \/ doc.allowed # (doc.reason \in allowReasons)
  <2>1. m = Local("malformed")
    BY <1>3 DEF decodeMembers
  <2>2. decodeDecision(doc, req) = m
    BY <2>1 DEF decodeDecision, Local
  <2> QED BY <2>1, <2>2 DEF Undecodable
<1>4. CASE /\ doc.strict /\ doc.reason \in wireReasons /\ doc.allowed = (doc.reason \in allowReasons)
           /\ ~doc.has
  <2>1. m = FromWire(doc, NewObligations(NoObligations))
    BY <1>4 DEF decodeMembers
  <2>2. Passed(m) /\ m.local = FALSE
    BY <1>0, <1>2, <1>4, <2>1, ZenonT(30) DEF VerdictOf, Granted
  <2> QED BY <2>2 DEF decodeDecision, Undecodable
<1>5. CASE /\ doc.strict /\ doc.reason \in wireReasons /\ doc.allowed = (doc.reason \in allowReasons)
           /\ doc.has /\ ~doc.allowed
  <2>1. m = Local("malformed")
    BY <1>5 DEF decodeMembers
  <2>2. decodeDecision(doc, req) = m
    BY <2>1 DEF decodeDecision, Local
  <2> QED BY <2>1, <2>2 DEF Undecodable
<1>6. CASE /\ doc.strict /\ doc.reason \in wireReasons /\ doc.allowed = (doc.reason \in allowReasons)
           /\ doc.has /\ doc.allowed /\ decodeObligations(doc.obligations) # "ok"
  <2>1. m = Local(decodeObligations(doc.obligations))
    BY <1>6, ZenonT(30) DEF decodeMembers
  <2>2. decodeDecision(doc, req) = m
    BY <2>1 DEF decodeDecision, Local
  <2> QED BY <1>1, <1>6, <2>1, <2>2, ZenonT(30) DEF Undecodable
<1>7. CASE /\ doc.strict /\ doc.reason \in wireReasons /\ doc.allowed = (doc.reason \in allowReasons)
           /\ doc.has /\ doc.allowed /\ decodeObligations(doc.obligations) = "ok"
  <2>1. m = FromWire(doc, NewObligations(ObligationSpec(doc.obligations)))
    BY <1>7, ZenonT(30) DEF decodeMembers
  <2>2. Passed(m) /\ m.local = FALSE
    BY <1>0, <1>2, <1>7, <2>1, ZenonT(30) DEF VerdictOf, Granted
  <2> QED BY <2>2 DEF decodeDecision, Undecodable
<1> QED BY <1>0, <1>3, <1>4, <1>5, <1>6, <1>7

\* A spoiled document is a document, and what is wrong with it is noticed: it
\* is refused, or it decodes to what the unspoiled one says.
LEMMA Noticed ==
    ASSUME NEW p, WellFormed(p), p.allowed <=> p.reason \in allowReasons,
           NEW req, p.org = req.org, NEW doc \in {p} \cup Spoil(p)
    PROVE  LET d == decodeDecision(doc, req)
           IN  (\E r \in Undecodable : d = Local(r)) \/ VerdictOf(d, p)
<1> DEFINE Good(q) == LET d == decodeDecision(q, req)
                      IN  (\E r \in Undecodable : d = Local(r)) \/ VerdictOf(d, p)
           o == p.obligations
<1>0. /\ p.strict \in BOOLEAN /\ p.allowed \in BOOLEAN /\ p.has \in BOOLEAN 
  BY DEF WellFormed
<1>1. Good(p)
  BY Decoded
<1>2. Good([p EXCEPT !.strict = FALSE])
  <2> DEFINE q == [p EXCEPT !.strict = FALSE]
  <2>1. WellFormed(q) /\ ~q.strict
    BY DEF WellFormed
  <2> HIDE DEF q
  <2> QED BY <2>1, Decoded, ZenonT(30) DEF q
<1>3. Good([p EXCEPT !.allowed = ~@])
  <2> DEFINE q == [p EXCEPT !.allowed = ~@]
  <2>1. WellFormed(q) /\ q.allowed = ~p.allowed /\ q.reason = p.reason
    BY DEF WellFormed
  <2>2. q.allowed # (q.reason \in allowReasons)
    BY <1>0, <2>1
  <2> HIDE DEF q
  <2> QED BY <2>1, <2>2, Decoded, ZenonT(30) DEF q
<1>4. Good([p EXCEPT !.reason = "unheard_of"])
  <2> DEFINE q == [p EXCEPT !.reason = "unheard_of"]
  <2>1. WellFormed(q) /\ q.reason \notin wireReasons
    BY DEF WellFormed, wireReasons, allowReasons
  <2> HIDE DEF q
  <2> QED BY <2>1, Decoded, ZenonT(30) DEF q
<1>5. Good([p EXCEPT !.org = "elsewhere"])
  <2> DEFINE q == [p EXCEPT !.org = "elsewhere"]
  <2>1. /\ WellFormed(q) /\ q.allowed = p.allowed /\ q.has = p.has
        /\ q.obligations = p.obligations
    BY DEF WellFormed
  <2>2. Granted(q) = Granted(p)
    BY <2>1 DEF Granted
  <2> HIDE DEF q
  <2>3. VerdictOf(decodeDecision(q, req), q) => VerdictOf(decodeDecision(q, req), p)
    BY <2>1, <2>2 DEF VerdictOf
  <2>4. Good(q)
    BY <2>1, <2>3, Decoded
  <2> QED BY <2>4 DEF q
<1>6. ASSUME NEW u, DOMAIN u = DOMAIN o, decodeObligations(u) # "ok"
      PROVE  Good([p EXCEPT !.has = TRUE, !.obligations = u])
  <2> DEFINE q == [p EXCEPT !.has = TRUE, !.obligations = u]
  <2>1. WellFormed(q) /\ q.has = TRUE /\ q.obligations = u
    BY <1>6 DEF WellFormed
  <2> HIDE DEF q
  <2> QED BY <1>6, <2>1, Decoded, ZenonT(30) DEF q
<1>7. Good([p EXCEPT !.has = TRUE, !.obligations.unknown = TRUE])
  <2> DEFINE u == [o EXCEPT !.unknown = TRUE]
  <2>1. DOMAIN u = DOMAIN o /\ decodeObligations(u) # "ok"
    BY DEF WellFormed, decodeObligations
  <2>2. [p EXCEPT !.has = TRUE, !.obligations.unknown = TRUE] = [p EXCEPT !.has = TRUE, !.obligations = u]
    BY DEF WellFormed
  <2> HIDE DEF Good, u
  <2> QED BY <1>6, <2>1, <2>2, ZenonT(30)
<1>8. Good([p EXCEPT !.has = TRUE, !.obligations.scope = "organization", !.obligations.list = {Star}])
  <2> DEFINE u == [o EXCEPT !.scope = "organization", !.list = {Star}]
  <2>1. DOMAIN u = DOMAIN o
    BY DEF WellFormed
  <2>2. u.scope = "organization" /\ u.list = {Star}
    BY DEF WellFormed
  <2>3. decodeObligations(u) # "ok"
    <3>1. {Star} # NoList /\ "organization" # None
      BY DEF Star, NoList, None
    <3> HIDE DEF u
    <3> QED BY <2>2, <3>1 DEF decodeObligations
  <2>4. [p EXCEPT !.has = TRUE, !.obligations.scope = "organization", !.obligations.list = {Star}]
           = [p EXCEPT !.has = TRUE, !.obligations = u]
    BY ZenonT(30) DEF WellFormed
  <2> HIDE DEF Good, u
  <2> QED BY <1>6, <2>1, <2>3, <2>4, ZenonT(30)
<1>9. Good([p EXCEPT !.has = TRUE, !.obligations.assurance = "aal9"])
  <2> DEFINE u == [o EXCEPT !.assurance = "aal9"]
  <2>1. DOMAIN u = DOMAIN o /\ u.assurance = "aal9"
    BY DEF WellFormed
  <2>2. decodeObligations(u) # "ok"
    <3> HIDE DEF u
    <3> QED BY <2>1, Ranks DEF decodeObligations, None
  <2>3. [p EXCEPT !.has = TRUE, !.obligations.assurance = "aal9"] = [p EXCEPT !.has = TRUE, !.obligations = u]
    BY DEF WellFormed
  <2> HIDE DEF Good, u
  <2> QED BY <1>6, <2>1, <2>2, <2>3, ZenonT(30)
<1>10. Good([p EXCEPT !.has = TRUE, !.obligations.strict = FALSE])
  <2> DEFINE u == [o EXCEPT !.strict = FALSE]
  <2>1. DOMAIN u = DOMAIN o /\ decodeObligations(u) # "ok"
    BY DEF WellFormed, decodeObligations
  <2>2. [p EXCEPT !.has = TRUE, !.obligations.strict = FALSE] = [p EXCEPT !.has = TRUE, !.obligations = u]
    BY DEF WellFormed
  <2> HIDE DEF Good, u
  <2> QED BY <1>6, <2>1, <2>2, ZenonT(30)
<1> HIDE DEF Good
<1>11. Good(doc)
  BY <1>1, <1>2, <1>3, <1>4, <1>5, <1>7, <1>8, <1>9, <1>10, ZenonT(30) DEF Spoil
<1> QED BY <1>11 DEF Good

-----------------------------------------------------------------------------
(* The inductive invariant.                                                *)

\* An item is of a request of the call, under that request's index; its
\* document may be spoiled.
OfRequest(item) ==
    \E i \in 1..N : item.index = i /\ item.doc \in {policy[call.reqs[i]]} \cup Spoil(policy[call.reqs[i]])

Wired(a) ==
    /\ a.batch = call.batch
    /\ Len(a.items) \in Nat
    /\ \A j \in 1..Len(a.items) : OfRequest(a.items[j])

\* What was sent is within the contract.
Sendable == N \in 1..MaxBatch /\ \A i \in 1..N : call.reqs[i].valid

Truth(reason) ==
    /\ reason = "unreachable" => ctx = "live"
    /\ reason = "canceled" => ctx = "canceled"
    /\ reason = "timeout" => ctx # "canceled"

\* One true reason for every request, or every request's own verdict.
Answered(out) ==
    /\ Len(out) = N
    /\ \/ \E reason \in Decisions : Truth(reason) /\ \A i \in 1..N : out[i] = Local(reason)
       \/ \A i \in 1..N : VerdictOf(out[i], policy[call.reqs[i]])

Fixed ==
    /\ policy \in [{r \in Request : r.valid} -> Document]
    /\ \A r \in DOMAIN policy : policy[r].org = r.org
    /\ call \in Calls

IInv ==
    /\ Fixed
    /\ pc \in {"start", "wire", "body", "done"}
    /\ ctx \in {"live", "canceled", "deadline"}
    /\ pc \in {"wire", "body"} => Sendable
    /\ answer # NoAnswer => Wired(answer)
    /\ pc = "body" => answer # NoAnswer
    /\ IF pc = "done" THEN Answered(result) ELSE result = <<>>

LEMMA TheCall ==
    ASSUME Fixed
    PROVE  N \in Nat /\ call.reqs \in Seq(Request) /\ call.batch \in BOOLEAN /\ (~call.batch => N = 1)
<1>1. call \in [batch: BOOLEAN, reqs: Seq(Request)] /\ (~call.batch => Len(call.reqs) = 1)
  BY ClientAssumption DEF Fixed
<1> QED BY <1>1 DEF N

LEMMA ThePolicy ==
    ASSUME Fixed, Sendable, NEW i \in 1..N
    PROVE  LET p == policy[call.reqs[i]]
           IN  WellFormed(p) /\ (p.allowed <=> p.reason \in allowReasons) /\ p.org = call.reqs[i].org
<1>1. call.reqs[i] \in Request /\ call.reqs[i].valid
  BY TheCall DEF Sendable, N
<1>2. call.reqs[i] \in DOMAIN policy /\ policy[call.reqs[i]] \in Document
  BY <1>1 DEF Fixed
<1> QED BY <1>2, ClientAssumption DEF Fixed

\* denyAll: the same local deny at every index.
LEMMA AllDenied ==
    ASSUME Fixed, NEW reason \in Decisions, Truth(reason)
    PROVE  Answered(denyAll(reason, N))
<1>1. N \in Nat
  BY TheCall
<1>2. Len(denyAll(reason, N)) = N /\ \A i \in 1..N : denyAll(reason, N)[i] = Local(reason)
  <2> HIDE DEF N
  <2> QED BY <1>1 DEF denyAll
<1> QED BY <1>2 DEF Answered

LEMMA Untimely ==
    ASSUME NEW reason \in Decisions \ {"unreachable", "canceled", "timeout"}
    PROVE  Truth(reason)
BY DEF Truth

LEMMA Classified ==
    ASSUME NEW timedOut, ctx \in {"live", "canceled", "deadline"}
    PROVE  classify(timedOut) \in Decisions /\ Truth(classify(timedOut))
BY DEF classify, Decisions, Truth

\* One item's document, decoded for the request it was sent for.
LEMMA ItemDecoded ==
    ASSUME Fixed, Sendable, NEW i \in 1..N, NEW item, OfRequest(item), item.index = i
    PROVE  LET d == decodeDecision(item.doc, call.reqs[i])
           IN  (\E r \in Undecodable : d = Local(r)) \/ VerdictOf(d, policy[call.reqs[i]])
<1> DEFINE p == policy[call.reqs[i]]
<1>1. item.doc \in {p} \cup Spoil(p)
  BY DEF OfRequest
<1>2. WellFormed(p) /\ (p.allowed <=> p.reason \in allowReasons) /\ p.org = call.reqs[i].org
  BY ThePolicy
<1> HIDE DEF p
<1>3. (\E r \in Undecodable : decodeDecision(item.doc, call.reqs[i]) = Local(r))
      \/ VerdictOf(decodeDecision(item.doc, call.reqs[i]), p)
  BY <1>1, <1>2, Noticed
<1> QED BY <1>3 DEF p

LEMMA LocalFields ==
    ASSUME NEW r
    PROVE  Local(r).local /\ Local(r).reason = r
BY DEF Local

LEMMA UndecodableTrue ==
    ASSUME NEW r \in Undecodable
    PROVE  r \in Decisions /\ Truth(r)
BY DEF Undecodable, Decisions, Truth

\* parseDecision answers Decide.
LEMMA DecisionParsed ==
    ASSUME Fixed, Sendable, Wired(answer), ~call.batch
    PROVE  Answered(<<parseDecision(answer, call.reqs[1])>>)
<1> DEFINE d == parseDecision(answer, call.reqs[1])
           out == <<d>>
<1>1. N = 1 /\ Len(out) = 1 /\ \A i \in 1..N : out[i] = d
  BY TheCall
<1>2. (\E r \in Undecodable : d = Local(r)) \/ VerdictOf(d, policy[call.reqs[1]])
  <2>1. CASE ~answer.strict \/ answer.batch \/ Len(answer.items) # 1
    BY <2>1 DEF parseDecision, Undecodable
  <2>2. CASE ~(~answer.strict \/ answer.batch \/ Len(answer.items) # 1)
    <3>1. d = decodeDecision(answer.items[1].doc, call.reqs[1])
      BY <2>2 DEF parseDecision
    <3>2. OfRequest(answer.items[1]) /\ 1 \in 1..N
      BY <1>1, <2>2 DEF Wired
    <3>3. answer.items[1].index = 1
      BY <1>1, <3>2 DEF OfRequest
    <3> HIDE DEF d
    <3> QED BY <3>1, <3>2, <3>3, ItemDecoded
  <2> QED BY <2>1, <2>2
<1> HIDE DEF d
<1>3. ASSUME \E r \in Undecodable : d = Local(r) PROVE Answered(out)
  BY <1>1, <1>3, UndecodableTrue DEF Answered
<1>4. ASSUME VerdictOf(d, policy[call.reqs[1]]) PROVE Answered(out)
  <2>1. \A i \in 1..N : VerdictOf(out[i], policy[call.reqs[i]])
    BY <1>1, <1>4
  <2> QED BY <1>1, <2>1 DEF Answered
<1>5. Answered(out)
  BY <1>2, <1>3, <1>4
<1> QED BY <1>5 DEF d

\* parseBatch answers DecideBatch: every item is in its place and decodes, or
\* one deny stands for all.
LEMMA BatchParsed ==
    ASSUME Fixed, Sendable, Wired(answer)
    PROVE  Answered(parseBatch(answer, call.reqs))
<1> DEFINE early == \/ ~answer.strict \/ ~answer.batch \/ answer.items = <<>> \/ Len(answer.items) > MaxBatch
                    \/ \E i \in 1..Len(answer.items) : answer.items[i].index > MaxBatch
           moved == Len(answer.items) # N \/ \E i \in 1..N : answer.items[i].index # i
           out == [i \in 1..N |-> decodeDecision(answer.items[i].doc, call.reqs[i])]
           bad == SelectInSeq(out, LAMBDA d : d.local)
<1>0. N \in Nat
  BY TheCall
<1>1. parseBatch(answer, call.reqs) = IF early THEN denyAll("malformed", N)
                                      ELSE IF moved THEN denyAll("mismatch", N)
                                      ELSE IF bad = 0 THEN out ELSE denyAll(out[bad].reason, N)
  BY DEF parseBatch, N
<1>2. "malformed" \in Decisions /\ "mismatch" \in Decisions /\ Truth("malformed") /\ Truth("mismatch")
  BY DEF Decisions, Truth
<1>3. CASE early \/ moved
  <2> HIDE DEF early, moved, out, bad
  <2> QED BY <1>1, <1>2, <1>3, AllDenied
<1>4. CASE ~early /\ ~moved
  <2>1. \A i \in 1..N : out[i] = decodeDecision(answer.items[i].doc, call.reqs[i])
    OBVIOUS
  <2>2. Len(out) = N
    <3> HIDE DEF N
    <3> QED BY <1>0
  <2>3. ASSUME NEW i \in 1..N
        PROVE  (\E r \in Undecodable : out[i] = Local(r)) \/ VerdictOf(out[i], policy[call.reqs[i]])
    <3>1. OfRequest(answer.items[i]) /\ answer.items[i].index = i
      BY <1>4 DEF Wired
    <3> HIDE DEF out
    <3> QED BY <2>1, <3>1, ItemDecoded
  <2>4. /\ bad = 0 => \A i \in 1..Len(out) : ~out[i].local
        /\ bad # 0 => bad \in 1..Len(out) /\ out[bad].local
    <3> HIDE DEF out
    <3> QED BY <1>0, <2>2, FirstLocal
  <2> HIDE DEF early, moved, out, bad
  <2>5. CASE bad = 0
    <3>1. \A i \in 1..N : VerdictOf(out[i], policy[call.reqs[i]])
      BY <2>2, <2>3, <2>4, <2>5, LocalFields
    <3> QED BY <1>1, <1>4, <2>2, <2>5, <3>1 DEF Answered
  <2>6. CASE bad # 0
    <3>1. bad \in 1..N /\ out[bad].local
      BY <2>2, <2>4, <2>6
    <3>2. PICK r \in Undecodable : out[bad] = Local(r)
      BY <2>3, <3>1 DEF VerdictOf
    <3>3. out[bad].reason = r
      BY <3>2, LocalFields
    <3>4. Answered(denyAll(r, N))
      BY UndecodableTrue, AllDenied
    <3> QED BY <1>1, <1>4, <2>6, <3>3, <3>4
  <2> QED BY <2>5, <2>6
<1> QED BY <1>3, <1>4

-----------------------------------------------------------------------------
(* The steps.                                                              *)

LEMMA InitInv == Init => IInv
BY DEF Init, IInv, Fixed

\* A step that ends the call with an answer keeps the invariant.
LEMMA DoneInv ==
    ASSUME IInv, NEW out, Answered(out), Done(out)
    PROVE  IInv'
<1>1. policy' = policy /\ call' = call /\ ctx' = ctx /\ answer' = answer /\ pc' = "done" /\ result' = out
  BY DEF Done
<1>2. Fixed' /\ (answer' # NoAnswer => Wired(answer)')
  BY <1>1, ZenonT(30) DEF IInv, Fixed, Wired, OfRequest, N, NoAnswer
<1>3. Answered(result)'
  BY <1>1 DEF Answered, Truth, N
<1> QED BY <1>1, <1>2, <1>3 DEF IInv

LEMMA StartInv ==
    ASSUME IInv, Start
    PROVE  IInv'
<1>1. Fixed /\ ctx \in {"live", "canceled", "deadline"} /\ N \in Nat
  BY TheCall DEF IInv
<1>2. CASE N = 0 /\ Done(<<>>)
  <2>1. Answered(<<>>)
    BY <1>2 DEF Answered
  <2> QED BY <1>2, <2>1, DoneInv
<1>3. CASE Done(denyAll("invalid_request", N))
  <2>1. "invalid_request" \in Decisions /\ Truth("invalid_request")
    BY DEF Decisions, Truth
  <2> QED BY <1>1, <1>3, <2>1, AllDenied, DoneInv
<1>4. CASE Done(denyAll(classify(FALSE), N))
  <2> DEFINE reason == classify(FALSE)
  <2>1. reason \in Decisions /\ Truth(reason)
    BY <1>1 DEF classify, Decisions, Truth
  <2> HIDE DEF reason
  <2>2. Answered(denyAll(reason, N))
    BY <1>1, <2>1, AllDenied
  <2> QED BY <1>4, <2>2, DoneInv, ZenonT(30) DEF reason
<1>5. CASE /\ N \in 1..MaxBatch /\ \A i \in 1..N : call.reqs[i].valid
           /\ pc' = "wire" /\ UNCHANGED <<policy, call, ctx, answer, result>>
  <2>1. pc = "start"
    BY DEF Start
  <2>2. Sendable' /\ Fixed' /\ (answer' # NoAnswer => Wired(answer)')
    BY <1>5, ZenonT(30) DEF IInv, Sendable, Fixed, Wired, OfRequest, N, NoAnswer
  <2> QED BY <1>5, <2>1, <2>2 DEF IInv
<1> QED BY <1>2, <1>3, <1>4, <1>5, ZenonT(30) DEF Start

LEMMA FailInv ==
    ASSUME IInv, Fail
    PROVE  IInv'
<1>1. Fixed /\ ctx \in {"live", "canceled", "deadline"}
  BY DEF IInv
<1>2. PICK timedOut \in BOOLEAN : Done(denyAll(classify(timedOut), N))
  BY DEF Fail
<1>3. Answered(denyAll(classify(timedOut), N))
  BY <1>1, Classified, AllDenied
<1> QED BY <1>2, <1>3, DoneInv

LEMMA HeaderInv ==
    ASSUME IInv, Header
    PROVE  IInv'
<1>1. Fixed /\ pc = "wire" /\ answer # NoAnswer
  BY DEF IInv, Header
<1>2. ASSUME NEW reason \in Decisions \ {"unreachable", "canceled", "timeout"}, Done(denyAll(reason, N))
      PROVE  IInv'
  BY <1>1, <1>2, Untimely, AllDenied, DoneInv
<1>3. CASE Done(denyAll(statusReason(answer.status), N))
  <2>1. statusReason(answer.status) \in Decisions \ {"unreachable", "canceled", "timeout"}
    BY DEF statusReason, Decisions
  <2> QED BY <1>2, <1>3, <2>1
<1>4. CASE Done(denyAll("malformed", N)) \/ Done(denyAll("too_large", N))
  <2>1. {"malformed", "too_large"} \subseteq Decisions \ {"unreachable", "canceled", "timeout"}
    BY DEF Decisions
  <2> QED BY <1>2, <1>4, <2>1
<1>5. CASE pc' = "body" /\ UNCHANGED <<policy, call, ctx, answer, result>>
  <2>1. Sendable' /\ Fixed' /\ Wired(answer)' /\ answer' # NoAnswer
    BY <1>1, <1>5, ZenonT(30) DEF IInv, Sendable, Fixed, Wired, OfRequest, N, NoAnswer
  <2> QED BY <1>1, <1>5, <2>1 DEF IInv
<1> QED BY <1>3, <1>4, <1>5 DEF Header

LEMMA BodyInv ==
    ASSUME IInv, Body
    PROVE  IInv'
<1>1. Fixed /\ Sendable /\ Wired(answer)
  BY DEF IInv, Body
<1>2. "too_large" \in Decisions /\ Truth("too_large")
  BY DEF Decisions, Truth
<1>3. CASE answer.large
  <2>1. Done(denyAll("too_large", N))
    BY <1>3 DEF Body
  <2> QED BY <1>1, <1>2, <2>1, AllDenied, DoneInv
<1>4. CASE ~answer.large /\ call.batch
  <2>1. Done(parseBatch(answer, call.reqs))
    BY <1>4 DEF Body
  <2> QED BY <1>1, <2>1, BatchParsed, DoneInv
<1>5. CASE ~answer.large /\ ~call.batch
  <2> DEFINE out == <<parseDecision(answer, call.reqs[1])>>
  <2>1. Done(out)
    BY <1>5 DEF Body
  <2>2. Answered(out)
    BY <1>1, <1>5, DecisionParsed
  <2> HIDE DEF out
  <2> QED BY <2>1, <2>2, DoneInv
<1> QED BY <1>3, <1>4, <1>5

\* Every way back leaves only items of the call's requests.
LEMMA ArrivedItems ==
    ASSUME Fixed, Sendable, NEW items \in Arrived
    PROVE  Len(items) \in Nat /\ \A j \in 1..Len(items) : OfRequest(items[j])
<1> DEFINE sent == [i \in 1..N |-> [index |-> i, doc |-> policy[call.reqs[i]]]]
<1>0. N \in Nat
  BY TheCall
<1>1. ASSUME NEW i \in 1..N PROVE sent[i].index = i /\ sent[i].doc = policy[call.reqs[i]]
  OBVIOUS
<1>2. CASE \E m \in 0..N + 1 : \E f \in [1..m -> 1..N] : items = [j \in 1..m |-> sent[f[j]]]
  <2>1. PICK m \in 0..N + 1 : \E f \in [1..m -> 1..N] : items = [j \in 1..m |-> sent[f[j]]]
    BY <1>2
  <2>2. PICK f \in [1..m -> 1..N] : items = [j \in 1..m |-> sent[f[j]]]
    BY <2>1
  <2> HIDE DEF sent, N
  <2>3. m \in Nat /\ Len(items) = m /\ \A j \in 1..m : items[j] = sent[f[j]] /\ f[j] \in 1..N
    BY <1>0, <2>2
  <2> QED BY <1>1, <2>3 DEF OfRequest
<1>3. CASE \E i \in 1..N : \E d \in Spoil(sent[i].doc) : items = [sent EXCEPT ![i].doc = d]
  <2>1. PICK i \in 1..N : \E d \in Spoil(sent[i].doc) : items = [sent EXCEPT ![i].doc = d]
    BY <1>3, ZenonT(30)
  <2>2. PICK d \in Spoil(sent[i].doc) : items = [sent EXCEPT ![i].doc = d]
    BY <2>1, ZenonT(30)
  <2>3. Len(items) = N
    <3> HIDE DEF N
    <3>1. items = [k \in 1..N |-> IF k = i THEN [sent[i] EXCEPT !.doc = d] ELSE sent[k]]
      BY <2>2, ZenonT(30)
    <3> QED BY <1>0, <3>1
  <2>4. ASSUME NEW k \in 1..N PROVE OfRequest(items[k])
    <3>1. CASE k = i
      <4>1. items[k].index = k /\ items[k].doc = d
        BY <2>2, <3>1
      <4> QED BY <1>1, <2>2, <3>1, <4>1 DEF OfRequest
    <3>2. CASE k # i
      <4>1. items[k] = sent[k]
        BY <2>2, <3>2
      <4> HIDE DEF sent
      <4> QED BY <1>1, <4>1 DEF OfRequest
    <3> QED BY <3>1, <3>2
  <2> QED BY <1>0, <2>3, <2>4
<1>4. Arrived =
        (UNION {{[j \in 1..m |-> sent[f[j]]] : f \in [1..m -> 1..N]} : m \in 0..N + 1})
        \cup UNION {{[sent EXCEPT ![i].doc = d] : d \in Spoil(sent[i].doc)} : i \in 1..N}
  BY ZenonT(30) DEF Arrived
<1> HIDE DEF sent, N
<1> QED BY <1>2, <1>3, <1>4, ZenonT(30)

LEMMA RespondInv ==
    ASSUME IInv, Respond
    PROVE  IInv'
<1>1. /\ Fixed /\ Sendable /\ pc = "wire" /\ result = <<>>
      /\ policy' = policy /\ call' = call /\ pc' = pc /\ ctx' = ctx /\ result' = result
  BY DEF IInv, Respond
<1>2. Wired(answer')
  <2>1. CASE \E items \in Arrived : answer' = [Plain EXCEPT !.items = items]
    <3>1. PICK items \in Arrived : answer' = [Plain EXCEPT !.items = items]
      BY <2>1
    <3>2. answer'.batch = call.batch /\ answer'.items = items
      BY <3>1 DEF Plain
    <3> QED BY <1>1, <3>2, ArrivedItems DEF Wired
  <2>2. CASE answer' \in {[Plain EXCEPT !.status = status] : status \in {302, 403, 429, 503}}
    <3>1. answer'.batch = call.batch /\ answer'.items = <<>>
      BY <2>2 DEF Plain
    <3> QED BY <3>1 DEF Wired
  <2>3. CASE answer' \in {[Plain EXCEPT !.json = FALSE], [Plain EXCEPT !.large = TRUE],
                          [Plain EXCEPT !.strict = FALSE]}
    <3>1. answer'.batch = call.batch /\ answer'.items = <<>>
      BY <2>3 DEF Plain
    <3> QED BY <3>1 DEF Wired
  <2> QED BY <2>1, <2>2, <2>3 DEF Respond
<1>3. Wired(answer)' /\ Fixed' /\ Sendable'
  BY <1>1, <1>2 DEF Wired, OfRequest, N, Fixed, Sendable
<1> QED BY <1>1, <1>3 DEF IInv

LEMMA Inductive == IInv /\ [Next]_vars => IInv'
<1> SUFFICES ASSUME IInv, [Next]_vars PROVE IInv'
  OBVIOUS
<1>1. CASE CtxEnds
  <2>1. /\ policy' = policy /\ call' = call /\ answer' = answer /\ pc' = pc /\ result' = result
        /\ pc # "done" /\ ctx' \in {"canceled", "deadline"}
    BY <1>1 DEF CtxEnds
  <2>2. Fixed' /\ (Sendable <=> Sendable') /\ (answer' # NoAnswer => Wired(answer)')
    BY <2>1 DEF IInv, Sendable, Fixed, Wired, OfRequest, N, NoAnswer
  <2> QED BY <2>1, <2>2 DEF IInv
<1>2. CASE UNCHANGED vars
  <2>1. /\ policy' = policy /\ call' = call /\ answer' = answer /\ pc' = pc /\ result' = result
        /\ ctx' = ctx
    BY <1>2 DEF vars
  <2>2. Fixed' /\ (Sendable <=> Sendable') /\ (answer' # NoAnswer => Wired(answer)')
    BY <2>1 DEF IInv, Sendable, Fixed, Wired, OfRequest, N, NoAnswer
  <2>3. Answered(result) => Answered(result)'
    BY <2>1 DEF Answered, Truth, N
  <2> QED BY <2>1, <2>2, <2>3 DEF IInv
<1> QED BY <1>1, <1>2, StartInv, FailInv, HeaderInv, BodyInv, RespondInv DEF Next

LEMMA Invariance == Spec => []IInv
BY InitInv, Inductive, PTL DEF Spec

-----------------------------------------------------------------------------
(* What holds of a finished call.                                          *)

\* What an answer says of each index.
LEMMA AnsweredAt ==
    ASSUME NEW out, Answered(out), NEW i \in 1..N
    PROVE  \/ \E reason \in Decisions : Truth(reason) /\ out[i] = Local(reason)
           \/ VerdictOf(out[i], policy[call.reqs[i]])
BY DEF Answered

\* The results of IInv, whether the call has returned or not.
LEMMA Returned ==
    ASSUME IInv, NEW i \in 1..Len(result)
    PROVE  pc = "done" /\ Answered(result) /\ i \in 1..N
BY DEF IInv, Answered

\* Decide and DecideBatch: an allow at an index is the PDP's allow of the
\* request at that index with that document's obligations, whatever was lost,
\* repeated, moved or spoiled on the way back, and a call is answered whole or
\* denied whole for one reason.
THEOREM AllowsOfTheirRequests == Spec => []AllowIsOfItsRequest
<1>1. ASSUME IInv PROVE AllowIsOfItsRequest
  <2>1. ASSUME NEW i \in 1..Len(result)
        PROVE  /\ result[i].local => result[i].reason \in Decisions /\ ~result[i].allowed
               /\ result[i].allowed => result[i].reason \in allowReasons
               /\ result[i].allowed => /\ policy[call.reqs[i]].allowed
                                       /\ result[i].obligations = Granted(policy[call.reqs[i]])
    <3>1. CASE \E reason \in Decisions : result[i] = Local(reason)
      BY <3>1 DEF Local
    <3>2. CASE VerdictOf(result[i], policy[call.reqs[i]])
      BY <3>2 DEF VerdictOf
    <3> QED BY <1>1, <3>1, <3>2, Returned, AnsweredAt
  <2>2. ASSUME NEW i \in 1..Len(result), NEW j \in 1..Len(result), result[i].local
        PROVE  result[j].local /\ result[j].reason = result[i].reason
    <3>1. Answered(result) /\ i \in 1..N /\ j \in 1..N
      BY <1>1, Returned
    <3>2. ~VerdictOf(result[i], policy[call.reqs[i]])
      BY <2>2 DEF VerdictOf
    <3>3. PICK reason \in Decisions : \A k \in 1..N : result[k] = Local(reason)
      BY <3>1, <3>2 DEF Answered
    <3> QED BY <3>1, <3>3, LocalFields
  <2>3. TypeOK
    BY <1>1, <2>1 DEF TypeOK, IInv, Answered
  <2> QED BY <2>1, <2>2, <2>3 DEF AllowIsOfItsRequest, Granted
<1> QED BY <1>1, Invariance, PTL

\* Obligations: what RepositoryAllowed, TenantAllows and AssuranceSatisfiedBy
\* let a service do is within the PDP's document for that request.
THEOREM WithinTheGrant == Spec => []ActsWithinGrant
<1>1. ASSUME NEW o, NEW doc, o = NoObligations \/ (doc.allowed /\ o = Granted(doc))
      PROVE  LET said == doc.obligations
             IN  /\ \A k \in Key : RepositoryAllowed(o, k) =>
                       /\ doc.allowed /\ doc.has
                       /\ said.scope = "organization" \/ {k, Star} \cap said.list # {}
                 /\ \A org \in {"o1", "o2"} : TenantAllows(o, org) =>
                       doc.allowed /\ (doc.has /\ said.tenant # None => said.tenant = org)
                 /\ AssuranceSatisfiedBy(o, "aal1") =>
                       doc.allowed /\ ~(doc.has /\ said.assurance \in {"aal2", "aal3"})
  <2>1. CASE o = NoObligations
    <3>1. o.granted = FALSE
      BY <2>1 DEF NoObligations
    <3> QED BY <3>1 DEF RepositoryAllowed, TenantAllows, AssuranceSatisfiedBy
  <2>2. CASE doc.allowed /\ o = Granted(doc) /\ ~doc.has
    <3>1. o.scope = None /\ o.list = NoList
      BY <2>2 DEF Granted, NewObligations, NoObligations
    <3>2. None # "organization"
      BY DEF None
    <3> QED BY <2>2, <3>1, <3>2 DEF RepositoryAllowed
  <2>3. CASE doc.allowed /\ o = Granted(doc) /\ doc.has
    <3> DEFINE said == doc.obligations
    <3>1. /\ o.scope = said.scope /\ o.list = said.list /\ o.tenant = said.tenant
          /\ o.assurance = said.assurance
      BY <2>3 DEF Granted, NewObligations, ObligationSpec
    <3>2. \A k \in Key : RepositoryAllowed(o, k) =>
              said.scope = "organization" \/ {k, Star} \cap said.list # {}
      BY <3>1 DEF RepositoryAllowed
    <3>3. \A org \in {"o1", "o2"} : TenantAllows(o, org) => (said.tenant # None => said.tenant = org)
      BY <3>1 DEF TenantAllows
    <3>4. ASSUME AssuranceSatisfiedBy(o, "aal1"), said.assurance \in {"aal2", "aal3"} PROVE FALSE
      <4>1. said.assurance # None
        BY <3>4 DEF None
      <4>2. assuranceRank("aal1") >= assuranceRank(said.assurance)
        BY <3>1, <3>4, <4>1 DEF AssuranceSatisfiedBy
      <4> QED BY <3>4, <4>2, Ranks
    <3> HIDE DEF said
    <3> QED BY <2>3, <3>2, <3>3, <3>4 DEF said
  <2> QED BY <1>1, <2>1, <2>2, <2>3
<1>2. ASSUME IInv, NEW i \in 1..Len(result)
      PROVE  LET doc == policy[call.reqs[i]]
             IN  \/ result[i].obligations = NoObligations
                 \/ doc.allowed /\ result[i].obligations = Granted(doc)
  <2>1. CASE \E reason \in Decisions : result[i] = Local(reason)
    BY <2>1 DEF Local
  <2>2. CASE VerdictOf(result[i], policy[call.reqs[i]])
    BY <2>2 DEF VerdictOf
  <2> QED BY <1>2, <2>1, <2>2, Returned, AnsweredAt
<1>3. IInv => ActsWithinGrant
  BY <1>1, <1>2, ZenonT(30) DEF ActsWithinGrant
<1> QED BY <1>3, Invariance, PTL

\* classify: unreachable is reported only while the caller's context lives,
\* canceled only when it was canceled, and timeout never instead of canceled.
THEOREM ReasonsAreTrue == Spec => []LocalReasonIsTrue
<1>1. ASSUME IInv, NEW i \in 1..Len(result) PROVE Truth(result[i].reason)
  <2>1. CASE \E reason \in Decisions : Truth(reason) /\ result[i] = Local(reason)
    BY <2>1, LocalFields
  <2>2. CASE VerdictOf(result[i], policy[call.reqs[i]])
    BY <2>2 DEF VerdictOf, wireReasons, allowReasons, Truth
  <2> QED BY <1>1, <2>1, <2>2, Returned, AnsweredAt
<1>2. IInv => LocalReasonIsTrue
  BY <1>1 DEF LocalReasonIsTrue, Truth
<1> QED BY <1>2, Invariance, PTL

=============================================================================
