------------------------- MODULE WorkloadFlowProofs -------------------------
(***************************************************************************)
(* What holds of a workload token from end to end for every resolution and *)
(* skew of the three clocks, every ceiling, margin and leeway, and whatever*)
(* the issuer does wrong.                                                  *)
(***************************************************************************)
EXTENDS WorkloadFlow, TLAPS

\* Time limits of the provers, in seconds, where a step asks for no other.
USE SMTT(20), ZenonT(30)

\* Whole seconds against ticks: what a second's number says of a clock reading.
LEMMA Seconds ==
    ASSUME NEW t \in Int, NEW s \in Int
    PROVE  Unix(t) \in Int /\ (Unix(t) < s <=> t < s * Res) /\ (s <= Unix(t) <=> s * Res <= t)
<1>1. Res \in Nat /\ Res > 0
  BY FlowAssumption
<1>2. Unix(t) \in Int
  BY <1>1 DEF Unix
<1>3. Unix(t) * Res <= t /\ t < Unix(t) * Res + Res
  BY <1>1, SMTT(60) DEF Unix
<1>4. ASSUME NEW q \in Int, q * Res <= t, t < q * Res + Res
      PROVE  (q < s <=> t < s * Res)
  <2>1. ASSUME q < s PROVE q * Res + Res <= s * Res
    <3>1. (q + 1) * Res <= s * Res
      BY <1>1, <1>4, <2>1, SMTT(60)
    <3>2. (q + 1) * Res = q * Res + Res
      BY <1>1, <1>4
    <3>3. QED
      BY <3>1, <3>2
  <2>2. ASSUME s <= q PROVE s * Res <= q * Res
    BY <1>1, <1>4, <2>2, SMTT(60)
  <2>3. q * Res \in Int /\ s * Res \in Int
    BY <1>1, <1>4
  <2>4. QED
    BY <1>1, <1>4, <2>1, <2>2, <2>3
<1>5. Unix(t) < s <=> t < s * Res
  BY <1>2, <1>3, <1>4
<1>6. s * Res \in Int
  BY <1>1
<1>7. QED
  BY <1>2, <1>5, <1>6

-----------------------------------------------------------------------------

\* Every token an issuer mints, faulty or not.
Mintable == [typ: {"opaque", "workload+jwt"}, members: {Verifier!workloadClaimsMembers}, shaped: BOOLEAN,
             principal: {"workload"}, iss: {"other", Issuer}, aud: {Audience}, scope: {""}, kid: Kid, signer: Kid,
             iat: Int, nbf: Int, exp: Int]

ExchangeRecord == [pc: {"idle", "validate", "resolve", "issue", "return", "answer"}, sent: Int, requested: SUBSET Scope,
                   subject: Nat, granted: SUBSET Scope, scope: SUBSET Scope, token: Mintable \cup {NoToken},
                   iat: Int, exp: Int, dated: BOOLEAN, expiresIn: 0..Ceiling]

EntryRecord == [token: Mintable \cup {NoToken}, sent: Int, life: 0..Ceiling, cap: Nat]

TripRecord == [pc: {"idle", "wire"}, token: Mintable \cup {NoToken}, at: Int, cap: Nat,
               verdict: Verifier!Reasons \cup {"none", "accepted", "unavailable"}]

Types ==
    /\ now \in 0..MaxNow /\ offset \in Offsets /\ changes \in 0..MaxChanges
    /\ subject \in [exp: Nat, live: BOOLEAN]
    /\ grant \subseteq Scope /\ ring \subseteq Kid /\ signing \in Kid
    /\ x \in ExchangeRecord /\ entry \in EntryRecord /\ trip \in TripRecord

\* A token an issuer signed for a subject that ends at cap.
Signed(tok, cap) == tok \in Mintable /\ tok.signer = tok.kid /\ tok.exp <= cap

\* An exchange carries the scope asked for and, once a token is minted, one
\* that ends with the subject; an answer promises what is left of it.
ExchangeOK ==
    /\ x.pc \in {"issue", "return", "answer"} =>
          /\ x.scope # {} /\ x.scope \subseteq x.granted
          /\ x.scope = IF x.requested = {} THEN x.granted ELSE x.requested
    /\ x.pc \in {"return", "answer"} => Signed(x.token, x.subject) /\ x.iat <= ExchangeClock
    /\ x.pc = "answer" => /\ x.expiresIn * Res <= x.exp - x.iat
                          /\ x.token.typ # "opaque" =>
                                x.token.iat < x.token.exp /\ x.token.exp - x.token.iat <= Ceiling

EntryOK == entry = NoEntry \/ (Signed(entry.token, entry.cap) /\ entry.life # 0)

\* A request on the wire carries a token that was inside its window, with the
\* margin to spare, when it was sent.
TripOK ==
    trip.pc = "wire" =>
        /\ Signed(trip.token, trip.cap)
        /\ workloadTokenShape(trip.token) /\ tokenClaims(trip.token)
        /\ trip.token.nbf * Res <= trip.at /\ trip.at + Margin < trip.token.exp * Res

\* The inductive invariant.
IInv == Types /\ ExchangeOK /\ EntryOK /\ TripOK

-----------------------------------------------------------------------------

\* The empty records are records.
LEMMA Nothing == NoExchange \in ExchangeRecord /\ NoEntry \in EntryRecord /\ NoTrip \in TripRecord
<1>1. 0 \in 0..Ceiling /\ 0 \in Nat /\ 0 \in Int
  BY FlowAssumption
<1>2. QED
  BY <1>1 DEF NoExchange, ExchangeRecord, NoEntry, EntryRecord, NoTrip, TripRecord

\* The clocks are numbers.
LEMMA Clocks ==
    ASSUME Types
    PROVE  now \in Int /\ ExchangeClock \in Int /\ ResourceClock \in Int
BY FlowAssumption DEF Types, ExchangeClock, ResourceClock

\* What a read of the cached answer leaves of it: nothing, or an answer that
\* is inside its window with the margin to spare.
LEMMA Reading ==
    ASSUME IInv
    PROVE  /\ Kept \in EntryRecord
           /\ Kept = NoEntry \/ (Signed(Kept.token, Kept.cap) /\ Kept.life # 0)
           /\ Kept # NoEntry =>
                 /\ Kept = entry /\ Signed(entry.token, entry.cap)
                 /\ workloadTokenShape(entry.token) /\ tokenClaims(entry.token)
                 /\ entry.token.nbf * Res <= now /\ now + Margin < entry.token.exp * Res
<1>1. /\ Kept \in EntryRecord
      /\ Kept = NoEntry \/ (Kept = entry /\ Signed(entry.token, entry.cap) /\ entry.life # 0 /\ checkToken(entry, now))
  BY Nothing DEF Kept, IInv, Types, EntryOK
<1>2. ASSUME Signed(entry.token, entry.cap), checkToken(entry, now)
      PROVE  now + Margin < entry.token.exp * Res
  <2>1. /\ now \in Int /\ entry.sent \in Int /\ entry.life \in Int /\ entry.token.exp \in Int
        /\ Res \in Int /\ Margin \in Int
    <3>1. entry \in EntryRecord /\ entry.token \in Mintable /\ now \in Int
      BY <1>2, Clocks DEF IInv, Types, Signed
    <3>2. entry.sent \in Int /\ entry.life \in 0..Ceiling
      BY <3>1 DEF EntryRecord
    <3>3. entry.token.exp \in Int
      BY <3>1, ZenonT(30) DEF Mintable
    <3>4. QED
      BY <3>1, <3>2, <3>3, FlowAssumption
  <2>2. entry.sent + entry.life * Res \in Int /\ entry.token.exp * Res \in Int
    BY <2>1
  <2>3. now < Least(entry.sent + entry.life * Res, entry.token.exp * Res) - Margin
    BY <1>2 DEF checkToken, usableUntil
  <2>4. QED
    BY <2>1, <2>2, <2>3 DEF Least
<1>3. QED
  BY <1>1, <1>2 DEF checkToken

-----------------------------------------------------------------------------
(* The steps.                                                              *)

\* Validate, Resolve or a failure leaves the exchange without a token.
LEMMA Ahead ==
    ASSUME IInv, UNCHANGED <<now, offset, subject, grant, ring, signing, entry, trip, changes>>,
           x' \in ExchangeRecord, x'.pc \notin {"return", "answer"},
           x'.pc = "issue" => /\ x'.scope # {} /\ x'.scope \subseteq x'.granted
                             /\ x'.scope = IF x'.requested = {} THEN x'.granted ELSE x'.requested
    PROVE  IInv'
<1>1. Types'
  BY DEF IInv, Types
<1>2. ExchangeOK'
  BY DEF ExchangeOK
<1>3. EntryOK' /\ TripOK'
  BY DEF IInv, EntryOK, TripOK, Signed, workloadTokenShape, tokenClaims
<1>4. QED
  BY <1>1, <1>2, <1>3 DEF IInv

LEMMA SendStep == ASSUME IInv, Send PROVE IInv'
<1>1. PICK req \in Request :
        x' = [NoExchange EXCEPT !.pc = "validate", !.sent = now, !.requested = req, !.subject = subject.exp]
  BY ZenonT(30) DEF Send
<1>2. req \in SUBSET Scope /\ now \in Int /\ subject.exp \in Nat
  BY Clocks, FlowAssumption DEF IInv, Types
<1>3. x' \in ExchangeRecord /\ x'.pc = "validate"
  BY <1>1, <1>2, Nothing, ZenonT(30) DEF ExchangeRecord
<1>4. QED
  BY <1>3, Ahead DEF Send

LEMMA ValidateStep == ASSUME IInv, Validate PROVE IInv'
<1>1. x \in ExchangeRecord /\ NoExchange \in ExchangeRecord /\ NoExchange.pc = "idle"
  BY Nothing DEF IInv, Types, NoExchange
<1>2. x' = [x EXCEPT !.pc = "resolve"] \/ x' = NoExchange
  BY DEF Validate
<1>3. x' \in ExchangeRecord /\ x'.pc \in {"resolve", "idle"}
  BY <1>1, <1>2 DEF ExchangeRecord
<1>4. QED
  BY <1>3, Ahead DEF Validate

LEMMA ResolveStep == ASSUME IInv, Resolve PROVE IInv'
<1> DEFINE scope == ResolveRequestedScope(grant, x.requested)
<1>1. x \in ExchangeRecord /\ NoExchange \in ExchangeRecord /\ NoExchange.pc = "idle" /\ grant \in SUBSET Scope
  BY Nothing DEF IInv, Types, NoExchange
<1>2. x.requested \in SUBSET Scope
  BY <1>1 DEF ExchangeRecord
<1>3. CASE scope = {}
  <2>1. x' = NoExchange
    BY <1>3 DEF Resolve
  <2>2. QED
    BY <1>1, <2>1, Ahead, ZenonT(30) DEF Resolve
<1>4. CASE scope # {}
  <2>1. x' = [x EXCEPT !.pc = "issue", !.granted = grant, !.scope = scope]
    BY <1>4 DEF Resolve
  <2>2. scope \in SUBSET Scope /\ scope \subseteq grant /\ scope = IF x.requested = {} THEN grant ELSE x.requested
    BY <1>1, <1>2, <1>4 DEF ResolveRequestedScope
  <2> HIDE DEF scope
  <2>3. x' \in ExchangeRecord /\ x'.pc = "issue" /\ x'.scope = scope /\ x'.granted = grant /\ x'.requested = x.requested
    BY <1>1, <2>1, <2>2, ZenonT(30) DEF ExchangeRecord
  <2>4. QED
    BY <1>4, <2>2, <2>3, Ahead DEF Resolve
<1>5. QED
  BY <1>3, <1>4

\* Whatever the issuer does wrong, the token it signs ends with the subject.
LEMMA IssueStep == ASSUME IInv, Issue PROVE IInv'
<1> DEFINE Ends(fault) == Least(ExchangeClock + (IF fault = "long" THEN Ceiling + 1 ELSE Ceiling) * Res, x.subject * Res)
<1>1. PICK fault \in Fault :
        x' = [x EXCEPT !.pc = "return", !.iat = ExchangeClock, !.dated = (fault # "undated"),
                       !.exp = IF fault = "mismatch" THEN Ends(fault) + Res ELSE Ends(fault),
                       !.token = Minted(fault, Unix(ExchangeClock), Unix(Ends(fault)))]
  BY ZenonT(30) DEF Issue
<1> DEFINE ends == Ends(fault)
           tok == Minted(fault, Unix(ExchangeClock), Unix(ends))
           exp == IF fault = "mismatch" THEN ends + Res ELSE ends
<1>2. /\ x \in ExchangeRecord /\ ExchangeClock \in Int /\ Res \in Nat /\ Res > 0 /\ Ceiling \in Nat /\ signing \in Kid
      /\ x.pc = "issue"
  BY Clocks, FlowAssumption DEF IInv, Types, Issue
<1>3. x.subject \in Nat
  BY <1>2 DEF ExchangeRecord
<1>4. ends \in Int /\ ends <= x.subject * Res
  <2>1. (IF fault = "long" THEN Ceiling + 1 ELSE Ceiling) \in Int
    BY <1>2
  <2>2. ExchangeClock + (IF fault = "long" THEN Ceiling + 1 ELSE Ceiling) * Res \in Int /\ x.subject * Res \in Int
    BY <1>2, <1>3, <2>1
  <2>3. QED
    BY <2>2 DEF Least
<1> HIDE DEF Ends
<1>5. Unix(ends) \in Int /\ Unix(ends) <= x.subject
  <2>1. x.subject + 1 \in Int /\ (x.subject + 1) * Res = x.subject * Res + Res /\ x.subject * Res \in Int
    BY <1>2, <1>3
  <2>2. ends < (x.subject + 1) * Res
    BY <1>2, <1>4, <2>1
  <2>3. Unix(ends) < x.subject + 1 /\ Unix(ends) \in Int
    BY <1>4, <2>1, <2>2, Seconds
  <2>4. QED
    BY <1>3, <2>3
<1>6. Unix(ExchangeClock) \in Int /\ Unix(ExchangeClock) - 1 \in Int
  BY <1>2, Seconds
<1>7. tok \in Mintable /\ tok.signer = tok.kid /\ tok.exp = Unix(ends)
  BY <1>2, <1>5, <1>6 DEF Minted, Mintable
<1>8. exp \in Int
  BY <1>2, <1>4
<1>9. Signed(tok, x.subject)
  BY <1>5, <1>7 DEF Signed
<1> HIDE DEF ends, tok, exp
<1>10. x' = [x EXCEPT !.pc = "return", !.iat = ExchangeClock, !.dated = (fault # "undated"), !.exp = exp, !.token = tok]
  BY <1>1 DEF ends, tok, exp
<1>11. /\ x' \in ExchangeRecord /\ x'.pc = "return" /\ x'.token = tok /\ x'.subject = x.subject /\ x'.iat = ExchangeClock
       /\ x'.scope = x.scope /\ x'.granted = x.granted /\ x'.requested = x.requested
  BY <1>2, <1>7, <1>8, <1>10, ZenonT(30) DEF ExchangeRecord
<1>12. UNCHANGED <<now, offset, subject, grant, ring, signing, entry, trip, changes>>
  BY DEF Issue
<1>13. Types'
  BY <1>11, <1>12 DEF IInv, Types
<1>14. EntryOK' /\ TripOK'
  BY <1>12 DEF IInv, EntryOK, TripOK, Signed, workloadTokenShape, tokenClaims
<1>15. ExchangeOK'
  <2>1. Signed(x.token, x.subject)' /\ x'.iat <= ExchangeClock'
    BY <1>2, <1>9, <1>11, <1>12 DEF Signed, ExchangeClock
  <2>2. QED
    BY <1>2, <1>11, <2>1 DEF IInv, ExchangeOK
<1>16. QED
  BY <1>13, <1>14, <1>15 DEF IInv

\* A lifetime that passed is held to the ceiling, also in ticks.
LEMMA Lifetime ==
    ASSUME IInv, x.pc = "return", checkIssuedLifetime(x)
    PROVE  /\ x.exp - x.iat < (Ceiling + 1) * Res /\ x.iat < x.exp
           /\ x.token.typ # "opaque" => x.token.iat < x.token.exp /\ x.token.exp - x.token.iat <= Ceiling
<1>1. x \in ExchangeRecord /\ x.token \in Mintable /\ Res \in Nat /\ Res > 0 /\ Ceiling \in Nat
  BY FlowAssumption DEF IInv, Types, ExchangeOK, Signed
<1>2. x.iat \in Int /\ x.exp \in Int /\ x.token.iat \in Int /\ x.token.exp \in Int
  BY <1>1, ZenonT(30) DEF ExchangeRecord, Mintable
<1>3. (Ceiling + 1) * Res = Ceiling * Res + Res /\ Ceiling * Res \in Int
  BY <1>1
<1>4. CASE x.token.typ = "opaque"
  BY <1>1, <1>2, <1>3, <1>4 DEF checkIssuedLifetime
<1>5. CASE x.token.typ # "opaque"
  <2>1. /\ x.token.exp - x.token.iat <= Ceiling /\ x.token.iat = Unix(x.iat) /\ x.token.exp = Unix(x.exp)
        /\ x.iat < x.exp /\ x.token.iat < x.token.exp
    BY <1>5 DEF checkIssuedLifetime
  <2> DEFINE a == Unix(x.iat)
             b == Unix(x.exp)
  <2>2. a \in Int /\ b \in Int /\ b + 1 \in Int /\ a * Res \in Int
    BY <1>1, <1>2, Seconds
  <2>3. a * Res <= x.iat /\ x.exp < (b + 1) * Res
    BY <1>2, <2>2, Seconds
  <2>4. b + 1 <= a + Ceiling + 1
    BY <2>1, <2>2, <1>1
  <2> HIDE DEF a, b
  <2>5. (b + 1) * Res <= (a + Ceiling + 1) * Res
    BY <1>1, <2>2, <2>4, SMTT(60)
  <2>6. (a + Ceiling + 1) * Res = a * Res + (Ceiling + 1) * Res /\ (b + 1) * Res \in Int /\ (Ceiling + 1) * Res \in Int
    BY <1>1, <2>2
  <2>7. x.exp - x.iat < (Ceiling + 1) * Res
    BY <1>2, <2>2, <2>3, <2>5, <2>6
  <2>8. QED
    BY <2>1, <2>7
<1>6. QED
  BY <1>4, <1>5

LEMMA ReturnStep == ASSUME IInv, Return PROVE IInv'
<1>1. x \in ExchangeRecord /\ NoExchange \in ExchangeRecord /\ NoExchange.pc = "idle" /\ x.pc = "return"
  BY Nothing DEF IInv, Types, NoExchange, Return
<1>2. CASE ~checkIssuedLifetime(x)
  <2>1. x' = NoExchange
    BY <1>2 DEF Return
  <2>2. QED
    BY <1>1, <2>1, Ahead, ZenonT(30) DEF Return
<1>3. CASE checkIssuedLifetime(x)
  <2> DEFINE left == IF x.exp > ExchangeClock THEN Unix(x.exp - ExchangeClock) ELSE 0
  <2>1. x' = [x EXCEPT !.pc = "answer", !.expiresIn = left]
    BY <1>3 DEF Return
  <2>2. /\ x.exp - x.iat < (Ceiling + 1) * Res /\ x.iat < x.exp
        /\ x.token.typ # "opaque" => x.token.iat < x.token.exp /\ x.token.exp - x.token.iat <= Ceiling
    BY <1>1, <1>3, Lifetime
  <2>3. /\ x.iat \in Int /\ x.exp \in Int /\ ExchangeClock \in Int /\ x.iat <= ExchangeClock
        /\ Res \in Nat /\ Res > 0 /\ Ceiling \in Nat
    <3>1. x.iat \in Int /\ x.exp \in Int
      BY <1>1 DEF ExchangeRecord
    <3>2. QED
      BY <1>1, <3>1, Clocks, FlowAssumption DEF IInv, ExchangeOK
  <2>4. left \in 0..Ceiling /\ left * Res <= x.exp - x.iat
    <3>1. CASE x.exp > ExchangeClock
      <4> DEFINE d == x.exp - ExchangeClock
      <4>1. d \in Int /\ 0 * Res <= d /\ d <= x.exp - x.iat /\ Ceiling + 1 \in Int /\ (Ceiling + 1) * Res \in Int /\ 0 \in Int
        BY <2>3, <3>1
      <4>2. d < (Ceiling + 1) * Res
        BY <2>2, <2>3, <4>1
      <4> HIDE DEF d
      <4>3. Unix(d) \in Int /\ Unix(d) < Ceiling + 1 /\ 0 <= Unix(d)
        BY <4>1, <4>2, Seconds
      <4>4. Unix(d) * Res <= d
        BY <4>1, <4>3, Seconds
      <4>5. Unix(d) \in 0..Ceiling /\ Unix(d) * Res \in Int
        BY <2>3, <4>3
      <4>6. left = Unix(d)
        BY <3>1 DEF d
      <4>7. QED
        BY <2>3, <4>1, <4>4, <4>5, <4>6
    <3>2. CASE ~(x.exp > ExchangeClock)
      BY <2>2, <2>3, <3>2
    <3>3. QED
      BY <3>1, <3>2
  <2> HIDE DEF left
  <2>5. /\ x' \in ExchangeRecord /\ x'.pc = "answer" /\ x'.expiresIn = left /\ x'.token = x.token /\ x'.subject = x.subject
        /\ x'.iat = x.iat /\ x'.exp = x.exp /\ x'.scope = x.scope /\ x'.granted = x.granted /\ x'.requested = x.requested
    BY <1>1, <2>1, <2>4, ZenonT(30) DEF ExchangeRecord
  <2>6. UNCHANGED <<now, offset, subject, grant, ring, signing, entry, trip, changes>>
    BY DEF Return
  <2>7. Types'
    BY <2>5, <2>6 DEF IInv, Types
  <2>8. EntryOK' /\ TripOK'
    BY <2>6 DEF IInv, EntryOK, TripOK, Signed, workloadTokenShape, tokenClaims
  <2>9. ExchangeOK'
    <3>1. Signed(x.token, x.subject)' /\ x'.iat <= ExchangeClock'
      BY <1>1, <2>5, <2>6 DEF IInv, ExchangeOK, Signed, ExchangeClock
    <3>2. QED
      BY <1>1, <2>2, <2>4, <2>5, <3>1 DEF IInv, ExchangeOK
  <2>10. QED
    BY <2>7, <2>8, <2>9 DEF IInv
<1>4. QED
  BY <1>2, <1>3

LEMMA AbandonStep == ASSUME IInv, Abandon PROVE IInv'
<1>1. x' \in ExchangeRecord /\ x'.pc = "idle"
  BY Nothing DEF Abandon, NoExchange
<1>2. QED
  BY <1>1, Ahead DEF Abandon

LEMMA ReceiveStep == ASSUME IInv, Receive PROVE IInv'
<1> DEFINE e == [token |-> x.token, sent |-> x.sent, life |-> x.expiresIn, cap |-> x.subject]
<1>1. x.pc = "answer" /\ x' = NoExchange /\ UNCHANGED <<now, offset, subject, grant, ring, signing, trip, changes>>
  BY DEF Receive
<1>2. entry' = Kept \/ (entry' = e /\ x.expiresIn \in 1..Ceiling)
  BY DEF Receive
<1>3. x \in ExchangeRecord /\ Signed(x.token, x.subject)
  BY <1>1 DEF IInv, Types, ExchangeOK
<1>4. e \in EntryRecord
  BY <1>3 DEF ExchangeRecord, EntryRecord
<1>5. Kept \in EntryRecord /\ (Kept = NoEntry \/ (Signed(Kept.token, Kept.cap) /\ Kept.life # 0))
  BY Reading
<1>6. entry' \in EntryRecord /\ EntryOK'
  <2>1. CASE entry' = Kept
    BY <1>5, <2>1 DEF EntryOK, Signed
  <2>2. CASE entry' = e /\ x.expiresIn \in 1..Ceiling
    BY <1>3, <1>4, <2>2 DEF EntryOK, Signed
  <2>3. QED
    BY <1>2, <2>1, <2>2
<1>7. x' \in ExchangeRecord /\ x'.pc = "idle"
  BY <1>1, Nothing DEF NoExchange
<1>8. Types'
  BY <1>1, <1>6, <1>7 DEF IInv, Types
<1>9. ExchangeOK' /\ TripOK'
  BY <1>1, <1>7 DEF IInv, ExchangeOK, TripOK, Signed, workloadTokenShape, tokenClaims
<1>10. QED
  BY <1>6, <1>8, <1>9 DEF IInv

LEMMA RoundTripStep == ASSUME IInv, RoundTrip PROVE IInv'
<1>1. entry' = Kept /\ UNCHANGED <<now, offset, subject, grant, ring, signing, x, changes>>
  BY DEF RoundTrip
<1>2. Kept \in EntryRecord /\ (Kept = NoEntry \/ (Signed(Kept.token, Kept.cap) /\ Kept.life # 0))
  BY Reading
<1>3. EntryOK' /\ entry' \in EntryRecord
  BY <1>1, <1>2 DEF EntryOK, Signed
<1>4. ExchangeOK'
  BY <1>1 DEF IInv, ExchangeOK, Signed, ExchangeClock
<1>5. trip' \in TripRecord /\ TripOK'
  <2>1. CASE Kept = NoEntry
    BY <2>1, Nothing DEF RoundTrip, TripOK, NoTrip
  <2>2. CASE Kept # NoEntry
    <3>1. /\ Signed(entry.token, entry.cap) /\ workloadTokenShape(entry.token) /\ tokenClaims(entry.token)
          /\ entry.token.nbf * Res <= now /\ now + Margin < entry.token.exp * Res
      BY <2>2, Reading
    <3>2. trip' = [NoTrip EXCEPT !.pc = "wire", !.token = entry.token, !.at = now, !.cap = entry.cap]
      BY <2>2 DEF RoundTrip
    <3>3. entry.token \in Mintable /\ now \in Int /\ entry.cap \in Nat
      BY <3>1, Clocks DEF Signed, IInv, Types, EntryRecord
    <3>4. trip' \in TripRecord /\ trip'.token = entry.token /\ trip'.at = now /\ trip'.cap = entry.cap
      BY <3>2, <3>3, Nothing, ZenonT(30) DEF TripRecord
    <3>5. QED
      BY <3>1, <3>4 DEF TripOK, Signed, workloadTokenShape, tokenClaims
  <2>3. QED
    BY <2>1, <2>2
<1>6. Types'
  BY <1>1, <1>3, <1>5 DEF IInv, Types
<1>7. QED
  BY <1>3, <1>4, <1>5, <1>6 DEF IInv

\* The resource's verdict on a request: an acceptance is before the end of the
\* token, and a request in its window whose key is held is accepted.
LEMMA Verdict ==
    ASSUME IInv, trip.pc = "wire"
    PROVE  LET d == Verifier!Decide("workload", trip.token, ResourceClock) IN
           /\ d \in Verifier!Reasons \cup {"accepted", "unavailable"}
           /\ d = "accepted" => Unix(ResourceClock) - Leeway < trip.token.exp
           /\ /\ trip.token.kid \in ring
              /\ trip.token.nbf <= Unix(ResourceClock) + Leeway
              /\ Unix(ResourceClock) - Leeway < trip.token.exp
              => d = "accepted"
<1> DEFINE tok == trip.token
           t == Unix(ResourceClock)
           w == Verifier!inWindow(tok, ResourceClock)
<1>1. /\ tok \in Mintable /\ tok.signer = tok.kid /\ workloadTokenShape(tok) /\ tokenClaims(tok)
      /\ tok.nbf * Res <= trip.at /\ trip.at + Margin < tok.exp * Res
  BY DEF IInv, TripOK, Signed
<1>2. t \in Int /\ Leeway \in Nat /\ tok.nbf \in Int /\ tok.exp \in Int /\ tok.iat \in Int
  BY <1>1, Clocks, Seconds, FlowAssumption, ZenonT(30) DEF IInv, Mintable
<1>3. tok.nbf < tok.exp
  <2>1. trip.at \in Int /\ Margin \in Nat /\ Res \in Nat /\ Res > 0
    BY FlowAssumption DEF IInv, Types, TripRecord
  <2>2. tok.nbf * Res \in Int /\ tok.exp * Res \in Int
    BY <1>2, <2>1
  <2>3. tok.nbf * Res < tok.exp * Res
    BY <1>1, <2>1, <2>2
  <2>4. Unix(tok.nbf * Res) < tok.exp /\ tok.nbf <= Unix(tok.nbf * Res) /\ Unix(tok.nbf * Res) \in Int
    BY <1>2, <2>2, <2>3, Seconds
  <2>5. QED
    BY <1>2, <2>4
<1>4. Verifier!Unix(ResourceClock) = t
  BY DEF Verifier!Unix, Unix
<1>5. /\ w \in {"accepted", "not_yet_valid", "expired"}
      /\ w = "accepted" => t - Leeway < tok.exp
      /\ tok.nbf <= t + Leeway /\ t - Leeway < tok.exp => w = "accepted"
  BY <1>2, <1>4 DEF Verifier!inWindow
<1>6. Verifier!Conforms("workload", tok)
  <2>1. Verifier!parseHeader("workload", tok)
    BY <1>1 DEF Verifier!parseHeader, Verifier!parseWorkloadHeader, Verifier!typOf, workloadTokenShape
  <2>2. Verifier!datesFit(tok, Ceiling)
    BY <1>1, <1>3 DEF Verifier!datesFit, tokenClaims
  <2>3. Verifier!closedSet(tok.members, Verifier!workloadClaimsMembers, Verifier!workloadClaimsMembers)
    BY <1>1 DEF Verifier!closedSet, tokenClaims
  <2>4. tok.aud \in Verifier!workloadAudiences /\ tok.principal = "workload" /\ tok.shaped
    BY <1>1 DEF Verifier!workloadAudiences, tokenClaims, workloadTokenShape, Audience
  <2>5. Verifier!parseWorkloadClaims(tok)
    BY <2>2, <2>3, <2>4 DEF Verifier!parseWorkloadClaims
  <2>6. QED
    BY <2>1, <2>5 DEF Verifier!Conforms, Verifier!parseClaims
<1>7. ring # Verifier!Unreadable
  BY FlowAssumption DEF IInv, Types, Verifier!Unreadable
<1>8. Verifier!lookupKey(tok.kid) = IF tok.kid \in ring THEN "known" ELSE "unknown"
  BY <1>7 DEF Verifier!lookupKey
<1>9. tok.iss = Verifier!Issuer /\ tok.aud = Verifier!Audience
  BY <1>1 DEF tokenClaims, Issuer, Audience, Verifier!Issuer, Verifier!Audience
<1> HIDE DEF tok, w
<1>10. Verifier!Decide("workload", tok, ResourceClock) = IF tok.kid \in ring THEN w ELSE "unknown_kid"
  <2>1. CASE tok.kid \in ring
    BY <1>1, <1>6, <1>8, <1>9, <2>1 DEF Verifier!Decide, w
  <2>2. CASE tok.kid \notin ring
    BY <1>6, <1>8, <2>2 DEF Verifier!Decide
  <2>3. QED
    BY <2>1, <2>2
<1>11. w \in Verifier!Reasons \cup {"accepted", "unavailable"} /\ "unknown_kid" \in Verifier!Reasons
  BY <1>5 DEF Verifier!Reasons
<1>12. QED
  BY <1>5, <1>10, <1>11 DEF tok

LEMMA VerifyStep == ASSUME IInv, Verify PROVE IInv'
<1> DEFINE d == Verifier!Decide("workload", trip.token, ResourceClock)
<1>1. trip.pc = "wire" /\ trip' = [NoTrip EXCEPT !.verdict = d]
  BY DEF Verify
<1>2. d \in Verifier!Reasons \cup {"none", "accepted", "unavailable"}
  BY <1>1, Verdict
<1> HIDE DEF d
<1>3. trip' \in TripRecord /\ trip'.pc = "idle"
  BY <1>1, <1>2, Nothing DEF TripRecord, NoTrip
<1>4. UNCHANGED <<now, offset, subject, grant, ring, signing, x, entry, changes>>
  BY DEF Verify
<1>5. Types'
  BY <1>3, <1>4 DEF IInv, Types
<1>6. ExchangeOK' /\ EntryOK' /\ TripOK'
  BY <1>3, <1>4 DEF IInv, ExchangeOK, EntryOK, TripOK, Signed, ExchangeClock
<1>7. QED
  BY <1>5, <1>6 DEF IInv

LEMMA TickStep == ASSUME IInv, Tick PROVE IInv'
<1>1. now' = now + 1 /\ now < MaxNow /\ UNCHANGED <<offset, subject, grant, ring, signing, x, entry, trip, changes>>
  BY DEF Tick
<1>2. now' \in 0..MaxNow
  BY <1>1, FlowAssumption DEF IInv, Types
<1>3. Types'
  BY <1>1, <1>2 DEF IInv, Types
<1>4. ExchangeClock' = ExchangeClock + 1 /\ ExchangeClock \in Int
  BY <1>1, Clocks, FlowAssumption DEF IInv, Types, ExchangeClock
<1>5. x.iat \in Int
  BY DEF IInv, Types, ExchangeRecord
<1>6. ExchangeOK'
  BY <1>1, <1>4, <1>5 DEF IInv, ExchangeOK, Signed
<1>7. EntryOK' /\ TripOK'
  BY <1>1 DEF IInv, EntryOK, TripOK, Signed, workloadTokenShape, tokenClaims
<1>8. QED
  BY <1>3, <1>6, <1>7 DEF IInv

LEMMA WorldStep == ASSUME IInv, World PROVE IInv'
<1>1. UNCHANGED <<now, offset, x, entry, trip>> /\ changes' \in 0..MaxChanges
  BY FlowAssumption DEF World, IInv, Types
<1>2. subject' \in [exp: Nat, live: BOOLEAN]
  <2>1. Unix(now) \in Int /\ 0 <= Unix(now)
    <3>1. 0 * Res <= now /\ now \in Int
      BY FlowAssumption DEF IInv, Types
    <3>2. QED
      BY <3>1, Seconds
  <2>2. Unix(now) + SubjectLife \in Nat
    BY <2>1, FlowAssumption
  <2>3. QED
    BY <2>2, ZenonT(30) DEF World, IInv, Types
<1>3. grant' \subseteq Scope /\ ring' \subseteq Kid /\ signing' \in Kid
  BY DEF World, IInv, Types
<1>4. Types'
  BY <1>1, <1>2, <1>3 DEF IInv, Types
<1>5. ExchangeOK' /\ EntryOK' /\ TripOK'
  BY <1>1 DEF IInv, ExchangeOK, EntryOK, TripOK, Signed, ExchangeClock, workloadTokenShape, tokenClaims
<1>6. QED
  BY <1>4, <1>5 DEF IInv

\* IInv is inductive.
LEMMA Inductive == Spec => []IInv
<1>1. Init => IInv
  <2> SUFFICES ASSUME Init PROVE IInv
    OBVIOUS
  <2>1. Types
    BY Nothing, FlowAssumption DEF Init, Types
  <2>2. ExchangeOK /\ EntryOK /\ TripOK
    BY DEF Init, ExchangeOK, EntryOK, TripOK, NoExchange, NoTrip
  <2>3. QED
    BY <2>1, <2>2 DEF IInv
<1>2. IInv /\ [Next]_vars => IInv'
  <2> SUFFICES ASSUME IInv, [Next]_vars PROVE IInv'
    OBVIOUS
  <2>1. CASE UNCHANGED vars
    BY <2>1 DEF vars, IInv, Types, ExchangeOK, EntryOK, TripOK, Signed, ExchangeClock, workloadTokenShape, tokenClaims
  <2>2. QED
    BY <2>1, SendStep, ValidateStep, ResolveStep, IssueStep, ReturnStep, AbandonStep, ReceiveStep,
       RoundTripStep, VerifyStep, TickStep, WorldStep DEF Next
<1>3. QED
  BY <1>1, <1>2, PTL DEF Spec

-----------------------------------------------------------------------------

\* What Exchange answers is what was asked for, within the grant and the ceiling,
\* whatever the issuer did wrong (ResolveRequestedScope, checkIssuedLifetime).
THEOREM AsAsked == Spec => []AnswerAsAsked
<1>1. IInv => AnswerAsAsked
  <2> SUFFICES ASSUME IInv PROVE AnswerAsAsked
    OBVIOUS
  <2>1. x.expiresIn \in 0..Ceiling /\ x.scope \subseteq Scope /\ x.pc \in {"idle", "validate", "resolve", "issue", "return", "answer"}
    BY DEF IInv, Types, ExchangeRecord
  <2>2. entry = NoEntry \/ entry.life \in 1..Ceiling
    <3>1. entry.life \in 0..Ceiling /\ Ceiling \in Nat
      BY FlowAssumption DEF IInv, Types, EntryRecord
    <3>2. QED
      BY <3>1 DEF IInv, EntryOK
  <2>3. /\ trip.pc \in {"idle", "wire"} /\ subject.exp \in Nat /\ subject.live \in BOOLEAN
        /\ trip.verdict \in Verifier!Reasons \cup {"none", "accepted", "unavailable"}
    BY DEF IInv, Types, TripRecord
  <2>4. TypeOK
    BY <2>1, <2>2, <2>3 DEF TypeOK, IInv, Types
  <2>5. QED
    BY <2>4 DEF AnswerAsAsked, IInv, ExchangeOK
<1>2. QED
  BY <1>1, Inductive, PTL

\* A workload acts no longer than its subject token lets it: no accepted request
\* comes after the end of the subject it was exchanged for (Exchange's cap).
THEOREM EndsWithSubject == Spec => AuthorityEndsWithSubject
<1>1. ASSUME IInv, Verify, trip'.verdict = "accepted" PROVE ResourceClock < (trip.cap + Leeway) * Res
  <2>1. trip.pc = "wire" /\ trip'.verdict = Verifier!Decide("workload", trip.token, ResourceClock)
    BY <1>1 DEF Verify, NoTrip
  <2>2. Unix(ResourceClock) - Leeway < trip.token.exp
    BY <1>1, <2>1, Verdict
  <2>3. trip.token \in Mintable /\ trip.token.exp <= trip.cap /\ trip.cap \in Nat
    BY <1>1, <2>1 DEF IInv, Types, TripRecord, TripOK, Signed
  <2>4. ResourceClock \in Int /\ Unix(ResourceClock) \in Int /\ Leeway \in Nat /\ trip.token.exp \in Int
    BY <1>1, <2>3, Clocks, Seconds, FlowAssumption, ZenonT(30) DEF IInv, Mintable
  <2>5. trip.cap + Leeway \in Int /\ Unix(ResourceClock) < trip.cap + Leeway
    BY <2>2, <2>3, <2>4
  <2>6. QED
    BY <2>4, <2>5, Seconds
<1>2. IInv /\ [Next]_vars => [trip'.verdict = "accepted" /\ Verify => ResourceClock < (trip.cap + Leeway) * Res]_vars
  BY <1>1
<1>3. QED
  BY <1>2, Inductive, PTL DEF Spec, AuthorityEndsWithSubject

\* The client's check of an answer is strict enough: what the transport sends is
\* accepted while the clocks agree within the leeway and the margin (checkToken).
THEOREM Accepted == Spec => SentIsAccepted
<1>1. ASSUME IInv, Verify, trip.token.kid \in ring, trip.at - Leeway * Res <= ResourceClock,
             ResourceClock <= trip.at + Margin + Leeway * Res
      PROVE  trip'.verdict = "accepted"
  <2>1. trip.pc = "wire" /\ trip'.verdict = Verifier!Decide("workload", trip.token, ResourceClock)
    BY <1>1 DEF Verify, NoTrip
  <2>2. trip.token \in Mintable /\ trip.at \in Int /\ trip.token.nbf * Res <= trip.at /\ trip.at + Margin < trip.token.exp * Res
    BY <1>1, <2>1 DEF IInv, Types, TripRecord, TripOK, Signed
  <2> DEFINE nbf == trip.token.nbf
             exp == trip.token.exp
             rc == ResourceClock
  <2>3. rc \in Int /\ Unix(rc) \in Int /\ Leeway \in Nat /\ Margin \in Nat /\ Res \in Nat /\ nbf \in Int /\ exp \in Int
    BY <1>1, <2>2, Clocks, Seconds, FlowAssumption, ZenonT(30) DEF IInv, Mintable
  <2> HIDE DEF nbf, exp, rc
  <2>4. (nbf - Leeway) * Res = nbf * Res - Leeway * Res /\ (exp + Leeway) * Res = exp * Res + Leeway * Res
    BY <2>3
  <2>5. nbf * Res \in Int /\ exp * Res \in Int /\ Leeway * Res \in Int /\ nbf - Leeway \in Int /\ exp + Leeway \in Int
    BY <2>3
  <2>6. (nbf - Leeway) * Res <= rc /\ rc < (exp + Leeway) * Res
    BY <1>1, <2>2, <2>3, <2>4, <2>5 DEF nbf, exp, rc
  <2>7. nbf - Leeway <= Unix(rc) /\ Unix(rc) < exp + Leeway
    BY <2>3, <2>5, <2>6, Seconds
  <2>8. nbf <= Unix(rc) + Leeway /\ Unix(rc) - Leeway < exp
    BY <2>3, <2>7
  <2>9. QED
    BY <1>1, <2>1, <2>8, Verdict DEF nbf, exp, rc
<1>2. IInv /\ [Next]_vars => [/\ Verify /\ trip.token.kid \in ring
                              /\ trip.at - Leeway * Res <= ResourceClock
                              /\ ResourceClock <= trip.at + Margin + Leeway * Res
                              => trip'.verdict = "accepted"]_vars
  BY <1>1
<1>3. QED
  BY <1>2, Inductive, PTL DEF Spec, SentIsAccepted
=============================================================================
