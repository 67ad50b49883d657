------------------------------ MODULE PepClient ------------------------------
(***************************************************************************)
(* pep.Client: Decide and DecideBatch against the PDP over HTTP, and the   *)
(* Decision and Obligations a policy enforcement point then acts on.       *)
(*                                                                         *)
(* One call.  The PDP answers each request by its policy; on the way the   *)
(* answer may be lost, late, truncated, reordered, repeated or spoiled in  *)
(* one of its documents.  The context may end at any point, and the        *)
(* client's own timeout bounds the call.                                   *)
(***************************************************************************)
EXTENDS Integers, Sequences, SequencesExt

CONSTANTS
    Request,   \* requests: [id, org, valid]
    Calls,     \* the calls made: [batch, reqs]
    Document,  \* the PDP's decision documents
    Key,       \* repository keys
    MaxBatch   \* the contract's bound on a batch

Star == "*"
None == "none"
NoList == {"absent"}  \* no allowlist member, unlike an empty one
Levels == <<"aal1", "aal2", "aal3">>

VARIABLES
    policy,  \* the PDP's document for each request
    call,    \* the call: its requests, and whether it is a batch
    pc,      \* where the call is
    ctx,     \* "live", "canceled" or "deadline"; the client's timeout is a deadline
    answer,  \* the response on the wire
    result   \* what the call returned, one decision for each request

vars == <<policy, call, pc, ctx, answer, result>>

-----------------------------------------------------------------------------
(* Decisions and obligations.                                              *)

\* The zero Obligations, which a deny carries.
NoObligations == [granted |-> FALSE, tenant |-> None, scope |-> None, list |-> NoList, assurance |-> None,
                  redaction |-> {}, stepUp |-> FALSE]

NewObligations(spec) == [spec EXCEPT !.granted = TRUE]

TenantAllows(o, org) == o.granted /\ org # None /\ (o.tenant = None \/ o.tenant = org)

\* Mutant: no member read as no restriction.
RepositoryAllowedUnrestricted(o, key) ==
    /\ o.granted /\ key # Star
    /\ o.list # NoList => (Star \in o.list \/ key \in o.list)
RepositoryAllowed(o, key) ==
    /\ o.granted /\ key # Star
    /\ \/ o.scope = "organization"
       \/ o.list # NoList /\ (Star \in o.list \/ key \in o.list)

assuranceRank(a) == SelectInSeq(Levels, LAMBDA level : level = a)

AssuranceSatisfiedBy(o, level) ==
    /\ o.granted /\ assuranceRank(level) # 0
    /\ o.assurance = None \/ assuranceRank(level) >= assuranceRank(o.assurance)

Local(reason) == [allowed |-> FALSE, local |-> TRUE, reason |-> reason, obligations |-> NoObligations,
                  cacheable |-> FALSE]

\* A checked document: a deny drops obligations.
FromWire(doc, obligations) ==
    [allowed |-> doc.allowed, local |-> FALSE, reason |-> doc.reason,
     obligations |-> IF doc.allowed THEN obligations ELSE NoObligations,
     cacheable |-> doc.expires = "later"]

-----------------------------------------------------------------------------
(* Reading a response.  A document is a record of what its members say:    *)
(* strict is that every member is there, once, of its type and shape.      *)

allowReasons == {"allowed_by_role", "allowed_by_platform_admin"}
wireReasons == allowReasons \cup {"grant_absent"}

\* The members of a decision and of its obligations.
WellFormed(doc) ==
    /\ DOMAIN doc = {"strict", "allowed", "reason", "org", "expires", "has", "obligations"}
    /\ DOMAIN doc.obligations = {"strict", "unknown", "tenant", "scope", "list", "assurance", "redaction", "stepUp"}
    /\ {doc.strict, doc.allowed, doc.has} \subseteq BOOLEAN

\* Decide has one request; the PDP gives an allow's reason to its allows only.
ASSUME ClientAssumption ==
    /\ MaxBatch \in Nat \ {0}
    /\ Calls \subseteq [batch: BOOLEAN, reqs: Seq(Request)]
    /\ \A c \in Calls : ~c.batch => Len(c.reqs) = 1
    /\ \A doc \in Document : WellFormed(doc) /\ (doc.allowed <=> doc.reason \in allowReasons)

\* The obligations of a document, or the reason they are refused.
decodeObligations(o) ==
    IF o.unknown THEN "unknown_obligation"
    ELSE IF ~o.strict \/ (o.scope # None /\ o.list # NoList) THEN "malformed"
    ELSE IF o.scope \notin {None, "organization"} THEN "unknown_obligation"
    ELSE IF o.assurance # None /\ assuranceRank(o.assurance) = 0 THEN "unknown_obligation"
    ELSE "ok"

ObligationSpec(o) == [granted |-> FALSE, tenant |-> o.tenant, scope |-> o.scope, list |-> o.list,
             assurance |-> o.assurance, redaction |-> o.redaction, stepUp |-> o.stepUp]

\* Every check but the last: the organization must be the request's.
decodeMembers(doc) ==
    IF ~doc.strict \/ doc.reason \notin wireReasons \/ doc.allowed # (doc.reason \in allowReasons)
    THEN Local("malformed")
    ELSE IF ~doc.has THEN FromWire(doc, NewObligations(NoObligations))
    ELSE IF ~doc.allowed THEN Local("malformed")
    ELSE IF decodeObligations(doc.obligations) # "ok" THEN Local(decodeObligations(doc.obligations))
    ELSE FromWire(doc, NewObligations(ObligationSpec(doc.obligations)))
decodeDecision(doc, req) ==
    LET d == decodeMembers(doc)
    IN  IF ~d.local /\ doc.org # req.org THEN Local("mismatch") ELSE d

\* Mutant: one deny for the whole batch.
denyOnce(reason, n) == <<Local(reason)>>
denyAll(reason, n) == [i \in 1..n |-> Local(reason)]

parseDecision(body, req) ==
    IF ~body.strict \/ body.batch \/ Len(body.items) # 1 THEN Local("malformed")
    ELSE decodeDecision(body.items[1].doc, req)

\* Mutants: the items that line up used; each item for itself.
parseBatchLoose(body, reqs) ==
    IF ~body.strict \/ ~body.batch \/ Len(body.items) # Len(reqs) THEN denyAll("malformed", Len(reqs))
    ELSE LET out == [i \in 1..Len(reqs) |-> decodeDecision(body.items[i].doc, reqs[i])]
             bad == SelectInSeq(out, LAMBDA d : d.local)
         IN  IF bad = 0 THEN out ELSE denyAll(out[bad].reason, Len(reqs))
parseBatchEach(body, reqs) ==
    IF ~body.strict \/ ~body.batch \/ Len(body.items) # Len(reqs) THEN denyAll("malformed", Len(reqs))
    ELSE IF \E i \in 1..Len(reqs) : body.items[i].index # i THEN denyAll("mismatch", Len(reqs))
    ELSE [i \in 1..Len(reqs) |-> decodeDecision(body.items[i].doc, reqs[i])]
parseBatch(body, reqs) ==
    LET n == Len(reqs)
    IN  IF ~body.strict \/ ~body.batch \/ body.items = <<>> \/ Len(body.items) > MaxBatch
           \/ \E i \in 1..Len(body.items) : body.items[i].index > MaxBatch
        THEN denyAll("malformed", n)
        ELSE IF Len(body.items) # n \/ \E i \in 1..n : body.items[i].index # i
        THEN denyAll("mismatch", n)
        ELSE LET out == [i \in 1..n |-> decodeDecision(body.items[i].doc, reqs[i])]
                 bad == SelectInSeq(out, LAMBDA d : d.local)
             IN  IF bad = 0 THEN out ELSE denyAll(out[bad].reason, n)

-----------------------------------------------------------------------------
(* post and its callers.                                                   *)

\* Mutant: the context's end not looked at.
classifyBlind(timedOut) == IF timedOut THEN "timeout" ELSE "unreachable"
classify(timedOut) ==
    IF ctx = "canceled" THEN "canceled"
    ELSE IF ctx = "deadline" \/ timedOut THEN "timeout"
    ELSE "unreachable"

Plain == [status |-> 200, json |-> TRUE, large |-> FALSE, strict |-> TRUE, batch |-> call.batch, items |-> <<>>]
NoAnswer == [status |-> 0]

Init ==
    /\ policy \in [{r \in Request : r.valid} -> Document]
    /\ \A r \in DOMAIN policy : policy[r].org = r.org
    /\ call \in Calls
    /\ pc = "start"
    /\ ctx \in {"live", "canceled"}
    /\ answer = NoAnswer
    /\ result = <<>>

N == Len(call.reqs)

Done(decisions) ==
    /\ pc' = "done"
    /\ result' = decisions
    /\ UNCHANGED <<policy, call, ctx, answer>>

\* What is refused before it is sent: an invalid request, a batch too large, an ended context.
Start ==
    /\ pc = "start"
    /\ \/ N = 0 /\ Done(<<>>)
       \/ (N > MaxBatch \/ \E i \in 1..N : ~call.reqs[i].valid) /\ Done(denyAll("invalid_request", N))
       \/ /\ N \in 1..MaxBatch /\ \A i \in 1..N : call.reqs[i].valid
          /\ \/ ctx # "live" /\ Done(denyAll(classify(FALSE), N))
             \/ ctx = "live" /\ pc' = "wire" /\ UNCHANGED <<policy, call, ctx, answer, result>>

\* The transport fails, or gives up because the context has ended.
\* Mutant: no end to the wait for the PDP.
FailReading ==
    /\ pc = "body"
    /\ \E timedOut \in BOOLEAN : Done(denyAll(classify(timedOut), N))
Fail ==
    /\ pc \in {"wire", "body"}
    /\ \E timedOut \in BOOLEAN : Done(denyAll(classify(timedOut), N))

statusReason(status) ==
    CASE status = 429 -> "rate_limited"
      [] status >= 500 -> "unavailable"
      [] OTHER -> "refused"

\* The status, the media type and the announced length.
Header ==
    /\ pc = "wire"
    /\ answer # NoAnswer
    /\ \/ answer.status # 200 /\ Done(denyAll(statusReason(answer.status), N))
       \/ answer.status = 200 /\ ~answer.json /\ Done(denyAll("malformed", N))
       \/ answer.status = 200 /\ answer.json /\ answer.large /\ Done(denyAll("too_large", N))
       \/ /\ answer.status = 200 /\ answer.json
          /\ pc' = "body" /\ UNCHANGED <<policy, call, ctx, answer, result>>

Body ==
    /\ pc = "body"
    /\ Done(IF answer.large THEN denyAll("too_large", N)
            ELSE IF call.batch THEN parseBatch(answer, call.reqs)
            ELSE <<parseDecision(answer, call.reqs[1])>>)

CtxEnds ==
    /\ ctx = "live" /\ pc # "done"
    /\ ctx' \in {"canceled", "deadline"}
    /\ UNCHANGED <<policy, call, pc, answer, result>>

-----------------------------------------------------------------------------
(* The PDP and the way back.                                               *)

\* A document with one thing wrong, or with what only a newer contract has.
Spoil(doc) ==
    {[doc EXCEPT !.strict = FALSE], [doc EXCEPT !.allowed = ~@], [doc EXCEPT !.reason = "unheard_of"],
     [doc EXCEPT !.org = "elsewhere"], [doc EXCEPT !.has = TRUE, !.obligations.unknown = TRUE],
     [doc EXCEPT !.has = TRUE, !.obligations.scope = "organization", !.obligations.list = {Star}],
     [doc EXCEPT !.has = TRUE, !.obligations.assurance = "aal9"],
     [doc EXCEPT !.has = TRUE, !.obligations.strict = FALSE]}

\* The items as decided, each under its own index; then lost, repeated or moved.
Arrived ==
    LET sent == [i \in 1..N |-> [index |-> i, doc |-> policy[call.reqs[i]]]]
        moved == UNION {{[j \in 1..m |-> sent[f[j]]] : f \in [1..m -> 1..N]} : m \in 0..N + 1}
    IN  moved \cup UNION {{[sent EXCEPT ![i].doc = d] : d \in Spoil(sent[i].doc)} : i \in 1..N}

Respond ==
    /\ pc = "wire" /\ answer = NoAnswer
    /\ \/ \E items \in Arrived : answer' = [Plain EXCEPT !.items = items]
       \/ answer' \in {[Plain EXCEPT !.status = status] : status \in {302, 403, 429, 503}}
       \/ answer' \in {[Plain EXCEPT !.json = FALSE], [Plain EXCEPT !.large = TRUE], [Plain EXCEPT !.strict = FALSE]}
    /\ UNCHANGED <<policy, call, pc, ctx, result>>

Next == Start \/ Fail \/ Header \/ Body \/ CtxEnds \/ Respond

\* The client's own steps, and its timeout; nothing is assumed of the PDP.
Spec ==
    /\ Init /\ [][Next]_vars
    /\ WF_vars(Start) /\ WF_vars(Header) /\ WF_vars(Body) /\ WF_vars(CtxEnds)
    /\ WF_vars(ctx # "live" /\ Fail)

-----------------------------------------------------------------------------

Decisions == {"malformed", "unknown_obligation", "mismatch", "invalid_request", "canceled", "timeout",
              "unreachable", "rate_limited", "unavailable", "refused", "too_large"}

(* Type invariant: a finished call has one decision for each request, in   *)
(* order; the only allows are of wire reasons.                             *)
TypeOK ==
    /\ pc \in {"start", "wire", "body", "done"}
    /\ ctx \in {"live", "canceled", "deadline"}
    /\ pc = "done" => Len(result) = N
    /\ \A i \in 1..Len(result) :
          /\ result[i].local => result[i].reason \in Decisions /\ ~result[i].allowed
          /\ result[i].allowed => result[i].reason \in allowReasons

(* An allow at a position of the result is the PDP's allow of the request  *)
(* at that position, with that document's obligations, however the items   *)
(* of the answer were lost, repeated, moved or spoiled ("one item's allow  *)
(* read against another item's resource"); and a batch is answered whole   *)
(* or denied whole, for one reason: no caller sees a verdict beside a      *)
(* local deny (DecideBatch: "any bad item in the response, denies every    *)
(* item").  The state keeps its types.                                     *)
AllowIsOfItsRequest ==
    /\ TypeOK
    /\ \A i \in 1..Len(result) : result[i].allowed =>
        LET doc == policy[call.reqs[i]]
        IN  /\ doc.allowed
            /\ result[i].obligations =
                  NewObligations(IF doc.has THEN ObligationSpec(doc.obligations) ELSE NoObligations)
    /\ \A i, j \in 1..Len(result) :
        result[i].local => result[j].local /\ result[j].reason = result[i].reason

(* What a service may do on a decision is within what the PDP's document   *)
(* for that request says: no repository without a member that names it, no *)
(* other tenant, no lower assurance, and nothing at all on a deny.         *)
ActsWithinGrant ==
    \A i \in 1..Len(result) :
        LET o == result[i].obligations
            doc == policy[call.reqs[i]]
            said == doc.obligations
        IN  /\ \A k \in Key : RepositoryAllowed(o, k) =>
                  /\ doc.allowed /\ doc.has
                  /\ said.scope = "organization" \/ {k, Star} \cap said.list # {}
            /\ \A org \in {"o1", "o2"} : TenantAllows(o, org) =>
                  doc.allowed /\ (doc.has /\ said.tenant # None => said.tenant = org)
            /\ AssuranceSatisfiedBy(o, "aal1") =>
                  doc.allowed /\ ~(doc.has /\ said.assurance \in {"aal2", "aal3"})

(* A local deny names what happened: unreachable only while the context    *)
(* lives, canceled only if it was canceled; a caller that retries on       *)
(* unreachable never retries what its own caller gave up.                  *)
LocalReasonIsTrue ==
    \A i \in 1..Len(result) :
        /\ result[i].reason = "unreachable" => ctx = "live"
        /\ result[i].reason = "canceled" => ctx = "canceled"
        /\ result[i].reason = "timeout" => ctx # "canceled"

(* Every call returns, even when the PDP never answers (the timeout).      *)
CallReturns == <>(pc = "done")
=============================================================================
