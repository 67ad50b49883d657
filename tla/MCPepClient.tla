----------------------------- MODULE MCPepClient -----------------------------
(* Requests, calls and the PDP's documents for TLC.                        *)
EXTENDS PepClient

R(id, org, valid) == [id |-> id, org |-> org, valid |-> valid]
R1 == R(1, "o1", TRUE)
R2 == R(2, "o1", TRUE)
Platform == R(3, None, TRUE)
Invalid == R(4, "o1", FALSE)

MCRequest == {R1, R2, Platform, Invalid}

Single(r) == [batch |-> FALSE, reqs |-> <<r>>]
Batch(reqs) == [batch |-> TRUE, reqs |-> reqs]

MCCalls ==
    {Single(R1), Single(Platform), Single(Invalid), Batch(<<>>), Batch(<<R1>>), Batch(<<R1, R2>>),
     Batch(<<R2, Platform>>), Batch(<<R1, Invalid>>), Batch(<<R1, R2, R1>>)}

NoMembers == [strict |-> TRUE, unknown |-> FALSE, tenant |-> None, scope |-> None, list |-> NoList,
              assurance |-> None, redaction |-> {}, stepUp |-> FALSE]

Deny(org) == [strict |-> TRUE, allowed |-> FALSE, reason |-> "grant_absent", org |-> org, expires |-> "later",
              has |-> FALSE, obligations |-> NoMembers]
Allow(org) == [Deny(org) EXCEPT !.allowed = TRUE, !.reason = "allowed_by_role"]
With(o) == [Allow("o1") EXCEPT !.has = TRUE, !.obligations = o]

MCDocument ==
    {Deny("o1"), Deny(None), Allow("o1"), Allow(None),
     With([NoMembers EXCEPT !.scope = "organization"]),
     With([NoMembers EXCEPT !.list = {"k1"}, !.tenant = "o1"]),
     With([NoMembers EXCEPT !.list = {Star}, !.assurance = "aal2"]),
     With([NoMembers EXCEPT !.list = {}, !.stepUp = TRUE, !.redaction = {"free_text"}])}
=============================================================================
