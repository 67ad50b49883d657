---------------------------- MODULE MCTokenVerify ----------------------------
(* Tokens of the three classes, each also with one thing wrong, for TLC.   *)
EXTENDS TokenVerify

MCCeiling == [access |-> 4, workload |-> 2, service_account |-> 2]

MembersOf == [access |-> {claimsRequired, claimsMembers},
              workload |-> {workloadClaimsMembers},
              service_account |-> {serviceAccountClaimsMembers}]

PrincipalOf == [access |-> "human", workload |-> "workload", service_account |-> "service_account"]

\* A good token of the class with the dates.
Good(c, members, iat, nbf, exp) ==
    [typ |-> typOf[c], members |-> members, shaped |-> TRUE, principal |-> PrincipalOf[c],
     iss |-> Issuer, aud |-> Audience, scope |-> "api:access", kid |-> "k1", signer |-> "k1",
     iat |-> iat, nbf |-> nbf, exp |-> exp]

AllGood ==
    UNION {{Good(c, members, iat, nbf, exp) : members \in MembersOf[c], iat \in 1..2, nbf \in 1..3, exp \in 2..6} :
               c \in Class}

\* One member of a good token replaced.
Spoiled ==
    UNION {LET g == Good(c, members, 1, 1, 3)
           IN  {[g EXCEPT !.shaped = FALSE], [g EXCEPT !.iss = "other"], [g EXCEPT !.aud = "auth-service"],
                [g EXCEPT !.aud = "elsewhere"], [g EXCEPT !.kid = "k2"], [g EXCEPT !.kid = "k3", !.signer = "k3"],
                [g EXCEPT !.members = @ \cup {"scope"}], [g EXCEPT !.members = @ \ {"jti"}],
                [g EXCEPT !.scope = "acr:api"]}
               \cup {[g EXCEPT !.typ = typOf[d]] : d \in Class}
               \cup {[g EXCEPT !.principal = PrincipalOf[d]] : d \in Class} :
               c \in Class, members \in UNION {MembersOf[d] : d \in Class}}

MCToken == AllGood \cup Spoiled
=============================================================================
