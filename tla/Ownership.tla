------------------------------ MODULE Ownership ------------------------------
(***************************************************************************)
(* readers/ownership.go: which teams own which project, and which          *)
(* repositories a team owns.  A SQL relation is a set of records: every    *)
(* relation below is read with FINAL or grouped at the grain of its        *)
(* records, so it holds no duplicate.                                      *)
(*                                                                         *)
(* Rows: a project is [org, provider, id, key], key Null when it has none; *)
(* a team_project_ownership row is [org, provider, project_id,             *)
(* project_key, team, from, to] and a team_repo_ownership row              *)
(* [org, team, repo, from, to], to being 0 while the edge is open.         *)
(***************************************************************************)
EXTENDS Integers, FiniteSets

Null == "null"
ZeroRepo == "zero"  \* the zero UUID

\* A key column, a uuid or a string, that carries a value: the zero UUID is none.
keyPresent(value, kind) == value # Null /\ (kind = "uuid" => value # ZeroRepo)

OfOrg(table, org) == {row \in table : row.org = org}

\* The bound of a read: [active, start, end], start 0 for a point in time.
Current == [active |-> FALSE, start |-> 0, end |-> 0]

\* OwnershipValidityPredicate: open now, or, for a bounded read, not ended
\* before the window's start.
OwnershipValid(row, bound, now) ==
    IF bound.active
    THEN row.to = 0 \/ row.to > (IF bound.start # 0 THEN bound.start ELSE bound.end)
    ELSE row.from <= now /\ row.to = 0

\* How many projects of the provider share the key.
keyResolutionCount(projects, p) ==
    Cardinality({q \in projects : q.provider = p.provider /\ q.key = p.key /\ q.key # Null})

\* An expansion that groups by the kind too.
projectIdentitySplit(projects) ==
    LET Row(p, scope, kind) == [provider |-> p.provider, id |-> p.id, scope |-> scope, kind |-> kind]
    IN {Row(p, p.id, "id") : p \in projects}
       \cup {Row(p, p.key, "key") :
                p \in {q \in projects : q.key # Null /\ keyResolutionCount(projects, q) = 1}}

\* projectIdentityExpansionSQL: one row for each identity value a project
\* answers to, its id and its unambiguous key.  An id that equals the key is
\* one row, of kind "key".
projectIdentityExpansion(projects) ==
    LET Row(p, scope) == [provider |-> p.provider, id |-> p.id, scope |-> scope]
        keyed == {p \in projects : p.key # Null /\ keyResolutionCount(projects, p) = 1}
        keys == {Row(p, p.key) : p \in keyed}
        Kind(row) == IF row \in keys THEN "key" ELSE "id"
    IN {[provider |-> r.provider, id |-> r.id, scope |-> r.scope, kind |-> Kind(r)] :
            r \in {Row(p, p.id) : p \in projects} \cup keys}

\* ProjectIdentityCatalogSQL, and ProjectIdentityJoinSQL for requested
\* subjects: ambiguity is counted over the whole organization in both.
ProjectIdentityCatalog(projects, org) == projectIdentityExpansion(OfOrg(projects, org))
ProjectIdentityJoin(projects, org, ids) ==
    {row \in ProjectIdentityCatalog(projects, org) : <<row.provider, row.id>> \in ids}

\* Arms without the kind a project_key must match.
ownershipArmsUntagged(tpo, org, bound, now) ==
    UNION {{[provider |-> o.provider, scope |-> v, team |-> o.team, kind |-> ""] :
               v \in {o.project_id, o.project_key} \ {Null}} :
                  o \in {r \in OfOrg(tpo, org) : OwnershipValid(r, bound, now)}}

\* The two arms of the ownership side: project_id may match an identity of
\* either kind, project_key only a key.
ownershipArms(tpo, org, bound, now) ==
    LET open == {o \in OfOrg(tpo, org) : OwnershipValid(o, bound, now)}
    IN {[provider |-> o.provider, scope |-> o.project_id, team |-> o.team, kind |-> ""] :
            o \in {r \in open : r.project_id # Null}}
       \cup {[provider |-> o.provider, scope |-> o.project_key, team |-> o.team, kind |-> "key"] :
            o \in {r \in open : r.project_key # Null}}

\* projectOwnershipJoinOver: one row for each project and owning team.
projectOwnershipJoinOver(identity, tpo, org, bound, now) ==
    LET arms == ownershipArms(tpo, org, bound, now)
        Match(p, o) == o.provider = p.provider /\ o.scope = p.scope /\ o.kind \in {"", p.kind}
    IN UNION {{[provider |-> p.provider, id |-> p.id, team |-> o.team] : o \in {a \in arms : Match(p, a)}} :
                 p \in identity}

\* TeamRepositoryOwnershipSQL.
TeamRepositoryOwnership(tro, org, bound, now) ==
    {[team |-> o.team, repo |-> o.repo] :
        o \in {r \in OfOrg(tro, org) : keyPresent(r.repo, "uuid") /\ OwnershipValid(r, bound, now)}}
===============================================================================
