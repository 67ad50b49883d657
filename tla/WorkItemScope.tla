---------------------------- MODULE WorkItemScope ----------------------------
(***************************************************************************)
(* readers/authorization.go and work_item_candidates.go: the authorization *)
(* relation WorkItemScopeSQLAmong renders, evaluated over the tables it    *)
(* reads, and the work-item readers that use it.                           *)
(*                                                                         *)
(* A repository name is normalized by slug, which stands for the case fold *)
(* and the trim that Go and the SQL both apply; valid is the key grammar,  *)
(* owner the first segment of a slug.                                      *)
(***************************************************************************)
EXTENDS ReaderTables

CONSTANTS slug, valid, owner  \* of a repository name

ASSUME ScopeAssumption == slug[""] = "" /\ ~valid[""]

NoList == {"nil"}           \* a nil list, unlike an empty one
NoCandidates == {"all"}     \* the zero WorkItemCandidates
NoSet == [all |-> FALSE, slugs |-> NoList, owners |-> NoList]  \* a nil selector set
Paths == {"organization_grant", "direct_repo", "project_ownership", "pr_link"}

Items == world.items  \* work items: [org, id, repo, provider, project]

-----------------------------------------------------------------------------
(* Selectors.                                                              *)

\* normalizeRepositorySlugs and normalizeRepositoryOwners: an entry outside
\* the grammar is dropped.
normalizeRepositorySlugs(names) == {slug[n] : n \in {m \in names : valid[slug[m]]}}
normalizeRepositoryOwners(owners) == {o \in owners : o # "malformed"}

\* repositorySelectorMatchOver, on the bound arrays of a set.
repositorySelectorMatchOver(set, s) ==
    \/ s \in normalizeRepositorySlugs(set.slugs)
    \/ owner[s] \in normalizeRepositoryOwners(set.owners)

\* Owner matching with no grammar check before it.
grantedRepositoryMatchLoose(set, name) == repositorySelectorMatchOver(set, slug[name])

\* grantedRepositoryMatchSQL: grammar first, then exact slug or owner.
grantedRepositoryMatch(set, name) == valid[slug[name]] /\ repositorySelectorMatchOver(set, slug[name])

-----------------------------------------------------------------------------
(* The relations a statement joins to work_items.                          *)

\* LEFT JOIN repos: the name of the item's repository, "" without a row.
repoName(w) ==
    LET named == {r \in OfOrg(repos, w.org) : r.id = w.repo}
    IN IF named = {} THEN "" ELSE (CHOOSE r \in named : TRUE).repo

\* The same names in any organization.
grantedReposAnyOrg(set) == {r \in repos : grantedRepositoryMatch(set, r.repo)}

\* The repositories of the organization that match the grant.
grantedRepos(set) == {r \in OfOrg(repos, Org) : grantedRepositoryMatch(set, r.repo)}

\* The (provider, project_id) pairs the candidates carry.
candidateScopes(candidates) ==
    {<<w.provider, w.project>> : w \in {v \in OfOrg(Items, Org) : v.id \in candidates}}

\* The candidates' values taken for project ids.
amongProjectIds(candidates) ==
    LET identity == ProjectIdentityCatalog(projects, Org)
    IN {<<p.provider, p.id>> : p \in identity}
       \cap (IF candidates = NoCandidates THEN {<<p.provider, p.id>> : p \in identity} ELSE candidateScopes(candidates))

\* The projects kept before the aggregate: those that answer to a candidate's
\* project value.
amongProjects(candidates) ==
    LET identity == ProjectIdentityCatalog(projects, Org)
    IN IF candidates = NoCandidates
       THEN {<<p.provider, p.id>> : p \in identity}
       ELSE {<<p.provider, p.id>> :
                p \in {q \in identity : <<q.provider, q.scope>> \in candidateScopes(candidates)}}

\* wia_project_repositories: the granted repositories owned by a team that
\* owns a project the item's value names, for one joined group.
projectRepositories(w, set, candidates) ==
    LET identity == ProjectIdentityCatalog(projects, Org)
        owned == {o \in projectOwnershipJoinOver(identity, tpo, Org, Current, now) :
                    <<o.provider, o.id>> \in amongProjects(candidates)}
        scopes == {p \in identity : candidates = NoCandidates \/ <<p.provider, p.scope>> \in candidateScopes(candidates)}
        teams == {o.team : o \in {x \in owned : \E p \in scopes :
                    /\ p.provider = w.provider /\ p.scope = w.project
                    /\ x.provider = p.provider /\ x.id = p.id}}
        owned_repos == {o.repo : o \in {x \in TeamRepositoryOwnership(tro, Org, Current, now) : x.team \in teams}}
    IN {slug[r.repo] : r \in {g \in grantedRepos(set) : g.id \in owned_repos}}

\* The item's link rows that name a granted repository.
linkRows(w, set, candidates) ==
    {m \in OfOrg(links, Org) \X grantedRepos(set) :
        LET l == m[1] IN
        /\ candidates = NoCandidates \/ l.item \in candidates
        /\ l.item = w.id /\ keyPresent(l.item, "string") /\ keyPresent(l.repo, "uuid") /\ m[2].id = l.repo}

\* Links of any provenance.
linkRepositoriesAny(w, set, candidates) == {slug[m[2].repo] : m \in linkRows(w, set, candidates)}

linkRepositories(w, set, candidates) ==
    {slug[m[2].repo] : m \in {x \in linkRows(w, set, candidates) : x[1].provenance = "native"}}

excludedLinkProvenances(w, set, candidates) ==
    IF keyPresent(w.repo, "uuid") THEN {} ELSE {m[1].provenance : m \in linkRows(w, set, candidates)} \ {"native"}

-----------------------------------------------------------------------------
(* WorkItemScopeSQLAmong.                                                  *)

\* The ID dimensions: a nil list allows all, an empty one none.
idRestrictions(w, scope) ==
    /\ scope.grantedIDs = NoList \/ w.repo \in scope.grantedIDs
    /\ scope.requestedIDs = NoList \/ w.repo \in scope.requestedIDs

\* A requested set that reads like a grant.
requestedMatchWide(w, set) == set.all \/ repositorySelectorMatchOver(set, slug[repoName(w)])

\* renderRequestedRepositorySelectorSet: a requested set, "*" included, asks
\* for a real, named repository.
requestedMatch(w, set) ==
    LET s == slug[repoName(w)]
    IN /\ keyPresent(w.repo, "uuid") /\ s # ""
       /\ set.all \/ (valid[s] /\ repositorySelectorMatchOver(set, s))

\* Path expressions that carry the ID dimensions alone.
restrictionsIdOnly(w, scope) == idRestrictions(w, scope)

\* The restrictions every path expression carries.
restrictions(w, scope) ==
    /\ idRestrictions(w, scope)
    /\ scope.requested = NoSet \/ requestedMatch(w, scope.requested)

\* Paths through projects and links for items with a repository too.
pathTakenAlways(w, path, set, candidates) ==
    CASE path = "organization_grant" -> set.all
      [] path = "direct_repo" -> keyPresent(w.repo, "uuid") /\ grantedRepositoryMatch(set, repoName(w))
      [] path = "project_ownership" -> keyPresent(w.project, "string") /\ projectRepositories(w, set, candidates) # {}
      [] path = "pr_link" -> linkRepositories(w, set, candidates) # {}

\* A path of renderRepositorySelectorSet, before the restrictions.
pathTaken(w, path, set, candidates) ==
    CASE path = "organization_grant" -> set.all
      [] path = "direct_repo" -> keyPresent(w.repo, "uuid") /\ grantedRepositoryMatch(set, repoName(w))
      [] path = "project_ownership" ->
            ~keyPresent(w.repo, "uuid") /\ keyPresent(w.project, "string") /\ projectRepositories(w, set, candidates) # {}
      [] path = "pr_link" -> ~keyPresent(w.repo, "uuid") /\ linkRepositories(w, set, candidates) # {}

\* AuthorizationExpr.
authorized(w, scope, candidates) ==
    /\ idRestrictions(w, scope)
    /\ scope.requested = NoSet \/ requestedMatch(w, scope.requested)
    /\ scope.selectors = NoSet \/ \E path \in Paths : pathTaken(w, path, scope.selectors, candidates)

\* Provenance: each path's Expr, and its RepositoriesExpr.
provenance(w, scope, candidates) ==
    IF scope.selectors = NoSet THEN {}
    ELSE {path \in Paths : pathTaken(w, path, scope.selectors, candidates) /\ restrictions(w, scope)}

evidence(w, path, scope, candidates) ==
    IF path \notin provenance(w, scope, candidates) THEN {}
    ELSE CASE path = "organization_grant" -> {}
           [] path = "direct_repo" -> {slug[repoName(w)]}
           [] path = "project_ownership" -> projectRepositories(w, scope.selectors, candidates)
           [] path = "pr_link" -> linkRepositories(w, scope.selectors, candidates)

-----------------------------------------------------------------------------
(* The reads.                                                              *)

\* The paths of one joined row; the reader keeps the authorized rows, a
\* census projects the expression of every row.
rowOf(w, scope, candidates) ==
    [item |-> w, authorized |-> authorized(w, scope, candidates),
     paths |-> provenance(w, scope, candidates),
     evidence |-> [p \in Paths |-> evidence(w, p, scope, candidates)],
     excluded |-> IF scope.selectors = NoSet THEN {} ELSE excludedLinkProvenances(w, scope.selectors, candidates)]

\* A statement without its organization clause.
ReadAnyOrg(scope, candidates) == {rowOf(w, scope, candidates) : w \in Items}

\* workItemReadStatement, and a consumer of WorkItemScopeSQLAmong.
Read(scope, candidates) == {rowOf(w, scope, candidates) : w \in OfOrg(Items, Org)}

-----------------------------------------------------------------------------
(* Properties.  Each is about every read that may be made of the tables.   *)

\* Narrowing the aggregates to candidates changes nothing for a candidate
\* and never widens for another item (WorkItemCandidates).
NarrowingHarmless ==
    \A scope \in world.scopes, candidates \in world.candidates : candidates # NoCandidates =>
        \A r \in Read(scope, candidates) :
            LET whole == rowOf(r.item, scope, NoCandidates)
            IN IF r.item.id \in candidates THEN r = whole
               ELSE r.paths \subseteq whole.paths /\ (r.authorized => whole.authorized)

\* The value is the key of this project and of no other.
OwnKey(p, value) ==
    /\ value # Null /\ p.key = value
    /\ \A q \in projects : q.org = Org /\ q.provider = p.provider /\ q.key = value => q = p

\* The projects a value names: by id, or by a key no other project has.
Named(provider, value) ==
    {p \in projects : p.org = Org /\ p.provider = provider /\ (p.id = value \/ OwnKey(p, value))}

\* Team t owns project p now: a row names it by an identity of p, and its
\* project_key counts only as a key.
Owns(t, p) ==
    \E o \in tpo :
        /\ o.org = Org /\ o.provider = p.provider /\ o.team = t /\ o.from <= now /\ o.to = 0
        /\ \/ o.project_id # Null /\ p \in Named(p.provider, o.project_id)
           \/ OwnKey(p, o.project_key)

OwnedRepo(t, id) ==
    \E o \in tro : o.org = Org /\ o.team = t /\ o.repo = id /\ o.from <= now /\ o.to = 0

GrantedRepo(set, id) ==
    /\ id \notin {Null, ZeroRepo}
    /\ \E r \in repos : r.org = Org /\ r.id = id /\ valid[slug[r.repo]] /\ repositorySelectorMatchOver(set, slug[r.repo])

\* A current owner of a project the item names owns a granted repository.
OwnerChain(w, set) ==
    /\ w.project # Null
    /\ \E p \in Named(w.provider, w.project) : \E o \in tro :
          Owns(o.team, p) /\ OwnedRepo(o.team, o.repo) /\ GrantedRepo(set, o.repo)

\* The provider links the item to a granted repository.
NativeLink(w, set) ==
    /\ w.id # Null
    /\ \E l \in links : l.org = Org /\ l.item = w.id /\ l.provenance = "native" /\ GrantedRepo(set, l.repo)

\* Each repository path says what its name says, on this organization's rows
\* alone: an item with a repository is decided by that repository, an item
\* without one by a current owner of a project its value names, or by a link
\* the provider itself recorded.
PathsAreReal ==
    \A scope \in world.scopes, candidates \in world.candidates : scope.selectors # NoSet =>
        \A r \in Read(scope, candidates) :
            LET w == r.item
                set == scope.selectors
                repoLess == w.repo \in {Null, ZeroRepo}
                open == restrictions(w, scope)
                whole == candidates = NoCandidates \/ w.id \in candidates
            IN /\ "direct_repo" \in r.paths <=> open /\ ~repoLess /\ GrantedRepo(set, w.repo)
               /\ whole => ("project_ownership" \in r.paths <=> open /\ repoLess /\ OwnerChain(w, set))
               /\ whole => ("pr_link" \in r.paths <=> open /\ repoLess /\ NativeLink(w, set))

\* A row is authorized exactly when at least one of its paths is
\* (WorkItemScopeSQLResult.Provenance): a disclosed path never names a row
\* the request excludes, and no row is admitted without a path to disclose.
\* What a caller re-checks: a true path other than the organization grant
\* names the repositories that made it true, each in the grammar and in the
\* grant (RepositoriesExpr).  Every row is of the organization, and each path
\* says what its name says.
PathsExact ==
    /\ PathsAreReal
    /\ \A scope \in world.scopes, candidates \in world.candidates : \A r \in Read(scope, candidates) :
        /\ r.item.org = Org
        /\ scope.selectors # NoSet => (r.authorized <=> r.paths # {})
        /\ \A p \in r.paths \ {"organization_grant"} :
            /\ r.evidence[p] # {}
            /\ \A s \in r.evidence[p] : valid[s] /\ repositorySelectorMatchOver(scope.selectors, s)

\* The scope without its restrictions.
GrantAlone(scope) ==
    [grantedIDs |-> NoList, requestedIDs |-> NoList, selectors |-> scope.selectors, requested |-> NoSet]

\* A restriction only narrows: a row of a restricted read is a row of the
\* read of the grant alone, a requested set of any kind admits only items
\* with a named repository, and an empty list, request or grant admits none.
\* Nor do candidates widen a read, or change what it says of a candidate.
RestrictionsOnlyNarrow ==
    /\ NarrowingHarmless
    /\ \A scope \in world.scopes, candidates \in world.candidates :
       \A w \in OfOrg(Items, Org) : authorized(w, scope, candidates) =>
        /\ authorized(w, GrantAlone(scope), candidates)
        /\ scope.requested # NoSet => \E x \in repos : x.org = Org /\ x.id = w.repo /\ slug[x.repo] # ""
        /\ scope.grantedIDs # {} /\ scope.requestedIDs # {}
        /\ \A set \in {scope.selectors, scope.requested} \ {NoSet} : set.all \/ set.slugs # {} \/ set.owners # {}
===============================================================================
