------------------------------- MODULE MCReaders -------------------------------
(* Twelve settings of the tables for TLC: the daily rows, the metrics and  *)
(* the coverage of projects, the theme mix of teams and of projects, work  *)
(* items reached through projects and through repositories, events that    *)
(* end, events that close, forecasts, the other latest rows, and sizes.    *)
(*                                                                         *)
(* P and Q are project ids; K is the key of P, may also be the key of Q    *)
(* and may be a project's id; P and Q may be their own keys.  I1 to I3 are *)
(* issues, and <<"ghpr", "a/x", "7">> is the item of pull request 7 of the *)
(* repository r1 while that is called a/x.                                 *)
EXTENDS Readers

Daily(team, repo, day, at, commits, after) ==
    [team |-> team, repo |-> repo, day |-> day, at |-> at, commits |-> commits, after |-> after]
Coverage(team, scope, day, backlog) ==
    [team |-> team, scope |-> scope, provider |-> "gl", day |-> day, at |-> day, backlog |-> backlog]
Project(id, key) == [org |-> "o1", provider |-> "gl", id |-> id, key |-> key]
Own(pid, key, team, from, to) ==
    [org |-> "o1", provider |-> "gl", project_id |-> pid, project_key |-> key, team |-> team, from |-> from, to |-> to]

ReadBounds ==
    {Current, [active |-> TRUE, start |-> 0, end |-> 1], [active |-> TRUE, start |-> 2, end |-> 2]}

MCDaily ==
    {Daily("t1", Null, 1, 1, 5, 2), Daily("t1", Null, 2, 1, 6, 1), Daily("t1", "r1", 1, 1, 4, 4),
     Daily("t1", "r1", 1, 2, 2, 1), Daily("t1", "r1", 1, 2, 2, 0), Daily("t1", "r2", 1, 1, 3, 0),
     Daily("t1", "r1", 2, 1, 1, 1), Daily("t1", "r1", 2, 2, 0, 0), Daily("t1", Null, 3, 1, 2, 1),
     Daily("t2", "r1", 1, 1, 2, 0)}
FewDaily == {Daily("t1", "r1", 1, 1, 4, 4), Daily("t1", "r2", 1, 1, 3, 0), Daily("t2", "r1", 1, 1, 2, 0)}
ReadProjects == {Project("P", "K"), Project("Q", "K"), Project("P", "P")}
MCOwners ==
    {Own("P", Null, "t1", 0, 0), Own("Z", "K", "t1", 0, 0), Own("K", Null, "t2", 0, 0), Own("P", Null, "t2", 0, 2)}
MCCoverage ==
    {Coverage("t1", "K", 1, 1), Coverage("t2", "K", 2, 1), Coverage("t1", "P", 1, 2), Coverage(Null, "P", 2, 1),
     Coverage("t1", "K", 2, 3), Coverage("t3", "P", 1, 1)}
ReadRequested == {<<"gl", "P">>, <<"gl", "Q">>}

I1 == <<"i1">>
I2 == <<"i2">>
I3 == <<"i3">>
Pr7 == <<"ghpr", "a/x", "7">>
Ref7 == [repo |-> "r1", number |-> "7"]

Unit(id, at, from, to, themes, bugfix, issues, prs) ==
    [id |-> id, at |-> at, from |-> from, to |-> to, themes |-> themes, bugfix |-> bugfix, issues |-> issues, prs |-> prs]
Risk == "risk" :> 2
RiskAndQuality == "risk" :> 1 @@ "quality" :> 1
Attribution(item, repo, team, primary, at) ==
    [item |-> item, repo |-> repo, team |-> team, name |-> team, primary |-> primary, at |-> at]
RepoVersion(name, provider, at) == [id |-> "r1", repo |-> name, provider |-> provider, at |-> at]
Transition(item, repo, from, to, at, event) ==
    [item |-> item, repo |-> repo, from |-> from, to |-> to, at |-> at, event |-> event]
Item(item, repo, provider, project, board) ==
    [item |-> item, repo |-> repo, provider |-> provider, project |-> project, boardProject |-> board]

MCThemes == {"risk", "quality"}
MCRank ==
    Null :> 0 @@ "" :> 0 @@ "gl" :> 1 @@ "P" :> 1 @@ "Q" :> 2 @@ "K" :> 3 @@ "t1" :> 1 @@ "t2" :> 2 @@ "t3" :> 3
    @@ "subcategory" :> 1 @@ "theme" :> 2 @@ "quality" :> 1 @@ "quality.bugfix" :> 2 @@ "risk" :> 3
    @@ "e1" :> 1 @@ "e2" :> 2
MixBounds == {Current, [active |-> TRUE, start |-> 2, end |-> 4]}
MCTeams == {"t1", "t2"}
MixRequested == {<<"gl", "P">>}

TeamUnits ==
    {Unit("u1", 1, 1, 3, RiskAndQuality, 1, {I1, I2, Pr7}, {Ref7}), Unit("u1", 2, 4, 5, Risk, 0, {I1, I3}, {Ref7}),
     Unit("u2", 1, 2, 3, Risk, 0, {I2}, {})}
TeamAttributions ==
    {Attribution(I1, "r1", "t1", TRUE, 1), Attribution(I1, "r1", "t2", TRUE, 2), Attribution(I1, "r2", "t1", FALSE, 2),
     Attribution(I2, "r1", "t1", TRUE, 1), Attribution(I2, "r2", "t2", TRUE, 1), Attribution(Pr7, "r1", "t2", TRUE, 1),
     Attribution(I3, "r1", "", TRUE, 1)}
TeamRepos == {RepoVersion("a/x", "github", 1), RepoVersion("b/y", "gitlab", 2)}

ProjectUnits ==
    {Unit("u1", 2, 4, 5, RiskAndQuality, 1, {I1, I2}, {}), Unit("u1", 1, 2, 3, Risk, 0, {I1}, {}), Unit("u2", 1, 2, 3, Risk, 0, {I2}, {})}
ProjectTransitions ==
    {Transition(I1, "r1", "", "P", 1, "e1"), Transition(I1, "r1", "P", "Q", 2, "e1"), Transition(I1, "r1", "", "P", 2, "e2"),
     Transition(I1, "r1", "P", "", 3, "e1"), Transition(I1, "r2", "Q", "K", 1, "e1")}
ProjectItems == {Item(I2, "r1", "linear", "K", FALSE), Item(I2, "r1", "gitlab", "P", FALSE), Item(I1, "r2", "github", "P", TRUE)}
MixProjects == {Project("P", "K"), Project("Q", "K"), Project("Q", Null)}

WorkItem(id, repo, project) == [org |-> "o1", id |-> id, repo |-> repo, provider |-> "gl", project |-> project]
Repo(id, name) == [org |-> "o1", id |-> id, repo |-> name]
OwnRepo(team, repo, to) == [org |-> "o1", team |-> team, repo |-> repo, from |-> 0, to |-> to]
Link(item, repo, source) == [org |-> "o1", item |-> item, repo |-> repo, provenance |-> source, pr |-> 1]
Foreign(row) == [row EXCEPT !.org = "o2"]
OtherProvider(row) == [row EXCEPT !.provider = "gh"]

MCSlug == ("" :> "") @@ ("a/x" :> "a/x") @@ ("A/X" :> "a/x") @@ ("b/y" :> "b/y") @@ ("a/ y" :> "a/ y")
MCValid == ("" :> FALSE) @@ ("a/x" :> TRUE) @@ ("b/y" :> TRUE) @@ ("a/ y" :> FALSE)
MCOwner == ("" :> "") @@ ("a/x" :> "a") @@ ("b/y" :> "b") @@ ("a/ y" :> "a")

Set(all, slugs, owners) == [all |-> all, slugs |-> slugs, owners |-> owners]
Scope(gids, rids, granted, requested) ==
    [grantedIDs |-> gids, requestedIDs |-> rids, selectors |-> granted, requested |-> requested]
ByOwner == Set(FALSE, {}, {"a", "malformed"})
BySlug == Set(FALSE, {"A/X", "a/ y"}, {})
Everything == Set(TRUE, {}, {})
Nothing == Set(FALSE, {}, {})

ScopeItems ==
    {Foreign(WorkItem("i1", ZeroRepo, "P")), WorkItem("i1", ZeroRepo, "P"), WorkItem("i2", ZeroRepo, "K"),
     WorkItem("i3", "r1", "P")}
ScopeTables ==
    [repos |-> {Repo("r1", "A/X")},
     projects |-> {Project("P", "K"), Project("Q", "K"), Project("K", Null), Project("K", "K"), Project("Q", "Q"),
                   OtherProvider(Project("K", Null))},
     tpo |-> {Own("P", Null, "t1", 0, 0), Own("Z", "K", "t1", 1, 0), Own("K", Null, "t2", 0, 0),
              Own("K", Null, "t2", 0, 1), Foreign(Own("Q", Null, "t1", 0, 0)),
              OtherProvider(Own("P", Null, "t2", 0, 0))},
     tro |-> {OwnRepo("t1", "r1", 0), OwnRepo("t2", "r1", 0), OwnRepo("t2", "r1", 1)}]
ProjectScopes == {Scope(NoList, NoList, BySlug, NoSet)}
ProjectCandidates == {NoCandidates, {"i2"}, {}}

RepoItems == {WorkItem("i1", ZeroRepo, Null), WorkItem("i2", "r1", Null), WorkItem("i3", "r2", Null)}
RepoTables ==
    [repos |-> {Repo("r1", "A/X"), Repo("r1", "a/ y"), Repo("r2", "b/y"), Foreign(Repo("r2", "a/x")), Repo("r2", "")},
     links |-> {Link("i1", "r1", "native"), Link("i1", "r1", "heuristic"), Link("i1", "r2", "native"),
                Foreign(Link("i1", "r1", "native")), Link("i3", "r1", "native")}]
RepoScopes ==
    {Scope(NoList, NoList, g, r) : g \in {ByOwner, BySlug, Everything, Nothing}, r \in {NoSet, ByOwner, Everything, Nothing}}
    \cup {Scope(ids, rids, g, NoSet) : ids \in {NoList, {}, {"r1"}}, rids \in {NoList, {}, {"r1", "r2"}},
                                       g \in {NoSet, Everything, ByOwner}}
RepoCandidates == {NoCandidates, {"i1"}}

Event(kind, id, at, started, ended, state) ==
    [org |-> "o1", kind |-> kind, id |-> id, at |-> at, started |-> started, deployed |-> 0, ended |-> ended,
     merged |-> 0, state |-> state, severity |-> "", deleted |-> FALSE]
Deployed(e) == [e EXCEPT !.deployed = e.at]
Merged(e) == [e EXCEPT !.merged = e.at]
Severe(e, severity_) == [e EXCEPT !.severity = severity_]
EndingEvents ==
    {Event("run", "e1", 1, 1, 0, "running"), Event("run", "e1", 2, 1, 2, "failed"),
     Event("run", "e2", 1, 0, 0, "queued"), Event("run", "e2", 2, 2, 0, "running"), Event("run", "e2", 3, 2, 3, "success"),
     Event("deployment", "e1", 1, 0, 0, "pending"), Deployed(Event("deployment", "e1", 2, 0, 2, "success")),
     Event("deployment", "e2", 1, 1, 0, "running"), Deployed(Event("deployment", "e2", 3, 1, 3, "failure"))}
ClosingEvents ==
    {Severe(Event("incident", "e1", 1, 1, 0, "triggered"), "low"), Severe(Event("incident", "e1", 2, 1, 0, "acked"), "high"),
     Severe(Event("incident", "e1", 3, 1, 3, "resolved"), "high"),
     [Severe(Event("incident", "e1", 4, 1, 3, "resolved"), "low") EXCEPT !.deleted = TRUE],
     Event("pull", "e1", 1, 1, 0, "open"), Merged(Event("pull", "e1", 2, 1, 2, "merged")),
     Event("pull", "e2", 2, 2, 0, "open"), Event("pull", "e2", 3, 2, 3, "closed"),
     Foreign(Event("pull", "e2", 1, 1, 1, "closed")),
     Event("review", "e1", 2, 2, 0, "approved"), Event("item", "e1", 1, 1, 0, ""), Event("item", "e1", 3, 1, 3, "")}
AsOfBounds ==
    {[active |-> TRUE, start |-> 0, end |-> t] : t \in 1..3} \cup {[active |-> TRUE, start |-> 2, end |-> 3], Current}

Forecast(id, team, scope, at, backlog, values) ==
    [id |-> id, team |-> team, scope |-> scope, at |-> at, backlog |-> backlog, values |-> values, counts |-> values]
MCForecasts ==
    {Forecast("e1", "t1", "K", 1, 5, <<>>), Forecast("e2", "t1", "K", 1, 6, <<1>>), Forecast("e1", "t1", "K", 2, 4, <<1, 2>>),
     Forecast("e1", "t1", "", 1, 3, <<1, 2, 3>>), Forecast("e2", "t1", Null, 1, 2, <<>>), Forecast("e1", "t1", Null, 2, 7, <<1>>),
     Forecast("e1", Null, "K", 1, 8, <<>>), Forecast("e1", "", "K", 1, 9, <<>>), Forecast("e1", "t2", "P", 2, 1, <<>>)}
RepoDaily(table, repo, day, at, value) == [table |-> table, repo |-> repo, day |-> day, at |-> at, value |-> value]
Backfill(provider, at, job, chunk, status) ==
    [provider |-> provider, at |-> at, job |-> job, chunk |-> chunk, status |-> status]
LatestRows ==
    [repo_daily |-> {RepoDaily("repo", "P", 1, 2, 1), RepoDaily("repo", "P", 1, 1, 2), RepoDaily("repo", "P", 2, 1, 1),
                     RepoDaily("repo", "P", 2, 1, 3), RepoDaily("cicd", "P", 3, 1, 1), RepoDaily("deploy", "Q", 1, 1, 1)},
     backfills |-> {Backfill("gl", 1, 1, 1, "ok"), Backfill("gl", 1, 1, 2, "failed"), Backfill("gl", 1, 2, 1, "ok"),
                    Backfill("P", 3, 1, 1, "ok")}]
SizedRows ==
    [units |-> {Unit("u1", 1, 1, 3, Risk, 0, {I1}, {}), Unit("u2", 1, 2, 3, Risk, 0, {I2}, {}), Unit("u3", 1, 5, 6, Risk, 0, {I3}, {})},
     sizes |-> {[unit |-> "u1", at |-> 1, size |-> 3], [unit |-> "u1", at |-> 2, size |-> 0], [unit |-> "u2", at |-> 1, size |-> 1],
                [unit |-> "u3", at |-> 1, size |-> 2]}]

Setting(rows, requested, bounds, limit) ==
    [rows |-> rows, requested |-> requested, bounds |-> bounds, limit |-> limit, maxNow |-> 0,
     items |-> {}, scopes |-> {}, candidates |-> {}]
Scoped(rows, workItems, scopes, candidates, maxNow) ==
    [rows |-> rows, requested |-> {}, bounds |-> {}, limit |-> 1, maxNow |-> maxNow,
     items |-> workItems, scopes |-> scopes, candidates |-> candidates]
MCWorlds ==
    {Setting([daily |-> MCDaily], ReadRequested, ReadBounds, 3),
     Setting([daily |-> FewDaily, projects |-> ReadProjects, tpo |-> MCOwners], ReadRequested, ReadBounds, 3),
     Setting([coverage |-> MCCoverage, projects |-> ReadProjects], ReadRequested, ReadBounds, 3),
     Setting([units |-> TeamUnits, attributions |-> TeamAttributions, repo_versions |-> TeamRepos],
             MixRequested, MixBounds, 7),
     Setting([units |-> ProjectUnits, transitions |-> ProjectTransitions, items |-> ProjectItems,
              projects |-> MixProjects], MixRequested, MixBounds, 7),
     [Setting([events |-> EndingEvents], {}, AsOfBounds, 3) EXCEPT !.maxNow = 3],
     [Setting([events |-> ClosingEvents], {}, AsOfBounds, 3) EXCEPT !.maxNow = 4],
     Setting([forecasts |-> MCForecasts, projects |-> ReadProjects], ReadRequested, ReadBounds, 6),
     Setting(LatestRows, {}, ReadBounds, 6),
     Setting(SizedRows, {}, MixBounds, 7),
     Scoped(ScopeTables, ScopeItems, ProjectScopes, ProjectCandidates, 1),
     Scoped(RepoTables, RepoItems, RepoScopes, RepoCandidates, 0)}
================================================================================
