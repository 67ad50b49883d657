------------------------------ MODULE LatestReads ------------------------------
(***************************************************************************)
(* The latest-row reads of readers/workload.go, readiness.go, metrics.go,  *)
(* ci.go, deployments.go and source_health.go: of an append-only table the *)
(* newest row of each subject within the bound, chosen by row_number().    *)
(***************************************************************************)
EXTENDS ProjectReads

CONSTANT CompletionDayBinLimit

ASSUME BinAssumption == CompletionDayBinLimit \in Nat

-----------------------------------------------------------------------------
(* Capacity forecasts.                                                     *)

\* TimeBound.TimestampPredicate.
TimestampPredicate(bound, at) ==
    ~bound.active \/ (at <= bound.end /\ (bound.start # 0 => at >= bound.start))

forecastAfter(f, g) == f.at > g.at \/ (f.at = g.at /\ Rank[f.id] > Rank[g.id])

\* The newest forecast of each team, whatever the scope.
latestForecastsOfTeam(bound) ==
    LET rows == {f \in forecasts : TimestampPredicate(bound, f.at)}
    IN {f \in rows : ~\E g \in rows : g.team = f.team /\ forecastAfter(g, f)}

\* Partitioned with the scope coalesced, NULL with "".
latestForecastsCoalesced(bound) ==
    LET rows == {f \in forecasts : TimestampPredicate(bound, f.at)}
        Key(f) == IF f.scope = Null THEN "" ELSE f.scope
    IN {f \in rows : ~\E g \in rows : g.team = f.team /\ Key(g) = Key(f) /\ forecastAfter(g, f)}

\* The newest forecast first, the bound afterwards.
latestForecastsThenBound(bound) ==
    {f \in forecasts : TimestampPredicate(bound, f.at)
                        /\ ~\E g \in forecasts : g.team = f.team /\ g.scope = f.scope /\ forecastAfter(g, f)}

\* rn = 1: the newest forecast of each team and work scope as they are stored,
\* NULL apart from "".
latestForecasts(bound) ==
    LET rows == {f \in forecasts : TimestampPredicate(bound, f.at)}
    IN {f \in rows : ~\E g \in rows : g.team = f.team /\ g.scope = f.scope /\ forecastAfter(g, f)}

shown(value) == IF value = Null THEN "" ELSE value
flag(value) == IF value = Null THEN 0 ELSE 1

\* The keyed rows of ReadTeamWorkload; in its order NULL is last.
teamWorkload(ids, bound) ==
    {<<<<-f.at, Rank[f.team], 1 - flag(f.scope), Rank[f.scope]>>,
       [team |-> f.team, scope |-> shown(f.scope), backlog |-> f.backlog, at |-> f.at]>> :
        f \in {g \in latestForecasts(bound) : g.team \in ids}}

\* The order of the project read without has_team.
projectWorkloadTied(bound) ==
    {<<<<Rank[x[1].id], Rank[x[1].provider], Rank[x[2].scope], Rank[shown(x[2].team)]>>,
       [project |-> x[1].id, has_team |-> flag(x[2].team), team |-> shown(x[2].team), scope |-> x[2].scope,
        backlog |-> x[2].backlog, at |-> x[2].at]>> :
        x \in {y \in ProjectIdentityJoin(projects, Org, Requested) \X latestForecasts(bound) : y[2].scope = y[1].scope}}

\* The keyed rows of ReadProjectWorkload: the project's own forecasts, matched
\* on work_scope_id, of whatever team or of none.
projectWorkload(bound) ==
    {<<<<Rank[x[1].id], Rank[x[1].provider], Rank[x[2].scope], flag(x[2].team), Rank[shown(x[2].team)]>>,
       [project |-> x[1].id, has_team |-> flag(x[2].team), team |-> shown(x[2].team), scope |-> x[2].scope,
        backlog |-> x[2].backlog, at |-> x[2].at]>> :
        x \in {y \in ProjectIdentityJoin(projects, Org, Requested) \X latestForecasts(bound) : y[2].scope = y[1].scope}}

\* A slice at the limit itself, without the entry that is the evidence.
arraySliceAtLimit(s) == SubSeq(s, 1, IF Len(s) < CompletionDayBinLimit THEN Len(s) ELSE CompletionDayBinLimit)

\* arraySlice to one entry past the limit.
arraySlice(s) == SubSeq(s, 1, IF Len(s) < CompletionDayBinLimit + 1 THEN Len(s) ELSE CompletionDayBinLimit + 1)

\* The keyed rows of ReadTeamCompletionForecasts.
teamCompletions(ids, bound) ==
    {<<<<Rank[f.team], flag(f.scope), Rank[f.scope]>>,
       [team |-> f.team, has_work_scope |-> flag(f.scope), scope |-> shown(f.scope), backlog |-> f.backlog, at |-> f.at,
        dayBins |-> Len(f.values), countBins |-> Len(f.counts),
        values |-> arraySlice(f.values), counts |-> arraySlice(f.counts)]>> :
        f \in {g \in latestForecasts(bound) : g.team \in ids}}

ReadTeamWorkload(ids, bound) == FirstRows(teamWorkload(ids, bound), RowLimit)
ReadProjectWorkload(bound) == IF Requested = {} THEN <<>> ELSE FirstRows(projectWorkload(bound), RowLimit)
ReadTeamCompletionForecasts(ids, bound) ==
    IF ids = {} THEN <<>> ELSE FirstRows(teamCompletions(ids, bound), RowLimit)

-----------------------------------------------------------------------------
(* The other latest rows.                                                  *)

\* The newest row by the time it was computed, whatever its day.
latestOfRepoComputed(table, ids, bound) ==
    LET rows == {r \in repo_daily : r.table = table /\ r.repo \in ids /\ DayPredicate(bound, r.day)}
    IN {r \in rows : ~\E q \in rows : q.repo = r.repo /\ (q.at > r.at \/ (q.at = r.at /\ q.value > r.value))}

\* Per repository the latest day, its newest computation, then a hash of the
\* values: repo_metrics_daily, cicd_metrics_daily and deploy_metrics_daily.
latestOfRepo(table, ids, bound) ==
    LET rows == {r \in repo_daily : r.table = table /\ r.repo \in ids /\ DayPredicate(bound, r.day)}
        Later(q, r) == \/ q.day > r.day
                       \/ q.day = r.day /\ (q.at > r.at \/ (q.at = r.at /\ q.value > r.value))
    IN {r \in rows : ~\E q \in rows : q.repo = r.repo /\ Later(q, r)}

latestDayFirst(rows) == FirstRows({<<<<-r.day, Rank[r.repo]>>, r>> : r \in rows}, RowLimit)

ReadRepositoryMetrics(ids, bound) == IF ids = {} THEN <<>> ELSE latestDayFirst(latestOfRepo("repo", ids, bound))
ReadCICDMetricsDaily(ids, bound) == latestDayFirst(latestOfRepo("cicd", ids, bound))
ReadDeployMetricsDaily(ids, bound) == latestDayFirst(latestOfRepo("deploy", ids, bound))

ReadTeamReadiness(ids, bound) ==
    FirstRows({<<<<-r.day, Rank[r.team], Rank[r.scope], Rank[r.provider]>>, r>> :
                r \in {c \in latestCoverage(bound) : c.team \in ids}}, RowLimit)

\* Per provider the outcome that was logged last; a job has several chunks.
latestOutcome(bound) ==
    LET rows == {b \in backfills : TimestampPredicate(bound, b.at)}
        Later(q, r) == \/ q.at > r.at
                       \/ q.at = r.at /\ (q.job > r.job \/ (q.job = r.job /\ q.chunk > r.chunk))
    IN {r \in rows : ~\E q \in rows : q.provider = r.provider /\ Later(q, r)}

ReadSourceHealth(bound) == FirstRows({<<<<-r.at, Rank[r.provider]>>, r>> : r \in latestOutcome(bound)}, RowLimit)

-----------------------------------------------------------------------------
(* Properties.                                                             *)

ForecastTeams == {f.team : f \in forecasts} \ {Null}

\* Forecasts are never merged, swapped or cut at random.  When the row limit
\* cuts nothing off, every team and work scope with a forecast in the bound
\* has exactly one row, NULL and "" being two scopes; the three reads serve
\* the same forecast of it; a project's unattributed forecast is neither lost
\* nor shown as a team's; no order ties two rows, so a cut is the same on
\* every call; and a distribution is served past the limit exactly when the
\* stored one is (ReadTeamWorkload, ReadProjectWorkload,
\* ReadTeamCompletionForecasts).
ForecastsKeptApart ==
    \A bound \in Bounds :
        LET in == {f \in forecasts : TimestampPredicate(bound, f.at)}
            completions == ReadTeamCompletionForecasts(ForecastTeams, bound)
            Of(f) == {r \in ToSet(completions) : r.team = f.team /\ r.has_work_scope = flag(f.scope) /\ r.scope = shown(f.scope)}
        IN /\ Total(teamWorkload(ForecastTeams, bound)) /\ Total(projectWorkload(bound))
           /\ Total(teamCompletions(ForecastTeams, bound))
           /\ \A r \in ToSet(completions) : Len(r.values) > CompletionDayBinLimit <=> r.dayBins > CompletionDayBinLimit
           /\ Len(completions) < RowLimit => \A f \in in : f.team # Null =>
                /\ Cardinality(Of(f)) = 1
                /\ \A r \in Of(f) : r.at >= f.at /\ \E w \in ToSet(ReadTeamWorkload({f.team}, bound)) :
                        w.team = r.team /\ w.scope = r.scope /\ w.at = r.at /\ w.backlog = r.backlog
           /\ Len(ReadProjectWorkload(bound)) < RowLimit =>
                \A p \in ProjectIdentityJoin(projects, Org, Requested) : \A f \in in : f.scope = p.scope =>
                    \E w \in ToSet(ReadProjectWorkload(bound)) :
                        /\ w.project = p.id /\ w.scope = f.scope /\ w.has_team = flag(f.team) /\ w.team = shown(f.team)
                        /\ f.team # Null => \E r \in Of(f) : r.at = w.at /\ r.backlog = w.backlog

\* A row that arrives late or lies past the bound changes no answer of the
\* latest-row reads, and a new row moves its own subject forward and no other:
\* a run of backfill or a recomputed day never takes a repository, a team's
\* scope or a provider back (row_number() of the readers above).
LatestMovesForward ==
    \A bound \in Bounds :
        /\ \A r \in RowsOf("repo_daily") : Write("repo_daily", r) =>
             \A table \in {"repo", "cicd", "deploy"} : \A q \in latestOfRepo(table, {x.repo : x \in repo_daily}, bound) :
                \E n \in latestOfRepo(table, {x.repo : x \in repo_daily}, bound)' :
                    /\ n.repo = q.repo /\ n.day >= q.day
                    /\ n # q => n = r /\ (n.day = q.day => n.at >= q.at)
        /\ \A r \in RowsOf("backfills") : Write("backfills", r) =>
             \A q \in ToSet(ReadSourceHealth(bound)) : Len(ReadSourceHealth(bound)) < RowLimit =>
                \E n \in latestOutcome(bound)' : n.provider = q.provider /\ n.at >= q.at /\ (n # q => n = r)
        /\ \A c \in RowsOf("coverage") : Write("coverage", c) =>
             LET teams == {x.team : x \in coverage}
             IN Len(ReadTeamReadiness(teams, bound)) < RowLimit => \A q \in ToSet(ReadTeamReadiness(teams, bound)) :
                \E n \in latestCoverage(bound)' :
                    n.team = q.team /\ n.scope = q.scope /\ n.provider = q.provider /\ n.day >= q.day /\ (n # q => n = c)
        /\ \A f \in RowsOf("forecasts") : Write("forecasts", f) =>
             \/ latestForecasts(bound)' = latestForecasts(bound)
             \/ /\ TimestampPredicate(bound, f.at)
                /\ latestForecasts(bound)' = {g \in latestForecasts(bound) : g.team # f.team \/ g.scope # f.scope} \cup {f}
===============================================================================
