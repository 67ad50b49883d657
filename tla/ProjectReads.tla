----------------------------- MODULE ProjectReads -----------------------------
(***************************************************************************)
(* readers/metrics.go, readiness.go and timebound.go: the latest-row rules *)
(* of the append-only daily tables, and the project rollups over project   *)
(* identity and ownership.                                                 *)
(***************************************************************************)
EXTENDS ReaderTables, RowOrder, FiniteSetsExt, SequencesExt

-----------------------------------------------------------------------------
(* Latest rows.                                                            *)

\* A bound that lets the day after its end in.
DayPredicateLate(bound, day) ==
    ~bound.active \/ (day <= bound.end + 1 /\ (bound.start # 0 => day >= bound.start))

\* TimeBound.DayPredicate.
DayPredicate(bound, day) ==
    ~bound.active \/ (day <= bound.end /\ (bound.start # 0 => day >= bound.start))

\* A computed_at tie falls to a hash of the values.
hash(r) == r.commits * 10 + r.after
newer(r, q) == r.at > q.at \/ (r.at = q.at /\ hash(r) > hash(q))

\* Every stored version of a row.
newestOfAll(rows) == rows

\* The newest row with each value taken on its own.
newestStitched(rows) ==
    {[r EXCEPT !.after = Max({q.after : q \in {x \in rows : x.team = r.team /\ x.repo = r.repo /\ x.day = r.day}})] :
        r \in {r \in rows : ~\E q \in rows : q.team = r.team /\ q.repo = r.repo /\ q.day = r.day /\ newer(q, r)}}

\* Rule 1: per team, repository and day the newest row, whole.
newest(rows) ==
    {r \in rows : ~\E q \in rows : q.team = r.team /\ q.repo = r.repo /\ q.day = r.day /\ newer(q, r)}

\* The legacy bucket dropped once the team has a repository row on any day.
keptOverDays(rows) == {r \in rows : r.repo # Null \/ ~\E q \in rows : q.team = r.team /\ q.repo # Null}

\* Rule 2: a day's legacy bucket is dropped once a repository row exists.
kept(rows) == {r \in rows : r.repo # Null \/ ~\E q \in rows : q.team = r.team /\ q.day = r.day /\ q.repo # Null}

\* Rule 3: the rows of each team's latest day within the bound.
served(bound) ==
    LET rows == kept(newest({r \in daily : DayPredicate(bound, r.day)}))
    IN {r \in rows : ~\E q \in rows : q.team = r.team /\ q.day > r.day}

\* teamMetricsLatestDaySQL: counts summed over the repositories of that day.
teamMetricsLatestDay(bound) ==
    LET rows == served(bound)
        Of(t) == {r \in rows : r.team = t}
    IN {[team |-> t, day |-> (CHOOSE r \in Of(t) : TRUE).day,
         commits |-> MapThenSumSet(LAMBDA r : r.commits, Of(t)),
         after |-> MapThenSumSet(LAMBDA r : r.after, Of(t))] : t \in {r.team : r \in rows}}

-----------------------------------------------------------------------------
(* Project rollups.                                                        *)

Owners(bound) ==
    projectOwnershipJoinOver(ProjectIdentityJoin(projects, Org, Requested), tpo, Org, bound, now)

\* Ownership rows kept one for each identity value that matched.
ownersByIdentity(bound) ==
    {[provider |-> p.provider, id |-> p.id, team |-> o.team, scope |-> p.scope] :
        <<p, o>> \in {m \in ProjectIdentityJoin(projects, Org, Requested) \X ownershipArms(tpo, Org, bound, now) :
            m[2].provider = m[1].provider /\ m[2].scope = m[1].scope /\ m[2].kind \in {"", m[1].kind}}}

\* The breakdown without the grouping of projectOwnershipJoinOver.
breakdownRowsUngrouped(bound) ==
    {[p |-> o, m |-> m] : <<o, m>> \in {x \in ownersByIdentity(bound) \X teamMetricsLatestDay(bound) : x[1].team = x[2].team}}

\* The joined rows of ReadProjectMetricsBreakdown.
breakdownRows(bound) ==
    {[p |-> o, m |-> m] : <<o, m>> \in {x \in Owners(bound) \X teamMetricsLatestDay(bound) : x[1].team = x[2].team}}

\* Ordered by project and team, and cut.
ReadProjectMetricsBreakdown(bound) ==
    WithRowLimit({<<<<x.p.id, x.p.provider, x.m.team>>, x>> : x \in breakdownRows(bound)}, Rank, RowLimit)

\* RollupProjectMetrics: each project's sums over its teams, each team once.
RollupProjectMetrics(rows) ==
    LET Add(acc, r) ==
            LET key == <<r.p.provider, r.p.id>>
                sum == IF key \in DOMAIN acc THEN acc[key] ELSE [teams |-> {}, commits |-> 0, after |-> 0]
                new == IF r.m.team \in sum.teams THEN sum
                       ELSE [teams |-> sum.teams \cup {r.m.team}, commits |-> sum.commits + r.m.commits,
                             after |-> sum.after + r.m.after]
            IN [k \in DOMAIN acc \cup {key} |-> IF k = key THEN new ELSE acc[k]]
    IN FoldLeft(Add, [k \in {} |-> 0], rows)

later(q, r) ==
    q.day > r.day \/ (q.day = r.day /\ (q.at > r.at \/ (q.at = r.at /\ q.backlog > r.backlog)))

\* The latest coverage row of a work scope, whatever the team.
latestCoverageOfScope(bound) ==
    LET rows == {r \in coverage : DayPredicate(bound, r.day)}
    IN {r \in rows : ~\E q \in rows : q.scope = r.scope /\ q.provider = r.provider
                                        /\ later(q, r)}

\* The latest coverage row of each team, work scope and provider.
latestCoverage(bound) ==
    LET rows == {r \in coverage : DayPredicate(bound, r.day)}
    IN {r \in rows : ~\E q \in rows : q.team = r.team /\ q.scope = r.scope /\ q.provider = r.provider
                                        /\ later(q, r)}

\* ReadProjectReadiness: the project's own rows, matched on work_scope_id
\* with no provider compared (ProjectIdentityMatchSQL).
ReadProjectReadiness(bound) ==
    LET match == {<<p, c>> \in ProjectIdentityJoin(projects, Org, Requested) \X latestCoverage(bound) : c.scope = p.scope}
    IN WithRowLimit({<<<<x[1].id, x[1].provider, x[2].scope, x[2].provider, x[2].team>>, x>> : x \in match},
                    Rank, RowLimit)

-----------------------------------------------------------------------------
(* Properties.                                                             *)

Served(bound, t) == {m \in teamMetricsLatestDay(bound) : m.team = t}

\* Answers from team_metrics_daily move forward only.  A background merge
\* never shows (the readers use no FINAL, so replaced versions may or may not
\* still be there); a new row never moves a team back to an earlier day or
\* makes it vanish; and a row of a day after the bound changes no bounded
\* answer.
DailyAnswersMoveForward ==
    \A r \in RowsOf("daily") : \A bound \in Bounds :
        /\ Merge("daily", r) => teamMetricsLatestDay(bound)' = teamMetricsLatestDay(bound)
        /\ Write("daily", r) => \A m \in teamMetricsLatestDay(bound) :
                \E n \in teamMetricsLatestDay(bound)' : n.team = m.team /\ n.day >= m.day
        /\ Write("daily", r) /\ bound.active /\ r.day > bound.end =>
                teamMetricsLatestDay(bound)' = teamMetricsLatestDay(bound)

\* The rollup of an uncut breakdown is the sum over the teams that own the
\* project, and the breakdown names a team at most once however many ownership
\* rows and identity values lead to it, so that the row limit is spent on
\* distinct teams.
TeamOnceInRollup(bound) ==
    LET rows == ReadProjectMetricsBreakdown(bound)
        rollup == RollupProjectMetrics(rows)
        Owning(k) == {m \in teamMetricsLatestDay(bound) :
                        \E o \in Owners(bound) : o.team = m.team /\ <<o.provider, o.id>> = k}
    IN /\ \A i, j \in DOMAIN rows :
            rows[i].m.team = rows[j].m.team /\ rows[i].p.id = rows[j].p.id /\ rows[i].p.provider = rows[j].p.provider
                => i = j
       /\ Len(rows) < RowLimit => \A k \in DOMAIN rollup :
            rollup[k].commits = MapThenSumSet(LAMBDA m : m.commits, Owning(k))

\* A project's coverage comes back once for each of its rows: no row twice
\* when the project answers to one value as id and as key, and, when the
\* limit cuts nothing off, no team's latest row left out because another team
\* wrote later.
CoverageOnceAndWhole(bound) ==
    LET rows == ReadProjectReadiness(bound) IN
    /\ \A i, j \in DOMAIN rows :
         rows[i][1].provider = rows[j][1].provider /\ rows[i][1].id = rows[j][1].id /\ rows[i][2] = rows[j][2] => i = j
    /\ Len(rows) < RowLimit => \A p \in ProjectIdentityJoin(projects, Org, Requested) : \A c \in coverage :
         c.scope = p.scope /\ DayPredicate(bound, c.day) =>
            \E x \in ToSet(rows) : x[1] = p /\ x[2].team = c.team /\ x[2].provider = c.provider /\ x[2].day >= c.day

\* A project's rows come back once and whole, for both project reads, however
\* ids and keys coincide (ReadProjectMetricsBreakdown, ReadProjectReadiness).
\* A team's after-hours count, summed over whole rows of one day, never
\* exceeds its commits, so the recomputed ratio is a share.  The state keeps
\* its types.
ProjectRowsOnce ==
    /\ TablesTypeOK
    /\ \A bound \in Bounds :
        /\ TeamOnceInRollup(bound) /\ CoverageOnceAndWhole(bound)
        /\ \A m \in teamMetricsLatestDay(bound) : m.after <= m.commits

\* What readiness.go:104-109 says of the project read (and workload.go:97-101
\* of its twin): a row comes from a team that owns the project.
CoverageIsOfOwners ==
    \A x \in ToSet(ReadProjectReadiness(Current)) :
        \E o \in Owners(Current) : o.provider = x[1].provider /\ o.id = x[1].id /\ o.team = x[2].team
===============================================================================
